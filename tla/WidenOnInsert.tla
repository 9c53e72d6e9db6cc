--------------------------- MODULE WidenOnInsert ---------------------------
(***************************************************************************)
(* Sessions inserting into one partition widen its summary concurrently:   *)
(* index_am.rs, widen_on_insert, over the page of index_storage.rs.        *)
(*                                                                         *)
(* widen_on_insert holds no lock between read_blob and replace_blob_if,    *)
(* each of which holds the buffer lock throughout: those two are the       *)
(* steps.  What it computes from the blob it read is local to the session. *)
(* Transactions, vacuum, WAL and recovery are PostgreSQL's.                *)
(***************************************************************************)
EXTENDS IndexSummary, FiniteSets

CONSTANTS
    Backend,        \* sessions that insert
    Slot,           \* bound: line pointers of the partition's heap
    Input,          \* bound: the rows that are inserted
    NoTuple,        \* a line pointer that is free
    Idle,           \* the session is not inside am_insert
    NoPage,         \* the index has no metapage (nblocks = 0)
    OtherFormat,    \* the metapage holds another SUMMARY_VERSION
    Logged,         \* FALSE for an unlogged table
    WalBuffers      \* bound: crash outcomes kept before the WAL is written out

Page == Summary \cup {NoPage, OtherFormat}

Tuple == [row : Row, state : {"inserting", "indexed", "committed"}, by : Backend]

Insert == [slot : Slot, before : Summary \cup {None}, after : Summary \cup {None}]

\* After recovery there is no transaction left that could still roll back.
Recovered ==
    [page : Page, heap : [Slot -> {t \in Tuple : t.state = "committed"} \cup {NoTuple}]]

ASSUME WidenAssumption ==
    /\ Input \subseteq Row
    /\ NoPage \notin Summary /\ OtherFormat \notin Summary /\ None \notin Summary
    /\ NoTuple \notin Tuple
    /\ Idle \notin Insert
    /\ Logged \in BOOLEAN
    /\ WalBuffers \in Nat

VARIABLES
    page,           \* the metapage: a summary, NoPage or OtherFormat
    heap,           \* the tuple at each line pointer
    op,             \* each session's am_insert: its tuple, what it read and what to store
    wal,            \* what replaying all of the WAL gives
    recoverable     \* what replaying the WAL may give if the system crashes now

vars == <<page, heap, op, wal, recoverable>>

TypeOK ==
    /\ page \in Page
    /\ heap \in [Slot -> Tuple \cup {NoTuple}]
    /\ op \in [Backend -> Insert \cup {Idle}]
    /\ wal \in Recovered
    /\ recoverable \subseteq Recovered

IsIn(s, states) == heap[s] # NoTuple /\ heap[s].state \in states

\* Line pointers of tuples that the transaction of b has not committed.
Uncommitted(b) == {s \in Slot : IsIn(s, {"inserting", "indexed"}) /\ heap[s].by = b}

\* What a build scan by b folds in: a transaction indexes its own rows as well.
ScannedRows(b) ==
    {heap[s].row : s \in {t \in Slot : IsIn(t, {"committed"})} \cup Uncommitted(b)}

\* A record goes to the WAL buffers, which are written out when they are full.
Log(record) ==
    /\ wal' = record
    /\ recoverable' = IF Cardinality(recoverable) < WalBuffers
                      THEN recoverable \cup {record} ELSE {record}

-----------------------------------------------------------------------------
\* The empty partition: just indexed, or indexed by a release with another format.
Init ==
    /\ heap = [s \in Slot |-> NoTuple]
    /\ op = [b \in Backend |-> Idle]
    /\ \/ page = OtherFormat
       \/ page \in {encode_fitting(s) : s \in build_leaf_summary({})} /\ Fits(page)
    /\ wal = [page |-> page, heap |-> heap]
    /\ recoverable = {wal}

\* The executor puts the tuple into the heap, then calls am_insert.
HeapInsert(b, s, row) ==
    /\ op[b] = Idle
    /\ heap[s] = NoTuple
    /\ heap' = [heap EXCEPT ![s] = [row |-> row, state |-> "inserting", by |-> b]]
    /\ op' = [op EXCEPT ![b] = [slot |-> s, before |-> None, after |-> None]]
    /\ UNCHANGED <<page, wal, recoverable>>

\* am_insert returns.
Return(b) ==
    /\ heap' = [heap EXCEPT ![op[b].slot].state = "indexed"]
    /\ op' = [op EXCEPT ![b] = Idle]

InsertedRow(b) == heap[op[b].slot].row

\* Mutant of NothingToDo: only a change of the bounds counts.
NothingToDoBounds(b) ==
    \/ page \notin Summary
    \/ \A c \in Column :
           LET wide == widen_summary(page, InsertedRow(b))
           IN  wide[c].min = page[c].min /\ wide[c].max = page[c].max

\* There is no summary to maintain, or it covers the row already.
NothingToDo(b) == page \notin Summary \/ widen_summary(page, InsertedRow(b)) = page

\* Mutant of read_blob: a missing summary is started when a value is inserted.
read_blob_or_create(b) ==
    /\ op[b] # Idle /\ op[b].before = None
    /\ page \in Summary => widen_summary(page, InsertedRow(b)) = page
    /\ Return(b)
    /\ IF page = NoPage /\ \E c \in Column : InsertedRow(b)[c] # Null
       THEN \E s \in build_leaf_summary({InsertedRow(b)}) : page' = s
       ELSE UNCHANGED page
    /\ UNCHANGED <<wal, recoverable>>

\* Mutant of read_blob: a blob of another format is taken for an empty summary.
read_blob_of_any_format(b) ==
    /\ op[b] # Idle /\ op[b].before = None
    /\ IF NothingToDo(b) /\ page # OtherFormat
       THEN Return(b)
       ELSE /\ \E after \in IF page = OtherFormat THEN build_leaf_summary({InsertedRow(b)})
                            ELSE {Widened(page, InsertedRow(b))} :
                   op' = [op EXCEPT ![b].before = page, ![b].after = after]
            /\ UNCHANGED heap
    /\ UNCHANGED <<page, wal, recoverable>>

read_blob(b) ==
    /\ op[b] # Idle /\ op[b].before = None
    /\ IF NothingToDo(b)
       THEN Return(b)
       ELSE /\ op' = [op EXCEPT ![b].before = page,
                                ![b].after = Widened(page, InsertedRow(b))]
            /\ UNCHANGED heap
    /\ UNCHANGED <<page, wal, recoverable>>

\* Mutant of replace_blob: written without comparing.
replace_blob_blindly(b) ==
    /\ op[b] # Idle /\ op[b].before # None
    /\ Fits(op[b].after)
    /\ page' = op[b].after
    /\ Log([wal EXCEPT !.page = op[b].after])
    /\ Return(b)

\* Mutant of replace_blob: the page is changed outside the WAL.
replace_blob_unlogged(b) ==
    /\ op[b] # Idle /\ op[b].before # None
    /\ Fits(op[b].after)
    /\ page = op[b].before
    /\ page' = op[b].after
    /\ Return(b)
    /\ UNCHANGED <<wal, recoverable>>

\* The page still holds the blob that was read: put_blob, with its WAL record.
replace_blob(b) ==
    /\ op[b] # Idle /\ op[b].before # None
    /\ Fits(op[b].after)
    /\ page = op[b].before
    /\ page' = op[b].after
    /\ Log([wal EXCEPT !.page = op[b].after])
    /\ Return(b)

\* Mutant of retry: the blob is not read again.
retry_stale(b) ==
    /\ op[b] # Idle /\ op[b].before # None
    /\ page # op[b].before
    /\ UNCHANGED vars

\* Changed by another session since it was read, or gone: read it again.
retry(b) ==
    /\ op[b] # Idle /\ op[b].before # None
    /\ Fits(op[b].after)
    /\ page # op[b].before
    /\ op' = [op EXCEPT ![b].before = None, ![b].after = None]
    /\ UNCHANGED <<page, heap, wal, recoverable>>

\* The transaction of b loses the tuples in `gone`: check_for_interrupts, an
\* error of am_insert (parallel mode, the size of the blob) or one elsewhere in
\* the statement rolls back to a savepoint or all the way.
Rollback(b, gone) ==
    /\ gone # {} /\ gone \subseteq Uncommitted(b)
    /\ op[b] # Idle =>
           op[b].slot \in gone /\ (op[b].before # None => ~Fits(op[b].after))
    /\ heap' = [s \in Slot |-> IF s \in gone THEN NoTuple ELSE heap[s]]
    /\ op' = [op EXCEPT ![b] = Idle]
    /\ UNCHANGED <<page, wal, recoverable>>

WithCommitted(b) ==
    [s \in Slot |-> IF s \in Uncommitted(b)
                    THEN [heap[s] EXCEPT !.state = "committed"] ELSE heap[s]]

\* The commit record says which tuples survive; others' are not in it.
Commit(b) ==
    /\ op[b] = Idle /\ Uncommitted(b) # {}
    /\ heap' = WithCommitted(b)
    /\ Log([wal EXCEPT !.heap =
                [s \in Slot |-> IF s \in Uncommitted(b) THEN WithCommitted(b)[s] ELSE @[s]]])
    /\ UNCHANGED <<page, op>>

\* A deleted row no snapshot can see any more is vacuumed.
Vacuum(s) ==
    /\ IsIn(s, {"committed"})
    /\ heap' = [heap EXCEPT ![s] = NoTuple]
    /\ Log([wal EXCEPT !.heap[s] = NoTuple])
    /\ UNCHANGED <<page, op>>

\* Mutant of Rebuild: the scan does not wait for writers.
RebuildUnlocked(b) ==
    /\ op[b] = Idle
    /\ \E s \in build_leaf_summary(ScannedRows(b)) :
           /\ Fits(encode_fitting(s))
           /\ page' = encode_fitting(s)
    /\ Log([wal EXCEPT !.page = page'])
    /\ UNCHANGED <<heap, op>>

\* am_build for CREATE INDEX or REINDEX by b: its lock on the table waits for every
\* other transaction that has written to it, and lets in no new one.  All rows are
\* in the index: a partial one is refused.  A build that is rolled back leaves the
\* page as it was, with all rows that are left: it is no step here.
Rebuild(b) ==
    /\ op[b] = Idle
    /\ \A other \in Backend \ {b} : op[other] = Idle /\ Uncommitted(other) = {}
    /\ \E s \in build_leaf_summary(ScannedRows(b)) :
           /\ Fits(encode_fitting(s))
           /\ page' = encode_fitting(s)
    /\ Log([wal EXCEPT !.page = page'])
    /\ UNCHANGED <<heap, op>>

\* The WAL reaches the disk: what was logged so far survives a crash.
WalFlush ==
    /\ recoverable # {wal}
    /\ recoverable' = {wal}
    /\ UNCHANGED <<page, heap, op, wal>>

\* All sessions end.  An unlogged table is reset to its empty init fork, for
\* which am_buildempty has written no metapage.
Crash ==
    /\ op' = [b \in Backend |-> Idle]
    /\ IF Logged
       THEN \E r \in recoverable : page' = r.page /\ heap' = r.heap
       ELSE page' = NoPage /\ heap' = [s \in Slot |-> NoTuple]
    /\ wal' = [page |-> page', heap |-> heap']
    /\ recoverable' = {wal'}

-----------------------------------------------------------------------------
Next ==
    \/ \E b \in Backend :
           \/ \E s \in Slot, row \in Input : HeapInsert(b, s, row)
           \/ read_blob(b)
           \/ replace_blob(b)
           \/ retry(b)
           \/ \E gone \in SUBSET Slot : Rollback(b, gone)
           \/ Commit(b)
           \/ Rebuild(b)
    \/ \E s \in Slot : Vacuum(s)
    \/ WalFlush
    \/ Crash

Spec == Init /\ [][Next]_vars

\* A session inside am_insert keeps running; nothing else has to happen.
Fairness == \A b \in Backend : WF_vars(read_blob(b) \/ replace_blob(b) \/ retry(b))

FairSpec == Spec /\ Fairness

-----------------------------------------------------------------------------
CoversTuples(p, h) ==
    \A s \in Slot :
        (h[s] # NoTuple /\ h[s].state # "inserting") => CoversRow(p, h[s].row)

\* Every row whose insert has returned is covered, committed or not: widenings
\* that race never overwrite each other, and none is undone by a rollback.
PageCovers == page \in Summary => CoversTuples(page, heap)

\* Wherever a crash cuts the WAL, the summary it leaves covers the rows whose
\* commit it leaves: a widening is logged before the commit that relies on it.
RecoveryCovers == \A r \in recoverable : r.page \in Summary => CoversTuples(r.page, r.heap)

\* What makes both inductive: the session inserting a tuple is in am_insert,
\* and a blob it is about to store covers its row and all of what it has read;
\* the WAL holds the page as it is, and no tuple that may still roll back.
InsertsInProgress ==
    /\ \A b \in Backend :
           op[b] # Idle =>
               /\ IsIn(op[b].slot, {"inserting"}) /\ heap[op[b].slot].by = b
               /\ op[b].before # None =>
                      /\ op[b].after \in Summary
                      /\ WiderThan(op[b].after, op[b].before)
                      /\ CoversRow(op[b].after, InsertedRow(b))
    /\ \A s \in Slot :
           IsIn(s, {"inserting"}) => op[heap[s].by] # Idle /\ op[heap[s].by].slot = s

WalMatches ==
    /\ wal.page = page
    /\ \A s \in Slot : wal.heap[s] # NoTuple => wal.heap[s] = heap[s]

IInv ==
    TypeOK /\ InsertsInProgress /\ WalMatches /\ PageCovers /\ RecoveryCovers

\* A query that reads the page while planning loses no row that is committed.
PruneLosesNoRow ==
    page \in Summary =>
        \A s \in Slot, c \in Column, clause \in Clause :
            (IsIn(s, {"committed"}) /\ proves_prune(clause, page[c]))
                => ~Matches(clause, heap[s].row[c])

\* Only a build or a crash may leave a summary narrower than it was.
NeverNarrows ==
    [][(\A b \in Backend : ~Rebuild(b)) /\ ~Crash /\ page \in Summary =>
          page' \in Summary /\ WiderThan(page', page)]_vars

\* The compare-and-swap loop ends: the summary cannot widen forever, so a
\* session that keeps running is not made to retry forever.
InsertReturns == \A b \in Backend : op[b] # Idle ~> op[b] = Idle

\* The loop implements the atomic, over-inclusive summary.
Promise == INSTANCE CoveringSummary WITH page <- page, heap <- heap
PromiseKept == Promise!Spec
=============================================================================
