-------------------------- MODULE SummaryCoherence --------------------------
(***************************************************************************)
(* Every session keeps the summaries it has planned with in a cache that   *)
(* lives as long as the session (summary_cache.rs).  A widening drops the  *)
(* cached copies through PostgreSQL's relation cache invalidations, which  *)
(* follow transactions: queued in the (sub)transaction that widened, acted *)
(* on by the session itself when its command ends, sent to the others when *)
(* the transaction commits, and discarded with what is rolled back.        *)
(*                                                                         *)
(* The summary is the set of keys it covers, with the promise of module    *)
(* CoveringSummary: an insert widens it at once and a rollback takes       *)
(* nothing back.  "No summary" prunes nothing, like one of all the keys.   *)
(***************************************************************************)
EXTENDS Naturals, FiniteSets, SequencesExt

CONSTANTS
    Backend,        \* sessions
    Key,            \* what a summary tells apart of a row
    NotCached,      \* the session's cache has no entry for the index
    MaxFrames,      \* bound: a transaction and the savepoints open in it
    MaxRows         \* bound: rows inserted and not deleted

Row == [key : Key, widened : BOOLEAN]

\* A transaction or a savepoint: the rows inserted, and whether it has messages.
Frame == [rows : SUBSET Row, noted : BOOLEAN]

ASSUME CoherenceAssumption ==
    /\ \A keys \in SUBSET Key : NotCached # keys
    /\ MaxFrames \in Nat \ {0}
    /\ MaxRows \in Nat

VARIABLES
    page,           \* keys covered by the summary in the metapage
    committed,      \* the rows that are visible to other sessions
    tx,             \* each session's transaction, a frame for each open savepoint
    ended,          \* the transaction is visible, its messages not yet sent
    current,        \* the running command has queued a message
    pending,        \* messages have been sent that the session has not accepted
    reading,        \* the page as read by the planner, not yet put into the cache
    cached          \* the cached summary

vars == <<page, committed, tx, ended, current, pending, reading, cached>>

TypeOK ==
    /\ page \subseteq Key
    /\ committed \subseteq Row
    /\ tx \in [Backend -> Seq(Frame)] /\ \A b \in Backend : Len(tx[b]) <= MaxFrames
    /\ ended \in [Backend -> BOOLEAN] /\ \A b \in Backend : ended[b] => Len(tx[b]) = 1
    /\ current \in [Backend -> BOOLEAN]
    /\ pending \in [Backend -> BOOLEAN]
    /\ reading \in [Backend -> {NotCached} \cup SUBSET Key]
    /\ cached \in [Backend -> {NotCached} \cup SUBSET Key]

NoRows == [rows |-> {}, noted |-> FALSE]

RowsOf(frames) == UNION {frames[i].rows : i \in DOMAIN frames}

NotedIn(frames) == \E i \in DOMAIN frames : frames[i].noted

Merged(frames) == [rows |-> RowsOf(frames), noted |-> NotedIn(frames)]

\* In a transaction, and neither planning nor in the middle of a command.
Ready(b) == tx[b] # <<>> /\ ~ended[b] /\ ~current[b] /\ reading[b] = NotCached

-----------------------------------------------------------------------------
Init ==
    /\ page \in SUBSET Key
    /\ committed = {}
    /\ tx = [b \in Backend |-> <<>>]
    /\ ended = [b \in Backend |-> FALSE]
    /\ current = [b \in Backend |-> FALSE]
    /\ pending = [b \in Backend |-> FALSE]
    /\ reading = [b \in Backend |-> NotCached]
    /\ cached = [b \in Backend |-> NotCached]

\* Mutant of relcache_callback: only a flush of everything is heeded.
relcache_callback_flush_only(b) == UNCHANGED cached

\* The session's cached copy is dropped.
relcache_callback(b) == cached' = [cached EXCEPT ![b] = NotCached]

\* A transaction, or a savepoint in one, starts.
Savepoint(b) ==
    /\ tx[b] = <<>> \/ Ready(b)
    /\ Len(tx[b]) < MaxFrames
    /\ tx' = [tx EXCEPT ![b] = Append(@, NoRows)]
    /\ UNCHANGED <<page, committed, ended, current, pending, reading, cached>>

\* Mutant of note_widened: nothing is sent for an index this session never used.
note_widened_if_cached(b) ==
    current' = [current EXCEPT ![b] = @ \/ cached[b] # NotCached]

\* Mutant of note_widened: one message is enough for a transaction.
note_widened_once(b) ==
    current' = [current EXCEPT ![b] = @ \/ ~NotedIn(tx[b])]

\* The message is queued with the command that widened.
note_widened(b) == current' = [current EXCEPT ![b] = TRUE]

AddRow(b, row) == tx' = [tx EXCEPT ![b][Len(tx[b])].rows = @ \cup {row}]

\* One command may insert many rows.
CanInsert(b) ==
    /\ tx[b] # <<>> /\ ~ended[b] /\ reading[b] = NotCached
    /\ Cardinality(committed \cup UNION {RowsOf(tx[o]) : o \in Backend}) < MaxRows

\* The summary covers the row: it is left alone, and so are its copies.
widen_on_insert_covered(b, k) ==
    /\ CanInsert(b)
    /\ k \in page
    /\ AddRow(b, [key |-> k, widened |-> FALSE])
    /\ UNCHANGED <<page, committed, ended, current, pending, reading, cached>>

\* The summary is widened, by this key and perhaps others between.
widen_on_insert(b, k) ==
    /\ CanInsert(b)
    /\ k \notin page
    /\ \E wide \in SUBSET Key : page \cup {k} \subseteq wide /\ page' = wide
    /\ AddRow(b, [key |-> k, widened |-> TRUE])
    /\ note_widened(b)
    /\ UNCHANGED <<committed, ended, pending, reading, cached>>

\* The session acts on the command's messages and keeps them for the commit.
CommandEnd(b) ==
    /\ current[b]
    /\ current' = [current EXCEPT ![b] = FALSE]
    /\ tx' = [tx EXCEPT ![b][Len(tx[b])].noted = TRUE]
    /\ relcache_callback(b)
    /\ UNCHANGED <<page, committed, ended, pending, reading>>

Release(b) ==
    /\ Ready(b) /\ Len(tx[b]) > 1
    /\ tx' = [tx EXCEPT ![b] =
                 Append(Front(Front(@)), Merged(<<Last(Front(@)), Last(@)>>))]
    /\ UNCHANGED <<page, committed, ended, current, pending, reading, cached>>

\* Back to a savepoint, or (left = 0) the end of the transaction.  The session
\* acts on the messages of earlier commands; all are discarded.
Rollback(b, left) ==
    /\ tx[b] # <<>> /\ ~ended[b] /\ left < Len(tx[b])
    /\ tx' = [tx EXCEPT ![b] = SubSeq(@, 1, left)]
    /\ current' = [current EXCEPT ![b] = FALSE]
    /\ reading' = [reading EXCEPT ![b] = NotCached]
    /\ IF NotedIn(SubSeq(tx[b], left + 1, Len(tx[b])))
       THEN relcache_callback(b) ELSE UNCHANGED cached
    /\ UNCHANGED <<page, committed, ended, pending>>

\* Mutant of Commit: the savepoints stay open.
CommitUnmerged(b) ==
    /\ Ready(b)
    /\ committed' = committed \cup RowsOf(tx[b])
    /\ ended' = [ended EXCEPT ![b] = TRUE]
    /\ UNCHANGED <<page, tx, current, pending, reading, cached>>

\* The rows become visible.
Commit(b) ==
    /\ Ready(b)
    /\ committed' = committed \cup RowsOf(tx[b])
    /\ tx' = [tx EXCEPT ![b] = <<Merged(@)>>]
    /\ ended' = [ended EXCEPT ![b] = TRUE]
    /\ UNCHANGED <<page, current, pending, reading, cached>>

\* The messages are sent, and after that the locks released.
SendInvalidations(b) ==
    /\ ended[b]
    /\ pending' = [o \in Backend |-> pending[o] \/ NotedIn(tx[b])]
    /\ tx' = [tx EXCEPT ![b] = <<>>]
    /\ ended' = [ended EXCEPT ![b] = FALSE]
    /\ UNCHANGED <<page, committed, current, reading, cached>>

\* At the start of a transaction and at every new lock: between read_summary
\* and put, read_index_summary does neither.
AcceptInvalidations(b) ==
    /\ pending[b]
    /\ reading[b] = NotCached
    /\ pending' = [pending EXCEPT ![b] = FALSE]
    /\ relcache_callback(b)
    /\ UNCHANGED <<page, committed, tx, ended, current, reading>>

\* Nothing is cached (`get`): the page is read while a query is planned.
read_summary(b) ==
    /\ Ready(b)
    /\ cached[b] = NotCached
    /\ reading' = [reading EXCEPT ![b] = page]
    /\ UNCHANGED <<page, committed, tx, ended, current, pending, cached>>

put(b) ==
    /\ reading[b] # NotCached
    /\ cached' = [cached EXCEPT ![b] = reading[b]]
    /\ reading' = [reading EXCEPT ![b] = NotCached]
    /\ UNCHANGED <<page, committed, tx, ended, current, pending>>

\* Deleted, and vacuumed: nothing is sent.
Vacuum(row) ==
    /\ row \in committed
    /\ committed' = committed \ {row}
    /\ UNCHANGED <<page, tx, ended, current, pending, reading, cached>>

\* REINDEX waits for the transactions that use the index; the relation it
\* updates is invalidated when it commits.
Rebuild ==
    /\ \A b \in Backend : tx[b] = <<>>
    /\ \E built \in SUBSET Key :
           /\ \A row \in committed : row.key \in built
           /\ page' = built
    /\ pending' = [b \in Backend |-> TRUE]
    /\ UNCHANGED <<committed, tx, ended, current, reading, cached>>

-----------------------------------------------------------------------------
Next ==
    \/ \E b \in Backend :
           \/ Savepoint(b)
           \/ \E k \in Key : widen_on_insert_covered(b, k) \/ widen_on_insert(b, k)
           \/ CommandEnd(b)
           \/ Release(b)
           \/ \E left \in 0 .. MaxFrames : Rollback(b, left)
           \/ Commit(b)
           \/ SendInvalidations(b)
           \/ AcceptInvalidations(b)
           \/ read_summary(b)
           \/ put(b)
    \/ \E row \in Row : Vacuum(row)
    \/ Rebuild

Spec == Init /\ [][Next]_vars

-----------------------------------------------------------------------------
Uses(b, row) == cached[b] # NotCached => row.key \in cached[b]

\* Rows whose transaction is visible but has not sent its messages yet.
Unsent == UNION {RowsOf(tx[b]) : b \in {o \in Backend : ended[o]}}

\* A committed row that widened the summary is in the cached copy of every
\* session that has accepted the messages sent so far, whatever was rolled back
\* around it and whenever the copy was read.
CacheCoversWidened ==
    \A b \in Backend, row \in committed \ Unsent :
        (row.widened /\ ~pending[b]) => Uses(b, row)

\* A later command of a transaction does not lose the rows its own earlier
\* commands widened the summary with.
OwnRowsVisible ==
    \A b \in Backend :
        ~current[b] => \A row \in RowsOf(tx[b]) : row.widened => Uses(b, row)

\* The claim of README.md and of summary_cache.rs, for a system at rest: no
\* transaction is open and no message under way.
Quiet == \A b \in Backend : tx[b] = <<>> /\ ~pending[b]

CacheNeverNarrower == Quiet => \A b \in Backend, row \in committed : Uses(b, row)
=============================================================================
