-------------------------- MODULE CoveringSummary --------------------------
(***************************************************************************)
(* What the summary of a partition promises, however it is maintained: it  *)
(* is over-inclusive.  A row becomes part of it in one step, a step that   *)
(* rolls back takes nothing out of it, and only a rebuild with no other    *)
(* writer around may narrow it, to no less than the rows that are left.    *)
(***************************************************************************)
CONSTANTS
    Summary,            \* what a readable metapage may hold
    Row,                \* rows of the table
    CoversRow(_, _),    \* the summary may not be used to prune this row
    WiderThan(_, _),    \* everything the second summary covers, the first does
    Backend,        \* sessions that insert
    Slot,           \* line pointers of the partition's heap
    NoTuple,        \* a line pointer that is free
    NoPage,         \* the index has no metapage
    OtherFormat     \* the metapage holds another SUMMARY_VERSION

VARIABLES
    page,           \* the index's metapage
    heap            \* the partition's tuples

vars == <<page, heap>>

\* A tuple is in the heap before it is in the summary, and both before commit.
Tuple == [row : Row, state : {"inserting", "indexed", "committed"}, by : Backend]

IsIn(s, states) == heap[s] # NoTuple /\ heap[s].state \in states

Readable == page \in Summary

CoversTuples(p, h) ==
    \A s \in Slot :
        (h[s] # NoTuple /\ h[s].state # "inserting") => CoversRow(p, h[s].row)

-----------------------------------------------------------------------------
Init ==
    /\ heap = [s \in Slot |-> NoTuple]
    /\ page \in Summary \cup {NoPage, OtherFormat}

Place(b, s, row) ==
    /\ heap[s] = NoTuple
    /\ heap' = [heap EXCEPT ![s] = [row |-> row, state |-> "inserting", by |-> b]]
    /\ UNCHANGED page

\* The insert takes effect: the summary covers its row from now on.
Index(s) ==
    /\ IsIn(s, {"inserting"})
    /\ heap' = [heap EXCEPT ![s].state = "indexed"]
    /\ IF Readable
       THEN page' \in Summary /\ WiderThan(page', page) /\ CoversRow(page', heap[s].row)
       ELSE page' = page

\* A statement, a savepoint or a transaction is rolled back, or dead tuples go.
Remove(gone) ==
    /\ gone \subseteq {s \in Slot : heap[s] # NoTuple}
    /\ heap' = [s \in Slot |-> IF s \in gone THEN NoTuple ELSE heap[s]]
    /\ UNCHANGED page

Commit(b) ==
    /\ \A s \in Slot : IsIn(s, {"inserting"}) => heap[s].by # b
    /\ heap' = [s \in Slot |->
                   IF IsIn(s, {"indexed"}) /\ heap[s].by = b
                   THEN [heap[s] EXCEPT !.state = "committed"] ELSE heap[s]]
    /\ UNCHANGED page

Rebuild(b) ==
    /\ \A s \in Slot : heap[s] # NoTuple =>
           IsIn(s, {"committed"}) \/ (IsIn(s, {"indexed"}) /\ heap[s].by = b)
    /\ page' \in Summary /\ CoversTuples(page', heap)
    /\ UNCHANGED heap

\* What is left after a crash is committed, and covered if it can be pruned by.
Crash ==
    /\ heap' \in [Slot -> {NoTuple} \cup {t \in Tuple : t.state = "committed"}]
    /\ page' \in {NoPage, OtherFormat} \/ (page' \in Summary /\ CoversTuples(page', heap'))

Next ==
    \/ \E b \in Backend, s \in Slot, row \in Row : Place(b, s, row)
    \/ \E s \in Slot : Index(s)
    \/ \E gone \in SUBSET Slot : Remove(gone)
    \/ \E b \in Backend : Commit(b) \/ Rebuild(b)
    \/ Crash

Spec == Init /\ [][Next]_vars
=============================================================================
