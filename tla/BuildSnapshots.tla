--------------------------- MODULE BuildSnapshots ---------------------------
(***************************************************************************)
(* Which versions of rows a build folds in, and who may prune with what it *)
(* leaves out.  Transactions are numbered in the order they commit, each   *)
(* with one command.  An update may be heap-only (HOT) although it changes *)
(* an indexed column, since the access method is summarizing; it is told   *)
(* to the index all the same.                                              *)
(*                                                                         *)
(* The scan skips versions nobody sees, and of a HOT chain those that are  *)
(* not its end.  When CREATE INDEX has skipped some of these, PostgreSQL   *)
(* hides the index from older snapshots (indcheckxmin); REINDEX takes them *)
(* to be equal in the index's columns.                                     *)
(***************************************************************************)
EXTENDS Naturals, FiniteSets

CONSTANTS
    Key,            \* values of the indexed column
    Reader,         \* sessions that keep a snapshot
    MaxTime         \* bound: transactions

ASSUME SnapshotAssumption == MaxTime \in Nat

VARIABLES
    time,           \* the last transaction that committed
    versions,       \* row versions in the heap, by the transaction that wrote them
    snapshot,       \* the last transaction a reader sees, 0 without a snapshot
    index,          \* whether there is one
    page,           \* keys its summary covers
    indcheckxmin,   \* snapshots before this transaction do not use it
    unchecked       \* history: the REINDEX that skipped versions of a HOT chain

vars == <<time, versions, snapshot, index, page, indcheckxmin, unchecked>>

\* xmax is 0 while the version is live.
Version == [key : Key, xmin : 1 .. MaxTime, xmax : 0 .. MaxTime, hot_updated : BOOLEAN]

TypeOK ==
    /\ time \in 0 .. MaxTime
    /\ versions \subseteq Version
    /\ snapshot \in [Reader -> 0 .. MaxTime]
    /\ index \in BOOLEAN
    /\ page \subseteq Key
    /\ indcheckxmin \in 0 .. MaxTime /\ unchecked \in 0 .. MaxTime
    /\ ~index => page = {} /\ indcheckxmin = 0

Live(v) == v.xmax = 0

OldestXmin ==
    LET seen == ({snapshot[r] : r \in Reader} \ {0}) \cup {time}
    IN  CHOOSE t \in seen : \A u \in seen : t <= u

\* Deleted, but visible to some snapshot.
RecentlyDead(v) == ~Live(v) /\ v.xmax > OldestXmin

Init ==
    /\ time = 0
    /\ versions = {}
    /\ snapshot = [r \in Reader |-> 0]
    /\ index = FALSE
    /\ page = {}
    /\ indcheckxmin = 0
    /\ unchecked = 0

Tick == time < MaxTime /\ time' = time + 1

am_insert(k) == page' = IF index THEN page \cup {k} ELSE page

New(k) == [key |-> k, xmin |-> time', xmax |-> 0, hot_updated |-> FALSE]

Insert(k) ==
    /\ Tick
    /\ versions' = versions \cup {New(k)}
    /\ am_insert(k)
    /\ UNCHANGED <<snapshot, index, indcheckxmin, unchecked>>

Update(v, k, hot) ==
    /\ Live(v)
    /\ Tick
    /\ versions' = (versions \ {v}) \cup
                   {[v EXCEPT !.xmax = time', !.hot_updated = hot], New(k)}
    /\ am_insert(k)
    /\ UNCHANGED <<snapshot, index, indcheckxmin, unchecked>>

Delete(v) ==
    /\ Live(v)
    /\ Tick
    /\ versions' = (versions \ {v}) \cup {[v EXCEPT !.xmax = time']}
    /\ UNCHANGED <<snapshot, index, page, indcheckxmin, unchecked>>

Vacuum ==
    /\ versions' = {v \in versions : Live(v) \/ RecentlyDead(v)}
    /\ versions' # versions
    /\ UNCHANGED <<time, snapshot, index, page, indcheckxmin, unchecked>>

TakeSnapshot(r) ==
    /\ snapshot[r] = 0 /\ time > 0
    /\ snapshot' = [snapshot EXCEPT ![r] = time]
    /\ UNCHANGED <<time, versions, index, page, indcheckxmin, unchecked>>

ReleaseSnapshot(r) ==
    /\ snapshot[r] # 0
    /\ snapshot' = [snapshot EXCEPT ![r] = 0]
    /\ UNCHANGED <<time, versions, index, page, indcheckxmin, unchecked>>

-----------------------------------------------------------------------------
ii_BrokenHotChain == \E v \in versions : RecentlyDead(v) /\ v.hot_updated

\* The scan of the heap: what it hands to build_callback is PostgreSQL's choice.
Scanned == {v \in versions : Live(v) \/ (RecentlyDead(v) /\ ~v.hot_updated)}

\* Mutant of build_callback: only tuples that are alive are folded in.
build_callback_alive(scanned) == {v.key : v \in {w \in scanned : Live(w)}}

build_callback(scanned) == {v.key : v \in scanned}

am_build(kind) ==
    /\ index = (kind = "reindex")
    /\ Tick
    /\ index' = TRUE
    /\ page' = build_callback(Scanned)
    /\ indcheckxmin' = IF ~ii_BrokenHotChain THEN 0
                       ELSE IF kind = "create" THEN time' ELSE indcheckxmin
    /\ unchecked' = IF ii_BrokenHotChain /\ kind = "reindex" THEN time' ELSE 0
    /\ UNCHANGED <<versions, snapshot>>

\* Mutant of DropIndex: the summary is not dropped with the index.
DropIndexKeepsPage ==
    /\ index
    /\ Tick
    /\ index' = FALSE /\ indcheckxmin' = 0 /\ unchecked' = 0
    /\ UNCHANGED <<versions, snapshot, page>>

DropIndex ==
    /\ index
    /\ Tick
    /\ index' = FALSE /\ page' = {} /\ indcheckxmin' = 0 /\ unchecked' = 0
    /\ UNCHANGED <<versions, snapshot>>

Next ==
    \/ \E k \in Key : Insert(k)
    \/ \E v \in versions, k \in Key, hot \in BOOLEAN : Update(v, k, hot)
    \/ \E v \in versions : Delete(v)
    \/ Vacuum
    \/ \E r \in Reader : TakeSnapshot(r) \/ ReleaseSnapshot(r)
    \/ \E kind \in {"create", "reindex"} : am_build(kind)
    \/ DropIndex

Spec == Init /\ [][Next]_vars

-----------------------------------------------------------------------------
Sees(r, v) == v.xmin <= snapshot[r] /\ (Live(v) \/ v.xmax > snapshot[r])

\* The planner leaves an index out that is too new for the snapshot.
Usable(r) == index /\ snapshot[r] # 0 /\ indcheckxmin <= snapshot[r]

\* Whatever a reader's snapshot still sees is covered by the summary it plans
\* with, which builds and inserts after the snapshot have made ("also covers
\* rows that older snapshots can still see", README.md); but not for a snapshot
\* older than a REINDEX that found an update of a HOT chain that some snapshot
\* still sees the start of.
OlderSnapshotsCovered ==
    \A r \in Reader, v \in versions :
        (Usable(r) /\ snapshot[r] >= unchecked /\ Sees(r, v)) => v.key \in page
=============================================================================
