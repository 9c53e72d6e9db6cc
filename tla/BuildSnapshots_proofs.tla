------------------------ MODULE BuildSnapshots_proofs ------------------------
(***************************************************************************)
(* For any number of readers and transactions: a summary covers what the   *)
(* snapshots that may plan with it see, also when its build skipped rows.  *)
(***************************************************************************)
EXTENDS BuildSnapshots, WellFoundedInduction, TLAPS

\* A version that is not in the summary of the index is one that a build has
\* skipped: it ended before every snapshot there is, or before the snapshots
\* that the index is for.
Skipped(v) ==
    /\ ~Live(v)
    /\ \/ v.xmax <= indcheckxmin
       \/ v.xmax <= unchecked
       \/ \A r \in Reader : snapshot[r] # 0 => v.xmax <= snapshot[r]

\* No version and no snapshot is younger than the last transaction, so a new
\* snapshot is younger than every end of a version.
PastOnly ==
    /\ \A v \in versions : v.xmax <= time
    /\ \A r \in Reader : snapshot[r] <= time

CoveredOrSkipped == index => \A v \in versions : v.key \in page \/ Skipped(v)

IInv == TypeOK /\ PastOnly /\ CoveredOrSkipped

LEMMA InitIInv == Init => IInv
<1> SUFFICES ASSUME Init PROVE IInv
    OBVIOUS
<1>1. ~index /\ index \in BOOLEAN
      BY DEF Init
<1>2. TypeOK
      BY <1>1, SnapshotAssumption DEF Init, TypeOK
<1>3. PastOnly /\ CoveredOrSkipped
      BY <1>1 DEF Init, PastOnly, CoveredOrSkipped
<1> QED BY <1>2, <1>3 DEF IInv

(***************************************************************************)
(* A set of transactions has an oldest one.                                *)
(***************************************************************************)
LEMMA HasOldest ==
    ASSUME NEW S \in SUBSET Nat, S # {}
    PROVE  \E t \in S : \A u \in S : t <= u
<1>1. PICK t \in S : \A u \in S : <<u, t>> \notin OpToRel(<, Nat)
      BY NatLessThanWellFounded, WFMin
<1>2. \A u \in S : ~(u < t)
      BY <1>1 DEF OpToRel
<1> QED BY <1>2

(***************************************************************************)
(* OldestXmin is no younger than any snapshot.                             *)
(***************************************************************************)
LEMMA OldestIsOldest ==
    ASSUME TypeOK
    PROVE  /\ OldestXmin \in Nat
           /\ OldestXmin <= time
           /\ \A r \in Reader : snapshot[r] # 0 => OldestXmin <= snapshot[r]
<1> DEFINE seen == ({snapshot[r] : r \in Reader} \ {0}) \cup {time}
           Oldest(t) == \A u \in seen : t <= u
<1>1. seen \in SUBSET Nat /\ time \in seen
      BY SnapshotAssumption DEF TypeOK
<1>2. \E t \in seen : Oldest(t)
  <2> HIDE DEF seen
  <2> QED BY <1>1, HasOldest
<1>3. OldestXmin = CHOOSE t \in seen : Oldest(t)
      BY DEF OldestXmin
<1>4. OldestXmin \in seen /\ Oldest(OldestXmin)
  <2> HIDE DEF seen, Oldest
  <2> QED BY <1>2, <1>3
<1> QED BY <1>1, <1>4

-----------------------------------------------------------------------------
(* What time passing, a longer page and fewer versions leave alone.        *)

(***************************************************************************)
(* A transaction keeps the invariant if what it writes is in the summary,  *)
(* or replaces a version that is.                                          *)
(***************************************************************************)
LEMMA CommitIInv ==
    ASSUME IInv, Tick, UNCHANGED <<snapshot, index, indcheckxmin, unchecked>>,
           page \subseteq page', page' \subseteq Key, ~index => page' = {},
           versions' \subseteq Version,
           \A v \in versions' :
               /\ v.xmax <= time'
               /\ index => \/ v \in versions
                           \/ v.key \in page'
                           \/ \E w \in versions : Live(w) /\ w.key = v.key
    PROVE  IInv'
<1>1. /\ time \in Nat /\ time' = time + 1 /\ time' <= MaxTime
      /\ \A r \in Reader : snapshot[r] \in Nat /\ snapshot[r] <= time
      BY SnapshotAssumption DEF IInv, TypeOK, PastOnly, Tick
<1>2. TypeOK'
      BY <1>1, SnapshotAssumption DEF IInv, TypeOK
<1>3. PastOnly'
      BY <1>1 DEF PastOnly
<1>4. CoveredOrSkipped'
  <2> SUFFICES ASSUME index, NEW v \in versions' PROVE v.key \in page' \/ Skipped(v)'
      BY DEF CoveredOrSkipped
  <2>1. CASE v \in versions
        BY <2>1 DEF IInv, CoveredOrSkipped, Skipped, Live
  <2>2. CASE \E w \in versions : Live(w) /\ w.key = v.key
        BY <2>2 DEF IInv, CoveredOrSkipped, Skipped
  <2> QED BY <2>1, <2>2
<1> QED BY <1>2, <1>3, <1>4 DEF IInv

LEMMA NewVersion ==
    ASSUME IInv, Tick, NEW k \in Key
    PROVE  New(k) \in Version /\ New(k).key = k /\ New(k).xmax = 0 /\ time' \in 1 .. MaxTime
BY SnapshotAssumption DEF New, Version, Tick, IInv, TypeOK

\* am_insert is told of every new version, HOT or not.
LEMMA Inserted ==
    ASSUME IInv, NEW k \in Key, am_insert(k)
    PROVE  /\ page \subseteq page' /\ page' \subseteq Key
           /\ ~index => page' = {}
           /\ index => k \in page'
BY DEF am_insert, IInv, TypeOK

LEMMA InsertIInv ==
    ASSUME IInv, NEW k \in Key, Insert(k)
    PROVE  IInv'
<1>1. /\ Tick /\ am_insert(k) /\ versions' = versions \cup {New(k)}
      /\ UNCHANGED <<snapshot, index, indcheckxmin, unchecked>>
      BY DEF Insert
<1>2. \A v \in versions : v \in Version /\ v.xmax <= time'
      BY <1>1, SnapshotAssumption DEF IInv, TypeOK, PastOnly, Tick, Version
<1>3. /\ New(k) \in Version /\ New(k).key = k /\ New(k).xmax = 0 /\ time' \in 1 .. MaxTime
      /\ page \subseteq page' /\ page' \subseteq Key
      /\ ~index => page' = {}
      /\ index => k \in page'
      BY <1>1, NewVersion, Inserted
<1>4. versions' \subseteq Version
      BY <1>1, <1>2, <1>3
<1>5. \A v \in versions' : v.xmax <= time' /\ (index => v \in versions \/ v.key \in page')
  <2> HIDE DEF New
  <2> QED BY <1>1, <1>2, <1>3
<1> QED BY <1>1, <1>3, <1>4, <1>5, CommitIInv

LEMMA UpdateIInv ==
    ASSUME IInv, NEW v \in versions, NEW k \in Key, NEW hot \in BOOLEAN, Update(v, k, hot)
    PROVE  IInv'
<1> DEFINE old == [v EXCEPT !.xmax = time', !.hot_updated = hot]
<1>1. /\ Tick /\ am_insert(k) /\ Live(v) /\ versions' = (versions \ {v}) \cup {old, New(k)}
      /\ UNCHANGED <<snapshot, index, indcheckxmin, unchecked>>
      BY DEF Update
<1>2. \A w \in versions : w \in Version /\ w.xmax <= time'
      BY <1>1, SnapshotAssumption DEF IInv, TypeOK, PastOnly, Tick, Version
<1>3. /\ New(k) \in Version /\ New(k).key = k /\ New(k).xmax = 0 /\ time' \in 1 .. MaxTime
      /\ page \subseteq page' /\ page' \subseteq Key
      /\ ~index => page' = {}
      /\ index => k \in page'
      BY <1>1, NewVersion, Inserted
<1>4. old \in Version /\ old.key = v.key /\ old.xmax = time'
  <2> DEFINE end == time'
  <2>1. v \in Version /\ end \in 0 .. MaxTime
        BY <1>2, <1>3
  <2> HIDE DEF end
  <2>2. [v EXCEPT !.xmax = end, !.hot_updated = hot] \in Version
        BY <2>1 DEF Version
  <2>3. /\ [v EXCEPT !.xmax = end, !.hot_updated = hot].key = v.key
        /\ [v EXCEPT !.xmax = end, !.hot_updated = hot].xmax = end
        BY <2>1 DEF Version
  <2> QED BY <2>2, <2>3 DEF end
<1> HIDE DEF old
<1>5. versions' \subseteq Version
      BY <1>1, <1>2, <1>3, <1>4
<1>6. \A w \in versions' :
          w.xmax <= time' /\ (index => w \in versions \/ w.key \in page' \/ w.key = v.key)
      BY <1>1, <1>2, <1>3, <1>4
<1> QED BY <1>1, <1>3, <1>5, <1>6, CommitIInv

LEMMA DeleteIInv ==
    ASSUME IInv, NEW v \in versions, Delete(v)
    PROVE  IInv'
<1> DEFINE old == [v EXCEPT !.xmax = time']
<1>1. /\ Tick /\ Live(v) /\ versions' = (versions \ {v}) \cup {old} /\ page' = page
      /\ UNCHANGED <<snapshot, index, indcheckxmin, unchecked>>
      BY DEF Delete
<1>2. /\ \A w \in versions : w \in Version /\ w.xmax <= time'
      /\ time' \in 1 .. MaxTime /\ page \subseteq Key
      /\ ~index => page = {}
      BY <1>1, SnapshotAssumption DEF IInv, TypeOK, PastOnly, Tick, Version
<1>3. old \in Version /\ old.key = v.key /\ old.xmax = time'
  <2> DEFINE end == time'
  <2>1. v \in Version /\ end \in 0 .. MaxTime
        BY <1>2
  <2> HIDE DEF end
  <2>2. [v EXCEPT !.xmax = end] \in Version
        BY <2>1 DEF Version
  <2>3. /\ [v EXCEPT !.xmax = end].key = v.key
        /\ [v EXCEPT !.xmax = end].xmax = end
        BY <2>1 DEF Version
  <2> QED BY <2>2, <2>3 DEF end
<1> HIDE DEF old
<1>4. versions' \subseteq Version
      BY <1>1, <1>2, <1>3
<1>5. \A w \in versions' : w.xmax <= time' /\ (index => w \in versions \/ w.key = v.key)
      BY <1>1, <1>2, <1>3
<1> QED BY <1>1, <1>2, <1>4, <1>5, CommitIInv

LEMMA VacuumIInv ==
    ASSUME IInv, Vacuum
    PROVE  IInv'
BY DEF Vacuum, IInv, TypeOK, PastOnly, CoveredOrSkipped, Skipped, Live

-----------------------------------------------------------------------------
(* Snapshots.                                                              *)

LEMMA SnapshotIInv ==
    ASSUME IInv, NEW r \in Reader, TakeSnapshot(r) \/ ReleaseSnapshot(r)
    PROVE  IInv'
<1>1. /\ UNCHANGED <<time, versions, index, page, indcheckxmin, unchecked>>
      /\ snapshot' \in [Reader -> 0 .. MaxTime]
      /\ \A q \in Reader : snapshot'[q] = snapshot[q] \/ snapshot'[q] = time \/ snapshot'[q] = 0
      BY SnapshotAssumption DEF TakeSnapshot, ReleaseSnapshot, IInv, TypeOK
<1>2. TypeOK' /\ PastOnly'
      BY <1>1, SnapshotAssumption DEF IInv, TypeOK, PastOnly
<1>3. \A v \in versions : Skipped(v) => Skipped(v)'
      BY <1>1 DEF Skipped, Live, IInv, PastOnly
<1> QED BY <1>1, <1>2, <1>3 DEF IInv, CoveredOrSkipped

-----------------------------------------------------------------------------
(* CREATE INDEX, REINDEX and DROP INDEX.                                   *)

(***************************************************************************)
(* What a build skips ended before every snapshot, or is hidden from the   *)
(* snapshots of older transactions than the build's.                       *)
(***************************************************************************)
LEMMA BuildIInv ==
    ASSUME IInv, NEW kind \in {"create", "reindex"}, am_build(kind)
    PROVE  IInv'
<1>1. /\ time \in Nat /\ time' = time + 1 /\ time' \in 0 .. MaxTime /\ index'
      /\ page' = {v.key : v \in Scanned}
      /\ indcheckxmin' = IF ~ii_BrokenHotChain THEN 0
                         ELSE IF kind = "create" THEN time' ELSE indcheckxmin
      /\ unchecked' = IF ii_BrokenHotChain /\ kind = "reindex" THEN time' ELSE 0
      /\ versions' = versions /\ snapshot' = snapshot
      BY SnapshotAssumption DEF am_build, build_callback, Tick, IInv, TypeOK
<1>2. /\ \A v \in versions : v \in Version /\ v.xmax \in Nat /\ v.xmax <= time
      /\ \A r \in Reader : snapshot[r] \in Nat /\ snapshot[r] <= time
      BY SnapshotAssumption DEF IInv, TypeOK, PastOnly, Version
<1>3. TypeOK'
  <2>1. page' \subseteq Key
        BY <1>1, <1>2 DEF Scanned, Version
  <2>2. indcheckxmin' \in 0 .. MaxTime /\ unchecked' \in 0 .. MaxTime
        BY <1>1, SnapshotAssumption DEF IInv, TypeOK
  <2> QED BY <1>1, <2>1, <2>2 DEF IInv, TypeOK
<1>4. PastOnly'
      BY <1>1, <1>2 DEF PastOnly
<1>5. ASSUME NEW v \in versions, v.key \notin page' PROVE Skipped(v)'
  <2>1. ~Live(v) /\ (RecentlyDead(v) => v.hot_updated)
        BY <1>1, <1>5 DEF Scanned
  <2>2. CASE RecentlyDead(v)
    <3>1. ii_BrokenHotChain
          BY <2>1, <2>2 DEF ii_BrokenHotChain
    <3>2. indcheckxmin' = time' \/ unchecked' = time'
          BY <1>1, <3>1
    <3>3. v.xmax <= time'
          BY <1>1, <1>2
    <3> QED BY <2>1, <3>2, <3>3 DEF Skipped, Live
  <2>3. CASE ~RecentlyDead(v)
    <3>1. v.xmax <= OldestXmin /\ OldestXmin \in Nat
          BY <1>2, <2>1, <2>3, OldestIsOldest DEF RecentlyDead, IInv
    <3>2. \A r \in Reader : snapshot[r] # 0 => OldestXmin <= snapshot[r]
          BY OldestIsOldest DEF IInv
    <3>3. \A r \in Reader : snapshot[r] # 0 => v.xmax <= snapshot[r]
          BY <1>2, <3>1, <3>2
    <3> QED BY <1>1, <2>1, <3>3 DEF Skipped, Live
  <2> QED BY <2>2, <2>3
<1> QED BY <1>1, <1>3, <1>4, <1>5 DEF IInv, CoveredOrSkipped

LEMMA DropIInv ==
    ASSUME IInv, DropIndex
    PROVE  IInv'
<1>1. /\ time \in Nat /\ time' = time + 1 /\ time' \in 0 .. MaxTime /\ page' = {}
      /\ indcheckxmin' = 0 /\ unchecked' = 0
      /\ versions' = versions /\ snapshot' = snapshot
      BY SnapshotAssumption DEF DropIndex, Tick, IInv, TypeOK
<1>2. ~index' /\ index' \in BOOLEAN
      BY DEF DropIndex
<1>3. TypeOK'
  <2>1. 0 \in 0 .. MaxTime
        BY SnapshotAssumption
  <2>2. TypeOK
        BY DEF IInv
  <2>3. indcheckxmin' \in 0 .. MaxTime /\ unchecked' \in 0 .. MaxTime
        BY <1>1, <2>1
  <2> QED BY <1>1, <1>2, <2>2, <2>3 DEF TypeOK
<1>4. PastOnly'
  <2>1. \A v \in versions : v.xmax \in Nat
        BY DEF IInv, TypeOK, Version
  <2> QED BY <1>1, <2>1, SnapshotAssumption DEF IInv, TypeOK, PastOnly
<1> QED BY <1>2, <1>3, <1>4 DEF IInv, CoveredOrSkipped

-----------------------------------------------------------------------------
LEMMA StepIInv == IInv /\ [Next]_vars => IInv'
<1> SUFFICES ASSUME IInv, [Next]_vars PROVE IInv'
    OBVIOUS
<1>1. CASE UNCHANGED vars
      BY <1>1 DEF vars, IInv, TypeOK, PastOnly, CoveredOrSkipped, Skipped, Live
<1>2. ASSUME NEW k \in Key, Insert(k) PROVE IInv'
      BY <1>2, InsertIInv
<1>3. ASSUME NEW v \in versions, NEW k \in Key, NEW hot \in BOOLEAN, Update(v, k, hot)
      PROVE  IInv'
      BY <1>3, UpdateIInv
<1>4. ASSUME NEW v \in versions, Delete(v) PROVE IInv'
      BY <1>4, DeleteIInv
<1>5. CASE Vacuum
      BY <1>5, VacuumIInv
<1>6. ASSUME NEW r \in Reader, TakeSnapshot(r) \/ ReleaseSnapshot(r) PROVE IInv'
      BY <1>6, SnapshotIInv
<1>7. ASSUME NEW kind \in {"create", "reindex"}, am_build(kind) PROVE IInv'
      BY <1>7, BuildIInv
<1>8. CASE DropIndex
      BY <1>8, DropIInv
<1> QED BY <1>1, <1>2, <1>3, <1>4, <1>5, <1>6, <1>7, <1>8 DEF Next

LEMMA AlwaysIInv == Spec => []IInv
BY InitIInv, StepIInv, PTL DEF Spec

(***************************************************************************)
(* Transactions, versions and the two marks of the index have their types, *)
(* and there is no summary without an index.                               *)
(***************************************************************************)
THEOREM SnapshotTypeCorrect == Spec => []TypeOK
<1>1. IInv => TypeOK
      BY DEF IInv
<1> QED BY <1>1, AlwaysIInv, PTL

(***************************************************************************)
(* "Also covers rows that older snapshots can still see" (README.md): but  *)
(* for the REINDEX of a broken HOT chain, whatever a snapshot sees is in   *)
(* the summary it plans with.                                              *)
(***************************************************************************)
THEOREM OlderSnapshotsAlwaysCovered == Spec => []OlderSnapshotsCovered
<1>1. IInv => OlderSnapshotsCovered
  <2> SUFFICES ASSUME IInv, NEW r \in Reader, NEW v \in versions,
                      Usable(r), snapshot[r] >= unchecked, Sees(r, v)
               PROVE  v.key \in page
      BY DEF OlderSnapshotsCovered
  <2>1. /\ index /\ snapshot[r] # 0 /\ indcheckxmin <= snapshot[r]
        /\ Live(v) \/ v.xmax > snapshot[r]
        BY DEF Usable, Sees
  <2>2. /\ snapshot[r] \in Nat /\ v.xmax \in Nat /\ indcheckxmin \in Nat /\ unchecked \in Nat
        BY SnapshotAssumption DEF IInv, TypeOK, Version
  <2>3. ~Skipped(v)
        BY <2>1, <2>2 DEF Skipped
  <2> QED BY <2>1, <2>3 DEF IInv, CoveredOrSkipped
<1> QED BY <1>1, AlwaysIInv, PTL
=============================================================================
