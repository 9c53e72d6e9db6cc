------------------------ MODULE WidenOnInsert_proofs ------------------------
(***************************************************************************)
(* For any number of sessions and rows, any type, any size of the page and *)
(* any cut a crash makes in the WAL: no row is left out of the summary.    *)
(***************************************************************************)
EXTENDS WidenOnInsert, IndexSummary_proofs

(***************************************************************************)
(* The invariant but for the recoverable states, which follow from it.     *)
(***************************************************************************)
Core == TypeOK /\ InsertsInProgress /\ WalMatches /\ PageCovers

(***************************************************************************)
(* A wider page covers the tuples the narrower one covered.                *)
(***************************************************************************)
LEMMA WiderCoversTuples ==
    ASSUME NEW p, NEW q, NEW h \in [Slot -> Tuple \cup {NoTuple}],
           WiderThan(q, p), CoversTuples(p, h)
    PROVE  CoversTuples(q, h)
<1>1. ASSUME NEW s \in Slot, h[s] # NoTuple PROVE h[s].row \in Row
      BY <1>1 DEF Tuple
<1> QED BY <1>1, WiderCoversRow DEF CoversTuples

(***************************************************************************)
(* An empty partition is covered by whatever its page holds.               *)
(***************************************************************************)
LEMMA InitIInv == Init => IInv
<1> SUFFICES ASSUME Init PROVE IInv
    OBVIOUS
<1>1. page \in Page
  <2>1. CASE page = OtherFormat
        BY <2>1 DEF Page
  <2>2. CASE page \in {encode_fitting(s) : s \in build_leaf_summary({})}
        BY <2>2, BuildCovers DEF Page
  <2> QED BY <2>1, <2>2 DEF Init
<1>2. TypeOK
      BY <1>1 DEF Init, TypeOK, Recovered
<1>3. InsertsInProgress /\ WalMatches
      BY DEF Init, InsertsInProgress, WalMatches, IsIn
<1>4. PageCovers /\ RecoveryCovers
      BY DEF Init, PageCovers, RecoveryCovers, CoversTuples
<1> QED BY <1>2, <1>3, <1>4 DEF IInv

(***************************************************************************)
(* A tuple nobody has indexed yet disturbs nothing.                        *)
(***************************************************************************)
LEMMA HeapInsertCore ==
    ASSUME Core, NEW b \in Backend, NEW s \in Slot, NEW row \in Input,
           HeapInsert(b, s, row)
    PROVE  Core'
<1> USE DEF Core
<1> DEFINE new == [row |-> row, state |-> "inserting", by |-> b]
           ins == [slot |-> s, before |-> None, after |-> None]
<1>1. new \in Tuple /\ new # NoTuple /\ ins \in Insert /\ ins # Idle
      BY WidenAssumption DEF Tuple, Insert
<1>2. /\ \A t \in Slot : heap'[t] = IF t = s THEN new ELSE heap[t]
      /\ \A d \in Backend : op'[d] = IF d = b THEN ins ELSE op[d]
      BY DEF HeapInsert, TypeOK
<1>3. TypeOK'
      BY <1>1 DEF HeapInsert, TypeOK
<1>4. InsertsInProgress'
  <2>1. \A t \in Slot : heap[t] # NoTuple => heap'[t] = heap[t]
        BY <1>2 DEF HeapInsert
  <2>2. ASSUME NEW d \in Backend, op'[d] # Idle
        PROVE  /\ IsIn(op[d].slot, {"inserting"})' /\ heap'[op'[d].slot].by = d
               /\ op'[d].before # None =>
                      /\ op'[d].after \in Summary
                      /\ WiderThan(op'[d].after, op'[d].before)
                      /\ CoversRow(op'[d].after, InsertedRow(d)')
    <3>1. CASE d = b
          BY <1>1, <1>2, <3>1 DEF IsIn, InsertedRow
    <3>2. CASE d # b
      <4>1. op'[d] = op[d] /\ op[d] # Idle /\ op[d].slot \in Slot
            BY <1>2, <2>2, <3>2 DEF TypeOK, Insert
      <4> QED BY <2>1, <3>2, <4>1 DEF InsertsInProgress, IsIn, InsertedRow
    <3> QED BY <3>1, <3>2
  <2>3. ASSUME NEW t \in Slot, IsIn(t, {"inserting"})'
        PROVE  op'[heap'[t].by] # Idle /\ op'[heap'[t].by].slot = t
    <3>1. CASE t = s
          BY <1>1, <1>2, <3>1
    <3>2. CASE t # s
      <4>1. IsIn(t, {"inserting"}) /\ heap'[t] = heap[t] /\ heap[t].by \in Backend
            BY <1>2, <2>3, <3>2 DEF IsIn, TypeOK, Tuple
      <4> QED BY <1>2, <4>1 DEF InsertsInProgress, HeapInsert
    <3> QED BY <3>1, <3>2
  <2> QED BY <2>2, <2>3 DEF InsertsInProgress
<1>5. WalMatches'
      BY <1>2 DEF HeapInsert, WalMatches, TypeOK, Recovered, Tuple
<1>6. PageCovers'
      BY <1>1, <1>2 DEF HeapInsert, PageCovers, CoversTuples
<1> QED BY <1>3, <1>4, <1>5, <1>6

(***************************************************************************)
(* When am_insert returns, its tuple counts as indexed: that is sound when *)
(* the page covers its row by then.                                        *)
(***************************************************************************)
LEMMA ReturnKeeps ==
    ASSUME Core, NEW b \in Backend, op[b] # Idle, Return(b),
           page' \in Summary =>
               /\ page \in Summary /\ WiderThan(page', page)
               /\ CoversRow(page', InsertedRow(b))
    PROVE  /\ heap' \in [Slot -> Tuple \cup {NoTuple}]
           /\ op' \in [Backend -> Insert \cup {Idle}]
           /\ InsertsInProgress'
           /\ \A t \in Slot : wal.heap[t] # NoTuple => wal.heap[t] = heap'[t]
           /\ PageCovers'
<1> USE DEF Core
<1> DEFINE s == op[b].slot
           done == [heap[s] EXCEPT !.state = "indexed"]
<1>1. /\ s \in Slot /\ heap[s] \in Tuple /\ heap[s] # NoTuple
      /\ heap[s].state = "inserting" /\ heap[s].by = b
      BY DEF TypeOK, Insert, InsertsInProgress, IsIn
<1>2. /\ done \in Tuple /\ done # NoTuple /\ done.state = "indexed"
      /\ done.by = b /\ done.row = heap[s].row
      BY <1>1, WidenAssumption DEF Tuple
<1>3. /\ \A t \in Slot : heap'[t] = IF t = s THEN done ELSE heap[t]
      /\ \A d \in Backend : op'[d] = IF d = b THEN Idle ELSE op[d]
      BY <1>1 DEF Return, TypeOK
<1>4. heap' \in [Slot -> Tuple \cup {NoTuple}] /\ op' \in [Backend -> Insert \cup {Idle}]
      BY <1>1, <1>2 DEF Return, TypeOK
<1> HIDE DEF done
<1>5. ASSUME NEW d \in Backend, op'[d] # Idle
      PROVE  /\ IsIn(op[d].slot, {"inserting"})' /\ heap'[op'[d].slot].by = d
             /\ op'[d].before # None =>
                    /\ op'[d].after \in Summary
                    /\ WiderThan(op'[d].after, op'[d].before)
                    /\ CoversRow(op'[d].after, InsertedRow(d)')
  <2>1. /\ d # b /\ op'[d] = op[d] /\ op[d] # Idle /\ op[d].slot \in Slot
        /\ heap[op[d].slot].by = d
        BY <1>3, <1>5 DEF TypeOK, Insert, InsertsInProgress
  <2>2. heap'[op[d].slot] = heap[op[d].slot]
        BY <1>1, <1>3, <2>1
  <2> QED BY <2>1, <2>2 DEF InsertsInProgress, IsIn, InsertedRow
<1>6. ASSUME NEW t \in Slot, IsIn(t, {"inserting"})'
      PROVE  op'[heap'[t].by] # Idle /\ op'[heap'[t].by].slot = t
  <2>1. t # s /\ heap'[t] = heap[t] /\ IsIn(t, {"inserting"}) /\ heap[t].by \in Backend
        BY <1>2, <1>3, <1>6 DEF IsIn, TypeOK, Tuple
  <2>2. heap[t].by # b
        BY <2>1 DEF InsertsInProgress
  <2> QED BY <1>3, <2>1, <2>2 DEF InsertsInProgress
<1>7. InsertsInProgress'
      BY <1>5, <1>6 DEF InsertsInProgress
<1>8. ASSUME NEW t \in Slot, wal.heap[t] # NoTuple PROVE wal.heap[t] = heap'[t]
  <2>1. wal.heap[t] = heap[t] /\ wal.heap[t].state = "committed"
        BY <1>8 DEF WalMatches, TypeOK, Recovered
  <2> QED BY <1>1, <1>3, <2>1
<1>9. PageCovers'
  <2> SUFFICES ASSUME page' \in Summary, NEW t \in Slot, heap'[t] # NoTuple,
                      heap'[t].state # "inserting"
               PROVE  CoversRow(page', heap'[t].row)
      BY DEF PageCovers, CoversTuples
  <2>1. CASE t = s
        BY <1>2, <1>3, <2>1 DEF InsertedRow
  <2>2. CASE t # s
    <3>1. heap'[t] = heap[t] /\ heap[t].row \in Row
          BY <1>3, <2>2 DEF TypeOK, Tuple
    <3>2. CoversRow(page, heap[t].row)
          BY <3>1 DEF PageCovers, CoversTuples
    <3> QED BY <3>1, <3>2, WiderCoversRow
  <2> QED BY <2>1, <2>2
<1> QED BY <1>4, <1>7, <1>8, <1>9

(***************************************************************************)
(* Reading the blob either ends the insert of a row that is covered, or    *)
(* leaves the session with a blob that covers what the page covered.       *)
(***************************************************************************)
LEMMA ReadBlobCore ==
    ASSUME Core, NEW b \in Backend, read_blob(b)
    PROVE  Core'
<1> USE DEF Core
<1>1. /\ op[b] # Idle /\ op[b] \in Insert /\ op[b].slot \in Slot
      /\ heap[op[b].slot] \in Tuple /\ InsertedRow(b) \in Row
      BY DEF read_blob, TypeOK, InsertsInProgress, IsIn, Insert, Tuple, InsertedRow
<1>2. CASE NothingToDo(b)
  <2>1. page' = page /\ wal' = wal /\ recoverable' = recoverable /\ Return(b)
        BY <1>2 DEF read_blob
  <2>2. page' \in Summary =>
            page \in Summary /\ WiderThan(page', page) /\ CoversRow(page', InsertedRow(b))
        BY <1>1, <1>2, <2>1, UnchangedCovers, WiderOrder DEF NothingToDo
  <2>3. /\ heap' \in [Slot -> Tuple \cup {NoTuple}]
        /\ op' \in [Backend -> Insert \cup {Idle}]
        /\ InsertsInProgress'
        /\ \A t \in Slot : wal.heap[t] # NoTuple => wal.heap[t] = heap'[t]
        /\ PageCovers'
        BY <1>1, <2>1, <2>2, ReturnKeeps
  <2> QED BY <2>1, <2>3 DEF TypeOK, WalMatches
<1>3. CASE ~NothingToDo(b)
  <2> DEFINE ins == [op[b] EXCEPT !.before = page, !.after = Widened(page, InsertedRow(b))]
  <2>1. /\ page \in Summary /\ Widened(page, InsertedRow(b)) \in Summary
        /\ WiderThan(Widened(page, InsertedRow(b)), page)
        /\ CoversRow(Widened(page, InsertedRow(b)), InsertedRow(b))
        BY <1>1, <1>3, WidenedCovers DEF NothingToDo
  <2>2. /\ ins \in Insert /\ ins # Idle /\ ins.slot = op[b].slot
        /\ ins.before = page /\ ins.after = Widened(page, InsertedRow(b))
        BY <1>1, <2>1, WidenAssumption DEF Insert
  <2>3. /\ UNCHANGED <<page, heap, wal, recoverable>>
        /\ \A d \in Backend : op'[d] = IF d = b THEN ins ELSE op[d]
        /\ op' \in [Backend -> Insert \cup {Idle}]
        BY <1>3, <2>2 DEF read_blob, TypeOK
  <2> HIDE DEF ins
  <2>4. InsertsInProgress'
        BY <1>1, <2>1, <2>2, <2>3 DEF InsertsInProgress, IsIn, InsertedRow, TypeOK, Tuple
  <2> QED BY <2>3, <2>4 DEF TypeOK, WalMatches, PageCovers
<1> QED BY <1>2, <1>3

(***************************************************************************)
(* The compare-and-swap: the page still is what the stored blob is wider   *)
(* than, so nothing another session has stored is lost.                    *)
(***************************************************************************)
LEMMA ReplaceBlobCore ==
    ASSUME Core, NEW b \in Backend, replace_blob(b)
    PROVE  Core'
<1> USE DEF Core
<1>1. /\ op[b] # Idle /\ op[b].before # None /\ op[b] \in Insert
      /\ page = op[b].before /\ page' = op[b].after /\ Return(b)
      BY DEF replace_blob, TypeOK
<1>2. /\ page \in Summary /\ page' \in Summary
      /\ WiderThan(page', page) /\ CoversRow(page', InsertedRow(b))
      BY <1>1 DEF Insert, InsertsInProgress
<1>3. /\ heap' \in [Slot -> Tuple \cup {NoTuple}]
      /\ op' \in [Backend -> Insert \cup {Idle}]
      /\ InsertsInProgress'
      /\ \A t \in Slot : wal.heap[t] # NoTuple => wal.heap[t] = heap'[t]
      /\ PageCovers'
      BY <1>1, <1>2, ReturnKeeps
<1>4. /\ wal' = [wal EXCEPT !.page = page']
      /\ recoverable' \subseteq recoverable \cup {wal'}
      BY <1>1 DEF replace_blob, Log
<1>5. wal' \in Recovered /\ wal'.page = page' /\ wal'.heap = wal.heap
      BY <1>2, <1>4 DEF TypeOK, Recovered, Page
<1>6. TypeOK'
      BY <1>2, <1>3, <1>4, <1>5 DEF TypeOK, Page
<1> QED BY <1>3, <1>5, <1>6 DEF WalMatches

(***************************************************************************)
(* A session that has to read again forgets what it has read.              *)
(***************************************************************************)
LEMMA RetryCore ==
    ASSUME Core, NEW b \in Backend, retry(b)
    PROVE  Core'
<1> USE DEF Core
<1> DEFINE ins == [op[b] EXCEPT !.before = None, !.after = None]
<1>1. /\ op[b] # Idle /\ op[b] \in Insert
      /\ ins \in Insert /\ ins # Idle /\ ins.slot = op[b].slot /\ ins.before = None
      BY WidenAssumption DEF retry, TypeOK, Insert
<1>2. /\ UNCHANGED <<page, heap, wal, recoverable>>
      /\ \A d \in Backend : op'[d] = IF d = b THEN ins ELSE op[d]
      /\ op' \in [Backend -> Insert \cup {Idle}]
      BY <1>1 DEF retry, TypeOK
<1> HIDE DEF ins
<1>3. InsertsInProgress'
      BY <1>1, <1>2 DEF InsertsInProgress, IsIn, InsertedRow, TypeOK, Tuple
<1> QED BY <1>2, <1>3 DEF TypeOK, WalMatches, PageCovers

(***************************************************************************)
(* A rollback takes tuples away and leaves the page as wide as it is.      *)
(***************************************************************************)
LEMMA RollbackCore ==
    ASSUME Core, NEW b \in Backend, NEW gone \in SUBSET Slot, Rollback(b, gone)
    PROVE  Core'
<1> USE DEF Core
<1>1. /\ UNCHANGED <<page, wal, recoverable>>
      /\ \A t \in Slot : heap'[t] = IF t \in gone THEN NoTuple ELSE heap[t]
      /\ \A d \in Backend : op'[d] = IF d = b THEN Idle ELSE op[d]
      /\ heap' \in [Slot -> Tuple \cup {NoTuple}]
      /\ op' \in [Backend -> Insert \cup {Idle}]
      BY DEF Rollback, TypeOK
<1>2. \A t \in gone : heap[t] # NoTuple /\ heap[t].by = b /\ heap[t].state # "committed"
      BY DEF Rollback, Uncommitted, IsIn
<1>3. op[b] # Idle => op[b].slot \in gone
      BY DEF Rollback
<1>4. ASSUME NEW d \in Backend, op'[d] # Idle
      PROVE  /\ IsIn(op[d].slot, {"inserting"})' /\ heap'[op'[d].slot].by = d
             /\ op'[d].before # None =>
                    /\ op'[d].after \in Summary
                    /\ WiderThan(op'[d].after, op'[d].before)
                    /\ CoversRow(op'[d].after, InsertedRow(d)')
  <2>1. /\ d # b /\ op'[d] = op[d] /\ op[d] # Idle /\ op[d].slot \in Slot
        /\ heap[op[d].slot].by = d
        BY <1>1, <1>4 DEF TypeOK, Insert, InsertsInProgress
  <2>2. heap'[op[d].slot] = heap[op[d].slot]
        BY <1>1, <1>2, <2>1
  <2> QED BY <2>1, <2>2 DEF InsertsInProgress, IsIn, InsertedRow
<1>5. ASSUME NEW t \in Slot, IsIn(t, {"inserting"})'
      PROVE  op'[heap'[t].by] # Idle /\ op'[heap'[t].by].slot = t
  <2>1. t \notin gone /\ heap'[t] = heap[t] /\ IsIn(t, {"inserting"}) /\ heap[t].by \in Backend
        BY <1>1, <1>5 DEF IsIn, TypeOK, Tuple
  <2>2. heap[t].by # b
        BY <1>3, <2>1 DEF InsertsInProgress
  <2> QED BY <1>1, <2>1, <2>2 DEF InsertsInProgress
<1>6. ASSUME NEW t \in Slot, wal.heap[t] # NoTuple PROVE wal.heap[t] = heap'[t]
  <2>1. wal.heap[t] = heap[t] /\ wal.heap[t].state = "committed"
        BY <1>6 DEF WalMatches, TypeOK, Recovered
  <2> QED BY <1>1, <1>2, <2>1
<1>7. PageCovers'
      BY <1>1 DEF PageCovers, CoversTuples
<1> QED BY <1>1, <1>4, <1>5, <1>6, <1>7 DEF TypeOK, InsertsInProgress, WalMatches

(***************************************************************************)
(* A commit makes rows visible that are covered already.                   *)
(***************************************************************************)
LEMMA CommitCore ==
    ASSUME Core, NEW b \in Backend, Commit(b)
    PROVE  Core'
<1> USE DEF Core
<1> DEFINE own == Uncommitted(b)
           done == WithCommitted(b)
<1>1. \A t \in own :
          /\ t \in Slot /\ heap[t] \in Tuple /\ heap[t] # NoTuple
          /\ heap[t].by = b /\ heap[t].state = "indexed"
      BY DEF Uncommitted, IsIn, Commit, InsertsInProgress, TypeOK
<1>2. \A t \in own :
          /\ done[t] \in {u \in Tuple : u.state = "committed"} /\ done[t] # NoTuple
          /\ done[t].row = heap[t].row /\ done[t].by = b
      BY <1>1, WidenAssumption DEF WithCommitted, Tuple
<1>3. /\ UNCHANGED <<page, op>> /\ heap' = done
      /\ wal' = [wal EXCEPT !.heap = [t \in Slot |-> IF t \in own THEN done[t] ELSE wal.heap[t]]]
      /\ recoverable' \subseteq recoverable \cup {wal'}
      BY DEF Commit, Log, TypeOK, Recovered
<1>4. \A t \in Slot : heap'[t] = IF t \in own THEN done[t] ELSE heap[t]
      BY <1>3 DEF WithCommitted
<1>5. heap' \in [Slot -> Tuple \cup {NoTuple}]
  <2>1. heap' = [t \in Slot |-> heap'[t]]
        BY <1>3 DEF WithCommitted
  <2>2. \A t \in Slot : heap'[t] \in Tuple \cup {NoTuple}
        BY <1>2, <1>4 DEF TypeOK
  <2> QED BY <2>1, <2>2
<1> HIDE DEF own, done
<1>6. /\ wal' \in Recovered /\ wal'.page = wal.page
      /\ \A t \in Slot : wal'.heap[t] = IF t \in own THEN done[t] ELSE wal.heap[t]
      BY <1>2, <1>3 DEF TypeOK, Recovered
<1>7. TypeOK'
      BY <1>3, <1>5, <1>6 DEF TypeOK
<1>8. ASSUME NEW d \in Backend, op'[d] # Idle
      PROVE  /\ IsIn(op[d].slot, {"inserting"})' /\ heap'[op'[d].slot].by = d
             /\ op'[d].before # None =>
                    /\ op'[d].after \in Summary
                    /\ WiderThan(op'[d].after, op'[d].before)
                    /\ CoversRow(op'[d].after, InsertedRow(d)')
  <2>1. op'[d] = op[d] /\ op[d] # Idle /\ op[d].slot \in Slot
        BY <1>3, <1>8 DEF TypeOK, Insert
  <2>2. heap[op[d].slot].state = "inserting"
        BY <2>1 DEF InsertsInProgress, IsIn
  <2>3. heap'[op[d].slot] = heap[op[d].slot]
        BY <1>1, <1>4, <2>1, <2>2
  <2> QED BY <2>1, <2>3 DEF InsertsInProgress, IsIn, InsertedRow
<1>9. ASSUME NEW t \in Slot, IsIn(t, {"inserting"})'
      PROVE  op'[heap'[t].by] # Idle /\ op'[heap'[t].by].slot = t
  <2>1. t \notin own /\ heap'[t] = heap[t]
        BY <1>2, <1>4, <1>9 DEF IsIn
  <2> QED BY <1>3, <1>9, <2>1 DEF InsertsInProgress, IsIn
<1>10. WalMatches'
       BY <1>3, <1>4, <1>6 DEF WalMatches
<1>11. PageCovers'
  <2> SUFFICES ASSUME page' \in Summary, NEW t \in Slot, heap'[t] # NoTuple,
                      heap'[t].state # "inserting"
               PROVE  CoversRow(page', heap'[t].row)
      BY DEF PageCovers, CoversTuples
  <2>1. heap[t] # NoTuple /\ heap[t].state # "inserting" /\ heap'[t].row = heap[t].row
        BY <1>1, <1>2, <1>4
  <2> QED BY <1>3, <2>1 DEF PageCovers, CoversTuples
<1> QED BY <1>7, <1>8, <1>9, <1>10, <1>11 DEF InsertsInProgress

(***************************************************************************)
(* A row that is gone need not be covered.                                 *)
(***************************************************************************)
LEMMA VacuumCore ==
    ASSUME Core, NEW s \in Slot, Vacuum(s)
    PROVE  Core'
<1> USE DEF Core
<1>1. /\ UNCHANGED <<page, op>>
      /\ \A t \in Slot : heap'[t] = IF t = s THEN NoTuple ELSE heap[t]
      /\ heap' \in [Slot -> Tuple \cup {NoTuple}]
      /\ heap[s].state = "committed"
      BY DEF Vacuum, TypeOK, IsIn
<1>2. /\ wal' \in Recovered /\ wal'.page = wal.page
      /\ \A t \in Slot : wal'.heap[t] = IF t = s THEN NoTuple ELSE wal.heap[t]
      BY DEF Vacuum, Log, TypeOK, Recovered
<1>3. TypeOK'
      BY <1>1, <1>2 DEF Vacuum, Log, TypeOK
<1>4. InsertsInProgress'
  <2>1. ASSUME NEW d \in Backend, op[d] # Idle
        PROVE  op[d].slot \in Slot /\ op[d].slot # s
        BY <1>1, <2>1 DEF InsertsInProgress, IsIn, TypeOK, Insert
  <2>2. ASSUME NEW t \in Slot, IsIn(t, {"inserting"})'
        PROVE  heap'[t] = heap[t] /\ IsIn(t, {"inserting"})
        BY <1>1, <2>2 DEF IsIn
  <2> QED BY <1>1, <2>1, <2>2 DEF InsertsInProgress, IsIn, InsertedRow
<1>5. WalMatches'
      BY <1>1, <1>2 DEF WalMatches
<1>6. PageCovers'
      BY <1>1 DEF PageCovers, CoversTuples
<1> QED BY <1>3, <1>4, <1>5, <1>6

(***************************************************************************)
(* With no writer around, a build sees every row there is.                 *)
(***************************************************************************)
LEMMA RebuildCore ==
    ASSUME Core, NEW b \in Backend, Rebuild(b)
    PROVE  Core'
<1> USE DEF Core
<1>1. PICK s \in build_leaf_summary(ScannedRows(b)) : page' = encode_fitting(s)
      BY DEF Rebuild
<1>2. ScannedRows(b) \in SUBSET Row
      BY DEF ScannedRows, Uncommitted, IsIn, TypeOK, Tuple
<1>3. page' \in Summary /\ \A row \in ScannedRows(b) : CoversRow(page', row)
      BY <1>1, <1>2, BuildCovers
<1>4. ASSUME NEW t \in Slot, heap[t] # NoTuple
      PROVE  heap[t].row \in ScannedRows(b)
  <2>1. heap[t].by \in Backend /\ heap[t].state \in {"inserting", "indexed", "committed"}
        BY <1>4 DEF TypeOK, Tuple
  <2>2. heap[t].state = "committed" \/ heap[t].by = b
        BY <1>4, <2>1 DEF Rebuild, Uncommitted, IsIn
  <2> QED BY <1>4, <2>1, <2>2 DEF ScannedRows, Uncommitted, IsIn
<1>5. /\ UNCHANGED <<heap, op>>
      /\ wal' = [wal EXCEPT !.page = page']
      /\ recoverable' \subseteq recoverable \cup {wal'}
      BY DEF Rebuild, Log
<1>6. wal' \in Recovered /\ wal'.page = page' /\ wal'.heap = wal.heap
      BY <1>3, <1>5 DEF TypeOK, Recovered, Page
<1>7. TypeOK' /\ WalMatches'
      BY <1>3, <1>5, <1>6 DEF TypeOK, WalMatches, Page
<1>8. InsertsInProgress'
      BY <1>5 DEF InsertsInProgress, IsIn, InsertedRow
<1>9. PageCovers'
      BY <1>3, <1>4, <1>5 DEF PageCovers, CoversTuples
<1> QED BY <1>7, <1>8, <1>9

(***************************************************************************)
(* A crash leaves one of the recoverable states, each of which is covered. *)
(***************************************************************************)
LEMMA CrashCore ==
    ASSUME IInv, Crash
    PROVE  Core'
<1>1. /\ op' = [b \in Backend |-> Idle]
      /\ wal' = [page |-> page', heap |-> heap'] /\ recoverable' = {wal'}
      BY DEF Crash
<1>2. /\ [page |-> page', heap |-> heap'] \in Recovered
      /\ page' \in Summary => CoversTuples(page', heap')
  <2>1. CASE Logged
    <3>1. PICK r \in recoverable : page' = r.page /\ heap' = r.heap
          BY <2>1 DEF Crash
    <3> QED BY <3>1 DEF IInv, TypeOK, RecoveryCovers, Recovered
  <2>2. CASE ~Logged
        BY <2>2, WidenAssumption DEF Crash, Recovered, Page, CoversTuples
  <2> QED BY <2>1, <2>2
<1>3. page' \in Page /\ heap' \in [Slot -> {t \in Tuple : t.state = "committed"} \cup {NoTuple}]
      BY <1>2 DEF Recovered
<1>4. TypeOK'
      BY <1>1, <1>2, <1>3 DEF TypeOK
<1>5. InsertsInProgress'
      BY <1>1, <1>3 DEF InsertsInProgress, IsIn
<1>6. WalMatches' /\ PageCovers'
      BY <1>1, <1>2 DEF WalMatches, PageCovers
<1> QED BY <1>4, <1>5, <1>6 DEF Core

(***************************************************************************)
(* The invariant is inductive.  A step adds to the recoverable states at   *)
(* most the one the whole WAL gives, which the page covers.                *)
(***************************************************************************)
LEMMA StepIInv == IInv /\ [Next]_vars => IInv'
<1> SUFFICES ASSUME IInv, [Next]_vars PROVE IInv'
    OBVIOUS
<1>1. Core
      BY DEF IInv, Core
<1>2. Core' /\ recoverable' \subseteq recoverable \cup {wal'}
  <2>1. CASE \E b \in Backend, s \in Slot, row \in Input : HeapInsert(b, s, row)
        BY <1>1, <2>1, HeapInsertCore DEF HeapInsert
  <2>2. CASE \E b \in Backend : read_blob(b)
        BY <1>1, <2>2, ReadBlobCore DEF read_blob
  <2>3. CASE \E b \in Backend : replace_blob(b)
        BY <1>1, <2>3, ReplaceBlobCore DEF replace_blob, Log
  <2>4. CASE \E b \in Backend : retry(b)
        BY <1>1, <2>4, RetryCore DEF retry
  <2>5. CASE \E b \in Backend, gone \in SUBSET Slot : Rollback(b, gone)
        BY <1>1, <2>5, RollbackCore DEF Rollback
  <2>6. CASE \E b \in Backend : Commit(b)
        BY <1>1, <2>6, CommitCore DEF Commit, Log
  <2>7. CASE \E s \in Slot : Vacuum(s)
        BY <1>1, <2>7, VacuumCore DEF Vacuum, Log
  <2>8. CASE \E b \in Backend : Rebuild(b)
        BY <1>1, <2>8, RebuildCore DEF Rebuild, Log
  <2>9. CASE WalFlush \/ UNCHANGED vars
    <3>1. UNCHANGED <<page, heap, op, wal>> /\ recoverable' \subseteq recoverable \cup {wal'}
          BY <2>9 DEF WalFlush, vars
    <3> QED BY <1>1, <3>1 DEF Core, TypeOK, InsertsInProgress, WalMatches, PageCovers,
                              IsIn, InsertedRow
  <2>10. CASE Crash
         BY <2>10, CrashCore DEF Crash
  <2> QED BY <2>1, <2>2, <2>3, <2>4, <2>5, <2>6, <2>7, <2>8, <2>9, <2>10 DEF Next
<1>3. ASSUME wal'.page \in Summary PROVE CoversTuples(wal'.page, wal'.heap)
  <2>1. wal'.page = page' /\ CoversTuples(page', heap')
        BY <1>2, <1>3 DEF Core, WalMatches, PageCovers
  <2>2. \A s \in Slot : wal'.heap[s] # NoTuple => wal'.heap[s] = heap'[s]
        BY <1>2 DEF Core, WalMatches
  <2> QED BY <2>1, <2>2 DEF CoversTuples
<1>4. RecoveryCovers'
      BY <1>2, <1>3 DEF IInv, RecoveryCovers
<1> QED BY <1>2, <1>4 DEF IInv, Core

(***************************************************************************)
(* The inductive invariant holds in every reachable state.                 *)
(***************************************************************************)
THEOREM InvariantHolds == Spec => []IInv
BY InitIInv, StepIInv, PTL DEF Spec

(***************************************************************************)
(* Every state has the type it should have.                                *)
(***************************************************************************)
THEOREM TypeCorrect == Spec => []TypeOK
<1>1. IInv => TypeOK
      BY DEF IInv
<1> QED BY <1>1, InvariantHolds, PTL

(***************************************************************************)
(* The summary covers every row whose insert has returned, whatever        *)
(* sessions race, roll back or crash: README, Limitations, "never too      *)
(* narrow".                                                                *)
(***************************************************************************)
THEOREM NoLostWidening == Spec => []PageCovers
<1>1. IInv => PageCovers
      BY DEF IInv
<1> QED BY <1>1, InvariantHolds, PTL

(***************************************************************************)
(* Whatever part of the WAL a crash loses, the summary that is recovered   *)
(* covers the rows that are.                                               *)
(***************************************************************************)
THEOREM CrashSafe == Spec => []RecoveryCovers
<1>1. IInv => RecoveryCovers
      BY DEF IInv
<1> QED BY <1>1, InvariantHolds, PTL

(***************************************************************************)
(* A query whose planning reads the page never prunes a partition that     *)
(* holds a committed row its clause selects.                               *)
(***************************************************************************)
THEOREM PruningIsSafe == Spec => []PruneLosesNoRow
<1>1. IInv => PruneLosesNoRow
  <2> SUFFICES ASSUME IInv, page \in Summary, NEW s \in Slot, NEW c \in Column,
                      NEW clause \in Clause, IsIn(s, {"committed"}),
                      proves_prune(clause, page[c])
               PROVE  ~Matches(clause, heap[s].row[c])
      BY DEF PruneLosesNoRow
  <2>1. CoversRow(page, heap[s].row) /\ heap[s].row \in Row
        BY DEF IInv, PageCovers, CoversTuples, IsIn, TypeOK, Tuple
  <2>2. page[c] \in ColSummary /\ Covers(page[c], heap[s].row[c]) /\ heap[s].row[c] \in Datum
        BY <2>1, SummaryColumn DEF CoversRow, Row
  <2> QED BY <2>2, PruneSound
<1> QED BY <1>1, InvariantHolds, PTL

(***************************************************************************)
(* A step of a session leaves the page as it is or makes it wider.         *)
(***************************************************************************)
LEMMA StepWidens ==
    ASSUME IInv, Next, \A b \in Backend : ~Rebuild(b), ~Crash, page \in Summary
    PROVE  page' \in Summary /\ WiderThan(page', page)
<1>1. CASE \E b \in Backend : replace_blob(b)
  <2>1. PICK b \in Backend : replace_blob(b)
        BY <1>1
  <2>2. /\ op[b] # Idle /\ op[b].before # None
        /\ page = op[b].before /\ page' = op[b].after
        BY <2>1 DEF replace_blob
  <2> QED BY <2>2 DEF IInv, InsertsInProgress
<1>2. CASE ~(\E b \in Backend : replace_blob(b))
  <2>1. page' = page
        BY <1>2 DEF Next, HeapInsert, read_blob, retry, Rollback, Commit, Vacuum, WalFlush
  <2> QED BY <2>1, WiderOrder
<1> QED BY <1>1, <1>2

(***************************************************************************)
(* Only a build or a crash may leave a summary narrower than it was.       *)
(***************************************************************************)
THEOREM InsertsNeverNarrow == Spec => NeverNarrows
<1>1. IInv /\ [Next]_vars =>
          [(\A b \in Backend : ~Rebuild(b)) /\ ~Crash /\ page \in Summary =>
              page' \in Summary /\ WiderThan(page', page)]_vars
      BY StepWidens
<1> QED BY <1>1, InvariantHolds, PTL DEF Spec, NeverNarrows

-----------------------------------------------------------------------------
(* The loop implements the atomic, over-inclusive summary.                 *)

(***************************************************************************)
(* The empty partition is an initial state of the promise.                 *)
(***************************************************************************)
LEMMA InitPromise == Init => Promise!Init
BY InitIInv DEF Init, Promise!Init, IInv, TypeOK, Page

(***************************************************************************)
(* The step in which am_insert is done is the step Index of the promise.   *)
(***************************************************************************)
LEMMA ReturnPromise ==
    ASSUME IInv, NEW b \in Backend, op[b] # Idle, Return(b),
           IF page \in Summary
           THEN page' \in Summary /\ WiderThan(page', page) /\ CoversRow(page', InsertedRow(b))
           ELSE page' = page
    PROVE  Promise!Next
<1>1. op[b].slot \in Slot /\ IsIn(op[b].slot, {"inserting"})
      BY DEF IInv, TypeOK, InsertsInProgress, Insert
<1>2. Promise!Index(op[b].slot)
      BY <1>1 DEF Promise!Index, Promise!IsIn, Promise!Readable, IsIn, Return, InsertedRow
<1> QED BY <1>1, <1>2 DEF Promise!Next

(***************************************************************************)
(* Every step is a step of the promise, or changes neither page nor heap.  *)
(***************************************************************************)
LEMMA StepPromise == IInv /\ [Next]_vars => [Promise!Next]_(Promise!vars)
<1> SUFFICES ASSUME IInv, [Next]_vars PROVE [Promise!Next]_(Promise!vars)
    OBVIOUS
<1> USE DEF Promise!vars
<1>1. CASE \E b \in Backend, s \in Slot, row \in Input : HeapInsert(b, s, row)
      BY <1>1, WidenAssumption DEF HeapInsert, Promise!Next, Promise!Place
<1>2. ASSUME NEW b \in Backend, read_blob(b)
      PROVE  [Promise!Next]_(Promise!vars)
  <2>1. op[b] # Idle /\ page' = page
        BY <1>2 DEF read_blob
  <2>2. CASE NothingToDo(b)
    <3>1. Return(b)
          BY <1>2, <2>2 DEF read_blob
    <3>2. InsertedRow(b) \in Row
          BY <2>1 DEF InsertedRow, IInv, TypeOK, InsertsInProgress, Insert, Tuple, IsIn
    <3>3. page \in Summary => WiderThan(page', page) /\ CoversRow(page', InsertedRow(b))
          BY <2>1, <2>2, <3>2, UnchangedCovers, WiderOrder DEF NothingToDo
    <3> QED BY <2>1, <3>1, <3>3, ReturnPromise
  <2>3. CASE ~NothingToDo(b)
        BY <1>2, <2>3 DEF read_blob
  <2> QED BY <2>2, <2>3
<1>3. ASSUME NEW b \in Backend, replace_blob(b)
      PROVE  [Promise!Next]_(Promise!vars)
  <2>1. /\ op[b] # Idle /\ op[b].before # None /\ op[b] \in Insert
        /\ page = op[b].before /\ page' = op[b].after /\ Return(b)
        BY <1>3 DEF replace_blob, IInv, TypeOK
  <2>2. /\ page' \in Summary /\ page \in Summary
        /\ WiderThan(page', page) /\ CoversRow(page', InsertedRow(b))
        BY <2>1 DEF IInv, InsertsInProgress, Insert
  <2> QED BY <2>1, <2>2, ReturnPromise
<1>4. CASE \E b \in Backend : retry(b)
      BY <1>4 DEF retry
<1>5. ASSUME NEW b \in Backend, NEW gone \in SUBSET Slot, Rollback(b, gone)
      PROVE  Promise!Next
  <2>1. Promise!Remove(gone)
        BY <1>5 DEF Promise!Remove, Rollback, Uncommitted, IsIn
  <2> QED BY <2>1 DEF Promise!Next
<1>6. ASSUME NEW b \in Backend, Commit(b)
      PROVE  Promise!Next
  <2>1. ASSUME NEW s \in Slot, IsIn(s, {"inserting"}) PROVE heap[s].by # b
        BY <1>6, <2>1 DEF IInv, InsertsInProgress, Commit
  <2>2. \A s \in Slot : s \in Uncommitted(b) <=> (IsIn(s, {"indexed"}) /\ heap[s].by = b)
        BY <2>1 DEF Uncommitted, IsIn
  <2>3. Promise!Commit(b)
        BY <1>6, <2>1, <2>2 DEF Promise!Commit, Promise!IsIn, IsIn, Commit, WithCommitted
  <2> QED BY <2>3 DEF Promise!Next
<1>7. ASSUME NEW s \in Slot, Vacuum(s)
      PROVE  Promise!Next
  <2>1. heap' = [t \in Slot |-> IF t \in {s} THEN NoTuple ELSE heap[t]]
        BY <1>7 DEF Vacuum, IInv, TypeOK
  <2>2. Promise!Remove({s})
        BY <1>7, <2>1 DEF Promise!Remove, Vacuum, IsIn
  <2> QED BY <2>2 DEF Promise!Next
<1>8. ASSUME NEW b \in Backend, Rebuild(b)
      PROVE  Promise!Next
  <2>1. PICK built \in build_leaf_summary(ScannedRows(b)) : page' = encode_fitting(built)
        BY <1>8 DEF Rebuild
  <2>2. ScannedRows(b) \in SUBSET Row
        BY DEF ScannedRows, Uncommitted, IsIn, IInv, TypeOK, Tuple
  <2>3. page' \in Summary /\ UNCHANGED heap
        BY <1>8, <2>1, <2>2, BuildCovers DEF Rebuild
  <2>4. CoversTuples(page', heap)
        BY <1>8, <2>3, RebuildCore DEF IInv, Core, PageCovers, CoversTuples
  <2>5. ASSUME NEW s \in Slot, heap[s] # NoTuple
        PROVE  heap[s].state = "committed" \/ (heap[s].state = "indexed" /\ heap[s].by = b)
    <3>1. heap[s].by \in Backend /\ heap[s].state \in {"inserting", "indexed", "committed"}
          BY <2>5 DEF IInv, TypeOK, Tuple
    <3>2. heap[s].state # "inserting"
          BY <1>8, <2>5, <3>1 DEF IInv, InsertsInProgress, IsIn, Rebuild
    <3>3. heap[s].state = "committed" \/ heap[s].by = b
          BY <1>8, <2>5, <3>1 DEF Rebuild, Uncommitted, IsIn
    <3> QED BY <3>1, <3>2, <3>3
  <2>6. Promise!Rebuild(b)
        BY <2>3, <2>4, <2>5 DEF Promise!Rebuild, Promise!IsIn, Promise!CoversTuples, CoversTuples
  <2> QED BY <2>6 DEF Promise!Next
<1>9. CASE Crash
  <2>1. /\ page' \in Page
        /\ heap' \in [Slot -> {t \in Tuple : t.state = "committed"} \cup {NoTuple}]
        /\ page' \in Summary => CoversTuples(page', heap')
    <3>1. Core' /\ wal' \in Recovered /\ wal'.heap = heap'
          BY <1>9, CrashCore DEF Core, TypeOK, Crash
    <3> QED BY <3>1 DEF Core, TypeOK, PageCovers, Recovered
  <2>2. Promise!Crash
        BY <2>1 DEF Promise!Crash, Promise!CoversTuples, CoversTuples, Promise!Tuple, Tuple, Page
  <2> QED BY <2>2 DEF Promise!Next
<1>10. CASE WalFlush \/ UNCHANGED vars
       BY <1>10 DEF WalFlush, vars
<1> QED BY <1>1, <1>2, <1>3, <1>4, <1>5, <1>6, <1>7, <1>8, <1>9, <1>10 DEF Next

(***************************************************************************)
(* The compare-and-swap loop, with its retries, rollbacks and crashes,     *)
(* implements a summary that is widened atomically: index_storage.rs, "a   *)
(* rolled-back widening that over-covers is always safe".                  *)
(***************************************************************************)
THEOREM ImplementsPromise == Spec => PromiseKept
BY InitPromise, InitIInv, StepIInv, StepPromise, PTL DEF Spec, PromiseKept, Promise!Spec
=============================================================================
