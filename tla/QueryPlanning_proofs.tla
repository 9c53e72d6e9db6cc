------------------------ MODULE QueryPlanning_proofs ------------------------
(***************************************************************************)
(* The cached summaries of any number of sessions, and the plans made from *)
(* them: what no order of widenings, commits, rollbacks, cache fills and   *)
(* announcements makes too narrow.                                         *)
(***************************************************************************)
EXTENDS QueryPlanning, SequenceTheorems, TLAPS

-----------------------------------------------------------------------------
(* The caches: module SummaryCoherence.                                    *)

\* A session reads into its cache, or runs a command, only inside a transaction.
Busy(b) ==
    /\ reading[b] # NotCached => tx[b] # <<>> /\ ~ended[b] /\ ~current[b]
    /\ current[b] => tx[b] # <<>> /\ ~ended[b]

\* The page covers a transaction's rows, whether they will be rolled back or not.
PageCoversFrames(b) == \A i \in DOMAIN tx[b] : \A row \in tx[b][i].rows : row.key \in page

\* What widened has queued a message, or is in the command that will.
WideningsNoted(b) ==
    \A i \in DOMAIN tx[b] : \A row \in tx[b][i].rows :
        row.widened => tx[b][i].noted \/ (i = Len(tx[b]) /\ current[b])

\* Rows of the session's own that its earlier commands have written.
Written(b) ==
    UNION {tx[b][i].rows : i \in {j \in DOMAIN tx[b] : j < Len(tx[b]) \/ ~current[b]}}

\* Rows whose messages the session has accepted, or has sent.
Accepted(b) == IF pending[b] THEN {} ELSE committed \ Unsent

\* The rows that every copy of the summary in session b has to cover.
Settled(b) == {row \in Accepted(b) \cup Written(b) : row.widened}

Copy(b, keys) == keys # NotCached => \A row \in Settled(b) : row.key \in keys

SessionInv(b) ==
    /\ Busy(b) /\ PageCoversFrames(b) /\ WideningsNoted(b)
    /\ Copy(b, cached[b]) /\ Copy(b, reading[b])

IInv ==
    /\ TypeOK
    /\ \A row \in committed : row.key \in page
    /\ \A b \in Backend : SessionInv(b)

(***************************************************************************)
(* Rows and messages of a transaction, frame by frame.                     *)
(***************************************************************************)
LEMMA RowsOfFrames ==
    ASSUME NEW frames \in Seq(Frame)
    PROVE  /\ RowsOf(frames) \subseteq Row
           /\ \A row : row \in RowsOf(frames) <=> \E i \in DOMAIN frames : row \in frames[i].rows
           /\ Merged(frames) \in Frame
<1>1. \A i \in DOMAIN frames : frames[i] \in Frame
      OBVIOUS
<1> QED BY <1>1 DEF RowsOf, Merged, NotedIn, Frame

LEMMA InitIInv == Init => IInv
<1> SUFFICES ASSUME Init PROVE IInv
    OBVIOUS
<1>1. TypeOK
      BY CoherenceAssumption DEF Init, TypeOK
<1>2. ASSUME NEW b \in Backend PROVE SessionInv(b)
  <2>1. tx[b] = <<>> /\ cached[b] = NotCached /\ reading[b] = NotCached /\ ~current[b]
        BY DEF Init
  <2> QED BY <2>1 DEF SessionInv, Busy, PageCoversFrames, WideningsNoted, Copy
<1> QED BY <1>1, <1>2 DEF Init, IInv

\* A step of session b that neither commits nor sends anything.
Local(b) ==
    /\ ~ended[b] /\ page \subseteq page'
    /\ UNCHANGED <<committed, ended, pending>>
    /\ \A d \in Backend : d # b =>
           /\ tx'[d] = tx[d] /\ current'[d] = current[d]
           /\ reading'[d] = reading[d] /\ cached'[d] = cached[d]

(***************************************************************************)
(* Such a step changes nothing for the other sessions, nor what b itself   *)
(* has accepted of theirs.                                                 *)
(***************************************************************************)
LEMMA LocalStep ==
    ASSUME IInv, NEW b \in Backend, Local(b)
    PROVE  /\ \A row \in committed' : row.key \in page'
           /\ Accepted(b)' = Accepted(b)
           /\ \A d \in Backend : d # b => Settled(d)' = Settled(d) /\ SessionInv(d)'
<1>1. Unsent' = Unsent
      BY DEF Local, Unsent
<1>2. \A d \in Backend : Accepted(d)' = Accepted(d)
      BY <1>1 DEF Local, Accepted
<1>3. ASSUME NEW d \in Backend, d # b
      PROVE  Settled(d)' = Settled(d) /\ SessionInv(d)'
  <2>1. /\ tx'[d] = tx[d] /\ current'[d] = current[d] /\ ended'[d] = ended[d]
        /\ reading'[d] = reading[d] /\ cached'[d] = cached[d] /\ page \subseteq page'
        BY <1>3 DEF Local
  <2>2. Settled(d)' = Settled(d)
        BY <1>2, <2>1 DEF Settled, Written
  <2>3. Busy(d)' /\ PageCoversFrames(d)' /\ WideningsNoted(d)'
        BY <2>1 DEF IInv, SessionInv, Busy, PageCoversFrames, WideningsNoted
  <2>4. Copy(d, cached[d])' /\ Copy(d, reading[d])'
        BY <2>1, <2>2 DEF IInv, SessionInv, Copy
  <2> QED BY <2>2, <2>3, <2>4 DEF SessionInv
<1> QED BY <1>2, <1>3 DEF IInv, Local

(***************************************************************************)
(* A savepoint adds an empty frame.                                        *)
(***************************************************************************)
LEMMA SavepointIInv ==
    ASSUME IInv, NEW b \in Backend, Savepoint(b)
    PROVE  IInv' /\ \A d \in Backend : Settled(d)' \subseteq Settled(d)
<1> USE DEF IInv
<1>1. NoRows \in Frame /\ NoRows.rows = {}
      BY DEF NoRows, Frame
<1>2. tx[b] \in Seq(Frame) /\ ~current[b] /\ ~ended[b] /\ SessionInv(b)
      BY DEF TypeOK, Savepoint, Ready, SessionInv, Busy
<1>3. /\ tx'[b] \in Seq(Frame) /\ Len(tx'[b]) = Len(tx[b]) + 1 /\ Len(tx'[b]) <= MaxFrames
      /\ tx'[b] # <<>>
      /\ DOMAIN tx'[b] = 1 .. Len(tx[b]) + 1 /\ DOMAIN tx[b] = 1 .. Len(tx[b])
      /\ \A i \in DOMAIN tx[b] : tx'[b][i] = tx[b][i]
      /\ tx'[b][Len(tx[b]) + 1] = NoRows
      /\ \A d \in Backend : d # b => tx'[d] = tx[d]
      BY <1>1, <1>2, AppendProperties, CoherenceAssumption DEF TypeOK, Savepoint
<1>4. TypeOK'
      BY <1>2, <1>3 DEF TypeOK, Savepoint
<1>5. Local(b)
      BY <1>2, <1>3 DEF Local, Savepoint
<1>6. Written(b)' \subseteq Written(b)
      BY <1>1, <1>2, <1>3 DEF Written
<1>7. Settled(b)' \subseteq Settled(b)
      BY <1>5, <1>6, LocalStep DEF Settled
<1>8. SessionInv(b)'
  <2>1. Busy(b)' /\ PageCoversFrames(b)' /\ WideningsNoted(b)'
        BY <1>1, <1>2, <1>3 DEF SessionInv, Savepoint, Busy, PageCoversFrames, WideningsNoted
  <2>2. Copy(b, cached[b])' /\ Copy(b, reading[b])'
        BY <1>2, <1>7 DEF SessionInv, Savepoint, Copy
  <2> QED BY <2>1, <2>2 DEF SessionInv
<1> QED BY <1>4, <1>5, <1>7, <1>8, LocalStep

\* What a row that is added to the innermost frame of b changes.
AddedTo(b, row) ==
    /\ tx' \in [Backend -> Seq(Frame)]
    /\ tx'[b] # <<>> /\ Len(tx'[b]) = Len(tx[b]) /\ Len(tx[b]) \in Nat \ {0}
    /\ DOMAIN tx'[b] = 1 .. Len(tx[b]) /\ DOMAIN tx[b] = 1 .. Len(tx[b])
    /\ \A i \in DOMAIN tx[b] :
           /\ tx'[b][i].noted = tx[b][i].noted
           /\ \A r \in tx'[b][i].rows :
                  r \in tx[b][i].rows \/ (r = row /\ i = Len(tx[b]))
    /\ \A d \in Backend : d # b => tx'[d] = tx[d]

(***************************************************************************)
(* An insert adds its row to the innermost frame.                          *)
(***************************************************************************)
LEMMA AddRowFrames ==
    ASSUME TypeOK, NEW b \in Backend, NEW row \in Row, tx[b] # <<>>, AddRow(b, row)
    PROVE  AddedTo(b, row)
<1> DEFINE n == Len(tx[b])
           last == [tx[b][n] EXCEPT !.rows = @ \cup {row}]
<1>1. tx[b] \in Seq(Frame) /\ n \in Nat \ {0} /\ DOMAIN tx[b] = 1 .. n
      BY LenProperties, EmptySeq DEF TypeOK
<1>2. tx[b][n] \in Frame
      BY <1>1
<1>3. last \in Frame /\ last.noted = tx[b][n].noted /\ last.rows = tx[b][n].rows \cup {row}
      BY <1>2 DEF Frame
<1>4. tx' = [tx EXCEPT ![b] = [tx[b] EXCEPT ![n] = last]]
      BY DEF AddRow
<1> HIDE DEF last
<1>5. /\ tx'[b] = [tx[b] EXCEPT ![n] = last]
      /\ \A d \in Backend : d # b => tx'[d] = tx[d]
      BY <1>4 DEF TypeOK
<1>6. /\ tx'[b] \in Seq(Frame) /\ Len(tx'[b]) = n /\ DOMAIN tx'[b] = 1 .. n
      /\ \A i \in 1 .. n : tx'[b][i] = IF i = n THEN last ELSE tx[b][i]
      BY <1>1, <1>3, <1>5, ExceptSeq, LenProperties
<1>7. tx' \in [Backend -> Seq(Frame)] /\ tx'[b] # <<>>
      BY <1>1, <1>4, <1>5, <1>6 DEF TypeOK
<1>8. ASSUME NEW i \in 1 .. n
      PROVE  /\ tx'[b][i].noted = tx[b][i].noted
             /\ \A r \in tx'[b][i].rows : r \in tx[b][i].rows \/ (r = row /\ i = n)
  <2>1. CASE i = n
    <3>1. tx'[b][i] = last
          BY <1>1, <1>6, <2>1
    <3> QED BY <1>3, <2>1, <3>1
  <2>2. CASE i # n
        BY <1>1, <1>6, <2>2
  <2> QED BY <2>1, <2>2
<1> QED BY <1>1, <1>5, <1>6, <1>7, <1>8 DEF AddedTo

(***************************************************************************)
(* The summary covers the row already: nothing is announced.               *)
(***************************************************************************)
LEMMA InsertCoveredIInv ==
    ASSUME IInv, NEW b \in Backend, NEW k \in Key, widen_on_insert_covered(b, k)
    PROVE  IInv' /\ \A d \in Backend : Settled(d)' \subseteq Settled(d)
<1> USE DEF IInv
<1> DEFINE row == [key |-> k, widened |-> FALSE]
<1>1. row \in Row /\ row.key = k /\ ~row.widened
      BY DEF Row
<1>2. /\ tx[b] # <<>> /\ ~ended[b] /\ k \in page /\ AddRow(b, row)
      /\ UNCHANGED <<page, committed, ended, current, pending, reading, cached>>
      BY DEF widen_on_insert_covered, CanInsert
<1> HIDE DEF row
<1>3. AddedTo(b, row)
      BY <1>1, <1>2, AddRowFrames
<1>4. TypeOK'
      BY <1>1, <1>2, <1>3 DEF TypeOK, AddedTo
<1>5. Local(b)
      BY <1>2, <1>3 DEF Local, AddedTo
<1>6. Written(b)' \subseteq Written(b) \cup {row}
      BY <1>2, <1>3 DEF Written, AddedTo
<1>7. Settled(b)' \subseteq Settled(b)
      BY <1>1, <1>5, <1>6, LocalStep DEF Settled
<1>8. SessionInv(b)'
  <2>1. Busy(b)' /\ PageCoversFrames(b)'
        BY <1>1, <1>2, <1>3 DEF SessionInv, Busy, PageCoversFrames, AddedTo
  <2>2. WideningsNoted(b)'
        BY <1>1, <1>2, <1>3 DEF SessionInv, WideningsNoted, AddedTo
  <2>3. Copy(b, cached[b])' /\ Copy(b, reading[b])'
        BY <1>2, <1>7 DEF SessionInv, Copy
  <2> QED BY <2>1, <2>2, <2>3 DEF SessionInv
<1> QED BY <1>4, <1>5, <1>7, <1>8, LocalStep

(***************************************************************************)
(* A widening is announced by the command that made it; until it ends, the *)
(* session may go on with the copy it has.                                 *)
(***************************************************************************)
LEMMA InsertWidensIInv ==
    ASSUME IInv, NEW b \in Backend, NEW k \in Key, widen_on_insert(b, k)
    PROVE  IInv' /\ \A d \in Backend : Settled(d)' \subseteq Settled(d)
<1> USE DEF IInv
<1> DEFINE row == [key |-> k, widened |-> TRUE]
<1>1. row \in Row /\ row.key = k
      BY DEF Row
<1>2. /\ tx[b] # <<>> /\ ~ended[b] /\ reading[b] = NotCached /\ AddRow(b, row)
      /\ page \cup {k} \subseteq page' /\ page' \subseteq Key
      /\ current' = [current EXCEPT ![b] = TRUE]
      /\ UNCHANGED <<committed, ended, pending, reading, cached>>
      BY DEF widen_on_insert, CanInsert, note_widened
<1> HIDE DEF row
<1>3. AddedTo(b, row)
      BY <1>1, <1>2, AddRowFrames
<1>4. current'[b] /\ \A d \in Backend : d # b => current'[d] = current[d]
      BY <1>2 DEF TypeOK
<1>5. TypeOK'
      BY <1>1, <1>2, <1>3 DEF TypeOK, AddedTo
<1>6. Local(b)
      BY <1>2, <1>3, <1>4 DEF Local, AddedTo
<1>7. Written(b)' \subseteq Written(b)
      BY <1>3, <1>4 DEF Written, AddedTo
<1>8. Settled(b)' \subseteq Settled(b)
      BY <1>6, <1>7, LocalStep DEF Settled
<1>9. SessionInv(b)'
  <2>1. Busy(b)' /\ PageCoversFrames(b)'
        BY <1>1, <1>2, <1>3, <1>4 DEF SessionInv, Busy, PageCoversFrames, AddedTo
  <2>2. WideningsNoted(b)'
        BY <1>3, <1>4 DEF SessionInv, WideningsNoted, AddedTo
  <2>3. Copy(b, cached[b])' /\ Copy(b, reading[b])'
        BY <1>2, <1>8 DEF SessionInv, Copy
  <2> QED BY <2>1, <2>2, <2>3 DEF SessionInv
<1> QED BY <1>5, <1>6, <1>8, <1>9, LocalStep

(***************************************************************************)
(* When the command ends the session acts on its messages: the rows it has *)
(* written since are settled, and its copy is dropped.                     *)
(***************************************************************************)
LEMMA CommandEndIInv ==
    ASSUME IInv, NEW b \in Backend, CommandEnd(b)
    PROVE  IInv' /\ \A d \in Backend : d # b => Settled(d)' \subseteq Settled(d)
<1> USE DEF IInv
<1> DEFINE n == Len(tx[b])
           last == [tx[b][n] EXCEPT !.noted = TRUE]
<1>1. /\ tx[b] \in Seq(Frame) /\ n \in Nat \ {0} /\ DOMAIN tx[b] = 1 .. n
      /\ current[b] /\ ~ended[b] /\ reading[b] = NotCached
      BY LenProperties, EmptySeq DEF TypeOK, CommandEnd, SessionInv, Busy
<1>2. tx[b][n] \in Frame
      BY <1>1
<1>3. last \in Frame /\ last.noted /\ last.rows = tx[b][n].rows
      BY <1>2 DEF Frame
<1>4. tx' = [tx EXCEPT ![b] = [tx[b] EXCEPT ![n] = last]]
      BY DEF CommandEnd
<1> HIDE DEF last
<1>5. /\ tx'[b] = [tx[b] EXCEPT ![n] = last]
      /\ \A d \in Backend : d # b => tx'[d] = tx[d]
      BY <1>4 DEF TypeOK
<1>6. /\ tx'[b] \in Seq(Frame) /\ Len(tx'[b]) = n /\ DOMAIN tx'[b] = 1 .. n
      /\ \A i \in 1 .. n : tx'[b][i] = IF i = n THEN last ELSE tx[b][i]
      BY <1>1, <1>3, <1>5, ExceptSeq, LenProperties
<1>7. \A i \in 1 .. n : tx'[b][i].rows = tx[b][i].rows
      BY <1>3, <1>6
<1>8. /\ ~current'[b] /\ cached'[b] = NotCached
      /\ \A d \in Backend : d # b => current'[d] = current[d] /\ cached'[d] = cached[d]
      /\ UNCHANGED <<page, committed, ended, pending, reading>>
      BY DEF TypeOK, CommandEnd, relcache_callback
<1>9. TypeOK'
  <2>1. tx' \in [Backend -> Seq(Frame)]
        BY <1>4, <1>5, <1>6 DEF TypeOK
  <2>2. \A d \in Backend : Len(tx'[d]) = Len(tx[d])
        BY <1>5, <1>6
  <2>3. current' \in [Backend -> BOOLEAN] /\ cached' \in [Backend -> {NotCached} \cup SUBSET Key]
        BY DEF TypeOK, CommandEnd, relcache_callback
  <2> QED BY <1>8, <2>1, <2>2, <2>3 DEF TypeOK
<1>10. Local(b)
      BY <1>1, <1>5, <1>8 DEF Local
<1>11. SessionInv(b)'
  <2>1. Busy(b)' /\ PageCoversFrames(b)'
        BY <1>1, <1>6, <1>7, <1>8 DEF SessionInv, Busy, PageCoversFrames
  <2>2. WideningsNoted(b)'
    <3>1. ASSUME NEW i \in 1 .. n, NEW row \in tx'[b][i].rows, row.widened
          PROVE  tx'[b][i].noted
      <4>1. CASE i = n
        <5>1. tx'[b][i] = last
              BY <1>1, <1>6, <4>1
        <5> QED BY <1>3, <5>1
      <4>2. CASE i # n
        <5>1. tx'[b][i] = tx[b][i]
              BY <1>1, <1>6, <4>2
        <5> QED BY <1>1, <3>1, <4>2, <5>1 DEF SessionInv, WideningsNoted
      <4> QED BY <4>1, <4>2
    <3> QED BY <1>6, <3>1 DEF WideningsNoted
  <2>3. Copy(b, cached[b])' /\ Copy(b, reading[b])'
        BY <1>1, <1>8 DEF Copy
  <2> QED BY <2>1, <2>2, <2>3 DEF SessionInv
<1> QED BY <1>9, <1>10, <1>11, LocalStep

(***************************************************************************)
(* RELEASE puts what two frames hold into one.                             *)
(***************************************************************************)
LEMMA ReleaseIInv ==
    ASSUME IInv, NEW b \in Backend, Release(b)
    PROVE  IInv' /\ \A d \in Backend : Settled(d)' \subseteq Settled(d)
<1> USE DEF IInv
<1> DEFINE n == Len(tx[b])
           both == <<tx[b][n - 1], tx[b][n]>>
<1>1. /\ tx[b] \in Seq(Frame) /\ n \in Nat /\ n > 1 /\ DOMAIN tx[b] = 1 .. n
      /\ ~current[b] /\ ~ended[b] /\ reading[b] = NotCached
      BY LenProperties DEF TypeOK, Release, Ready
<1>2. tx[b][n - 1] \in Frame /\ tx[b][n] \in Frame
      BY <1>1
<1>3. both \in Seq(Frame) /\ DOMAIN both = {1, 2}
      BY <1>2
<1>4. Merged(both) \in Frame
      BY <1>3, RowsOfFrames
<1>5. /\ \A row \in Merged(both).rows : row \in tx[b][n - 1].rows \/ row \in tx[b][n].rows
      /\ tx[b][n - 1].noted \/ tx[b][n].noted => Merged(both).noted
  <2>1. Merged(both).rows = RowsOf(both) /\ Merged(both).noted = NotedIn(both)
        BY DEF Merged
  <2>2. both[1] = tx[b][n - 1] /\ both[2] = tx[b][n]
        OBVIOUS
  <2>3. \A row \in RowsOf(both) : row \in both[1].rows \/ row \in both[2].rows
        BY <1>3, RowsOfFrames
  <2>4. NotedIn(both) <=> both[1].noted \/ both[2].noted
        BY <1>3 DEF NotedIn
  <2> QED BY <2>1, <2>2, <2>3, <2>4
<1>6. /\ Front(tx[b]) \in Seq(Frame) /\ Len(Front(tx[b])) = n - 1
      /\ \A i \in 1 .. n - 1 : Front(tx[b])[i] = tx[b][i]
      BY <1>1 DEF Front
<1>7. /\ Front(Front(tx[b])) \in Seq(Frame) /\ Len(Front(Front(tx[b]))) = n - 2
      /\ \A i \in 1 .. n - 2 : Front(Front(tx[b]))[i] = tx[b][i]
      BY <1>1, <1>6 DEF Front
<1>8. tx' = [tx EXCEPT ![b] = Append(Front(Front(tx[b])), Merged(both))]
  <2>1. Last(Front(tx[b])) = tx[b][n - 1] /\ Last(tx[b]) = tx[b][n]
        BY <1>1, <1>6 DEF Last
  <2> QED BY <2>1 DEF Release
<1> HIDE DEF both
<1>9. /\ tx'[b] = Append(Front(Front(tx[b])), Merged(both))
      /\ \A d \in Backend : d # b => tx'[d] = tx[d]
      BY <1>8 DEF TypeOK
<1>10. /\ tx'[b] \in Seq(Frame) /\ Len(tx'[b]) = n - 1 /\ DOMAIN tx'[b] = 1 .. n - 1
       /\ \A i \in 1 .. n - 2 : tx'[b][i] = tx[b][i]
       /\ tx'[b][n - 1] = Merged(both)
      BY <1>1, <1>4, <1>7, <1>9, AppendProperties, LenProperties
<1>11. UNCHANGED <<page, committed, ended, current, pending, reading, cached>>
      BY DEF Release
<1>12. TypeOK'
  <2>1. tx' \in [Backend -> Seq(Frame)]
        BY <1>8, <1>9, <1>10 DEF TypeOK
  <2>2. n <= MaxFrames /\ MaxFrames \in Nat
        BY CoherenceAssumption DEF TypeOK
  <2>3. \A d \in Backend : Len(tx'[d]) <= MaxFrames
    <3>1. Len(tx'[b]) <= MaxFrames
          BY <1>1, <1>10, <2>2
    <3> QED BY <1>9, <3>1 DEF TypeOK
  <2>4. \A d \in Backend : ended'[d] => Len(tx'[d]) = 1
        BY <1>1, <1>9, <1>11 DEF TypeOK
  <2> QED BY <1>11, <2>1, <2>3, <2>4 DEF TypeOK
<1>13. Local(b)
      BY <1>1, <1>9, <1>11 DEF Local
\* Every row of the new frames is in a frame of before, with its message.
<1>14. ASSUME NEW i \in DOMAIN tx'[b], NEW row \in tx'[b][i].rows
       PROVE  \E j \in DOMAIN tx[b] :
                  row \in tx[b][j].rows /\ (tx[b][j].noted => tx'[b][i].noted)
  <2>1. CASE i = n - 1
    <3>1. tx'[b][i] = Merged(both) /\ n - 1 \in DOMAIN tx[b] /\ n \in DOMAIN tx[b]
          BY <1>1, <1>10, <2>1
    <3> QED BY <1>5, <3>1
  <2>2. CASE i # n - 1
    <3>1. i \in DOMAIN tx[b] /\ tx'[b][i] = tx[b][i]
          BY <1>1, <1>10, <2>2
    <3> QED BY <3>1
  <2> QED BY <2>1, <2>2
<1>15. Settled(b)' \subseteq Settled(b)
  <2>1. Written(b)' \subseteq Written(b)
        BY <1>1, <1>11, <1>14 DEF Written
  <2> QED BY <1>13, <2>1, LocalStep DEF Settled
<1>16. SessionInv(b)'
  <2>1. Busy(b)'
        BY <1>1, <1>11 DEF Busy
  <2>2. PageCoversFrames(b)'
        BY <1>11, <1>14 DEF SessionInv, PageCoversFrames
  <2>3. WideningsNoted(b)'
        BY <1>1, <1>11, <1>14 DEF SessionInv, WideningsNoted
  <2>4. Copy(b, cached[b])' /\ Copy(b, reading[b])'
        BY <1>11, <1>15 DEF SessionInv, Copy
  <2> QED BY <2>1, <2>2, <2>3, <2>4 DEF SessionInv
<1> QED BY <1>12, <1>13, <1>15, <1>16, LocalStep

(***************************************************************************)
(* What is rolled back had been settled, or was the current command's own: *)
(* the copy is dropped if anything of it had been announced to the session *)
(* itself, and the widenings it leaves in the page are covered by any copy *)
(* that is read from now on.                                               *)
(***************************************************************************)
LEMMA RollbackIInv ==
    ASSUME IInv, NEW b \in Backend, NEW left \in 0 .. MaxFrames, Rollback(b, left)
    PROVE  IInv' /\ \A d \in Backend : Settled(d)' \subseteq Settled(d)
<1> USE DEF IInv
<1>1. /\ tx[b] \in Seq(Frame) /\ Len(tx[b]) \in Nat /\ DOMAIN tx[b] = 1 .. Len(tx[b])
      /\ left \in Nat /\ left < Len(tx[b]) /\ ~ended[b]
      BY CoherenceAssumption, LenProperties DEF TypeOK, Rollback
<1>2. /\ tx'[b] = SubSeq(tx[b], 1, left)
      /\ \A d \in Backend : d # b =>
             /\ tx'[d] = tx[d] /\ current'[d] = current[d]
             /\ reading'[d] = reading[d] /\ cached'[d] = cached[d]
      BY DEF TypeOK, Rollback, relcache_callback
<1>3. /\ tx'[b] \in Seq(Frame) /\ Len(tx'[b]) = left /\ DOMAIN tx'[b] = 1 .. left
      /\ \A i \in 1 .. left : tx'[b][i] = tx[b][i]
      BY <1>1, <1>2, SubSeqProperties, LenProperties
<1>4. /\ ~current'[b] /\ reading'[b] = NotCached
      /\ cached'[b] = cached[b] \/ cached'[b] = NotCached
      /\ UNCHANGED <<page, committed, ended, pending>>
      BY DEF TypeOK, Rollback, relcache_callback
<1>5. TypeOK'
  <2>1. tx' \in [Backend -> Seq(Frame)]
        BY <1>2, <1>3 DEF TypeOK, Rollback
  <2>2. \A d \in Backend : Len(tx'[d]) <= MaxFrames
        BY <1>1, <1>2, <1>3, CoherenceAssumption DEF TypeOK
  <2>3. \A d \in Backend : ended[d] => Len(tx'[d]) = 1
        BY <1>1, <1>2 DEF TypeOK
  <2>4. /\ current' \in [Backend -> BOOLEAN]
        /\ reading' \in [Backend -> {NotCached} \cup SUBSET Key]
        /\ cached' \in [Backend -> {NotCached} \cup SUBSET Key]
        BY DEF TypeOK, Rollback, relcache_callback
  <2> QED BY <1>4, <2>1, <2>2, <2>3, <2>4 DEF TypeOK
<1>6. Local(b)
      BY <1>1, <1>2, <1>4 DEF Local
<1>7. Settled(b)' \subseteq Settled(b)
  <2>1. Written(b)' \subseteq Written(b)
    <3> SUFFICES ASSUME NEW i \in DOMAIN tx'[b], NEW row \in tx'[b][i].rows
                 PROVE  row \in Written(b)
        BY DEF Written
    <3>1. i \in DOMAIN tx[b] /\ i < Len(tx[b]) /\ row \in tx[b][i].rows
          BY <1>1, <1>3
    <3> QED BY <3>1 DEF Written
  <2> QED BY <1>6, <2>1, LocalStep DEF Settled
<1>8. SessionInv(b)'
  <2>1. Busy(b)'
        BY <1>4 DEF Busy
  <2>2. PageCoversFrames(b)'
        BY <1>1, <1>3, <1>4 DEF SessionInv, PageCoversFrames
  <2>3. WideningsNoted(b)'
    <3> SUFFICES ASSUME NEW i \in DOMAIN tx'[b], NEW row \in tx'[b][i].rows, row.widened
                 PROVE  tx'[b][i].noted
        BY DEF WideningsNoted
    <3>1. i \in DOMAIN tx[b] /\ i # Len(tx[b]) /\ tx'[b][i] = tx[b][i]
          BY <1>1, <1>3
    <3> QED BY <3>1 DEF SessionInv, WideningsNoted
  <2>4. Copy(b, cached[b])' /\ Copy(b, reading[b])'
        BY <1>4, <1>7 DEF SessionInv, Copy
  <2> QED BY <2>1, <2>2, <2>3, <2>4 DEF SessionInv
<1> QED BY <1>5, <1>6, <1>7, <1>8, LocalStep

(***************************************************************************)
(* The rows become visible, and not yet announced.                         *)
(***************************************************************************)
LEMMA CommitIInv ==
    ASSUME IInv, NEW b \in Backend, Commit(b)
    PROVE  IInv' /\ \A d \in Backend : Settled(d)' \subseteq Settled(d)
<1> USE DEF IInv
<1>1. /\ tx[b] \in Seq(Frame) /\ ~current[b] /\ ~ended[b] /\ reading[b] = NotCached
      BY DEF TypeOK, Commit, Ready
<1>2. /\ Merged(tx[b]) \in Frame /\ Merged(tx[b]).rows = RowsOf(tx[b])
      /\ Merged(tx[b]).noted = NotedIn(tx[b])
      BY <1>1, RowsOfFrames DEF Merged
<1>3. /\ tx' = [tx EXCEPT ![b] = <<Merged(tx[b])>>] /\ committed' = committed \cup RowsOf(tx[b])
      /\ ended' = [ended EXCEPT ![b] = TRUE]
      /\ UNCHANGED <<page, current, pending, reading, cached>>
      BY DEF Commit
<1>4. /\ tx'[b] = <<Merged(tx[b])>> /\ ended'[b]
      /\ \A d \in Backend : d # b => tx'[d] = tx[d] /\ ended'[d] = ended[d]
      BY <1>3 DEF TypeOK
<1>5. /\ tx'[b] \in Seq(Frame) /\ Len(tx'[b]) = 1 /\ DOMAIN tx'[b] = {1}
      /\ tx'[b][1] = Merged(tx[b])
      BY <1>2, <1>4
<1>6. TypeOK'
  <2>1. tx' \in [Backend -> Seq(Frame)]
        BY <1>3, <1>4, <1>5 DEF TypeOK
  <2>2. MaxFrames \in Nat /\ 1 <= MaxFrames
        BY CoherenceAssumption
  <2>3. \A d \in Backend : Len(tx'[d]) <= MaxFrames
        BY <1>4, <1>5, <2>2 DEF TypeOK
  <2>4. \A d \in Backend : ended'[d] => Len(tx'[d]) = 1
        BY <1>4, <1>5 DEF TypeOK
  <2>5. ended' \in [Backend -> BOOLEAN] /\ committed' \subseteq Row
        BY <1>1, <1>3, RowsOfFrames DEF TypeOK
  <2> QED BY <1>3, <2>1, <2>3, <2>4, <2>5 DEF TypeOK
<1>7. RowsOf(tx[b]) \subseteq Written(b)
      BY <1>1, RowsOfFrames DEF Written
<1>8. RowsOf(tx'[b]) = RowsOf(tx[b]) /\ Written(b)' = RowsOf(tx[b])
      BY <1>1, <1>2, <1>3, <1>5 DEF RowsOf, Written
<1>9. Unsent' = Unsent \cup RowsOf(tx[b])
      BY <1>1, <1>4, <1>8 DEF Unsent
<1>10. \A d \in Backend : Accepted(d)' \subseteq Accepted(d)
      BY <1>3, <1>9 DEF Accepted
<1>11. \A d \in Backend : Written(d)' \subseteq Written(d)
      BY <1>3, <1>4, <1>7, <1>8 DEF Written
<1>12. \A d \in Backend : Settled(d)' \subseteq Settled(d)
      BY <1>10, <1>11 DEF Settled
<1>13. \A row \in RowsOf(tx[b]) : row.key \in page /\ (row.widened => NotedIn(tx[b]))
      BY <1>1, RowsOfFrames DEF SessionInv, PageCoversFrames, WideningsNoted, NotedIn
<1>14. ASSUME NEW d \in Backend PROVE SessionInv(d)'
  <2>1. Copy(d, cached[d])' /\ Copy(d, reading[d])'
        BY <1>3, <1>12 DEF SessionInv, Copy
  <2>2. CASE d # b
        BY <1>3, <1>4, <2>1, <2>2 DEF SessionInv, Busy, PageCoversFrames, WideningsNoted
  <2>3. CASE d = b
    <3>1. Busy(b)'
          BY <1>1, <1>3 DEF Busy
    <3>2. PageCoversFrames(b)' /\ WideningsNoted(b)'
          BY <1>2, <1>3, <1>5, <1>13 DEF PageCoversFrames, WideningsNoted
    <3> QED BY <2>1, <2>3, <3>1, <3>2 DEF SessionInv
  <2> QED BY <2>2, <2>3
<1>15. \A row \in committed' : row.key \in page'
      BY <1>3, <1>13
<1> QED BY <1>6, <1>12, <1>14, <1>15

(***************************************************************************)
(* The messages go to every session: what they settle, nobody has accepted *)
(* yet.  A transaction without messages has widened nothing.               *)
(***************************************************************************)
LEMMA SendIInv ==
    ASSUME IInv, NEW b \in Backend, SendInvalidations(b)
    PROVE  IInv' /\ \A d \in Backend : Settled(d)' \subseteq Settled(d)
<1> USE DEF IInv
<1>1. /\ tx[b] \in Seq(Frame) /\ Len(tx[b]) = 1 /\ DOMAIN tx[b] = {1}
      /\ ended[b] /\ ~current[b] /\ reading[b] = NotCached
      BY LenProperties DEF TypeOK, SendInvalidations, SessionInv, Busy
<1>2. /\ tx' = [tx EXCEPT ![b] = <<>>] /\ ended' = [ended EXCEPT ![b] = FALSE]
      /\ pending' = [o \in Backend |-> pending[o] \/ NotedIn(tx[b])]
      /\ UNCHANGED <<page, committed, current, reading, cached>>
      BY DEF SendInvalidations
<1>3. /\ tx'[b] = <<>> /\ ~ended'[b]
      /\ \A d \in Backend : d # b => tx'[d] = tx[d] /\ ended'[d] = ended[d]
      BY <1>2 DEF TypeOK
<1>4. TypeOK'
  <2>1. <<>> \in Seq(Frame) /\ Len(<<>>) = 0
        BY EmptySeq
  <2>2. tx' \in [Backend -> Seq(Frame)]
        BY <1>2, <2>1 DEF TypeOK
  <2>3. \A d \in Backend : Len(tx'[d]) <= MaxFrames
        BY <1>3, <2>1, CoherenceAssumption DEF TypeOK
  <2>4. \A d \in Backend : ended'[d] => Len(tx'[d]) = 1
        BY <1>3 DEF TypeOK
  <2>5. ended' \in [Backend -> BOOLEAN] /\ pending' \in [Backend -> BOOLEAN]
        BY <1>1, <1>2 DEF TypeOK, NotedIn
  <2> QED BY <1>2, <2>2, <2>3, <2>4, <2>5 DEF TypeOK
<1>5. \A row \in RowsOf(tx[b]) : row.widened => NotedIn(tx[b])
      BY <1>1, RowsOfFrames DEF SessionInv, WideningsNoted, NotedIn
<1>6. Unsent \subseteq Unsent' \cup RowsOf(tx[b])
      BY <1>3 DEF Unsent
<1>7. ASSUME NEW d \in Backend PROVE Settled(d)' \subseteq Settled(d)
  <2>1. Written(d)' \subseteq Written(d)
    <3>1. CASE d = b
          BY <1>3, <3>1 DEF Written
    <3>2. CASE d # b
          BY <1>2, <1>3, <3>2 DEF Written
    <3> QED BY <3>1, <3>2
  <2>2. \A row \in Accepted(d)' : row.widened => row \in Accepted(d)
    <3> SUFFICES ASSUME NEW row \in Accepted(d)', row.widened
                 PROVE  row \in Accepted(d)
        OBVIOUS
    <3>1. ~pending[d] /\ ~NotedIn(tx[b]) /\ row \in committed /\ row \notin Unsent'
          BY <1>2 DEF Accepted
    <3> QED BY <1>5, <1>6, <3>1 DEF Accepted
  <2> QED BY <2>1, <2>2 DEF Settled
<1>8. ASSUME NEW d \in Backend PROVE SessionInv(d)'
  <2>1. Copy(d, cached[d])' /\ Copy(d, reading[d])'
        BY <1>2, <1>7 DEF SessionInv, Copy
  <2>2. CASE d # b
        BY <1>2, <1>3, <2>1, <2>2 DEF SessionInv, Busy, PageCoversFrames, WideningsNoted
  <2>3. CASE d = b
        BY <1>1, <1>2, <1>3, <2>1, <2>3 DEF SessionInv, Busy, PageCoversFrames, WideningsNoted
  <2> QED BY <2>2, <2>3
<1> QED BY <1>2, <1>4, <1>7, <1>8

(***************************************************************************)
(* Announcements are accepted: everything announced is settled from here,  *)
(* and the session has no copy it could have missed it in.                 *)
(***************************************************************************)
LEMMA AcceptIInv ==
    ASSUME IInv, NEW b \in Backend, AcceptInvalidations(b)
    PROVE  IInv' /\ \A d \in Backend : d # b => Settled(d)' \subseteq Settled(d)
<1> USE DEF IInv
<1>1. /\ reading[b] = NotCached
      /\ UNCHANGED <<page, committed, tx, ended, current, reading>>
      BY DEF AcceptInvalidations
<1>2. /\ ~pending'[b] /\ cached'[b] = NotCached
      /\ \A d \in Backend : d # b => pending'[d] = pending[d] /\ cached'[d] = cached[d]
      BY DEF TypeOK, AcceptInvalidations, relcache_callback
<1>3. TypeOK'
      BY <1>1 DEF TypeOK, AcceptInvalidations, relcache_callback
<1>4. Unsent' = Unsent
      BY <1>1 DEF Unsent
<1>5. \A d \in Backend : d # b => Settled(d)' = Settled(d)
      BY <1>1, <1>2, <1>4 DEF Settled, Accepted, Written
<1>6. ASSUME NEW d \in Backend PROVE SessionInv(d)'
  <2>1. Busy(d)' /\ PageCoversFrames(d)' /\ WideningsNoted(d)'
        BY <1>1 DEF SessionInv, Busy, PageCoversFrames, WideningsNoted
  <2>2. CASE d # b
        BY <1>1, <1>2, <1>5, <2>1, <2>2 DEF SessionInv, Copy
  <2>3. CASE d = b
        BY <1>1, <1>2, <2>1, <2>3 DEF SessionInv, Copy
  <2> QED BY <2>2, <2>3
<1> QED BY <1>1, <1>3, <1>5, <1>6

(***************************************************************************)
(* The page that is read covers every row there is.                        *)
(***************************************************************************)
LEMMA ReadIInv ==
    ASSUME IInv, NEW b \in Backend, read_summary(b)
    PROVE  IInv' /\ \A d \in Backend : Settled(d)' = Settled(d)
<1> USE DEF IInv
<1>1. /\ tx[b] # <<>> /\ ~ended[b] /\ ~current[b]
      /\ UNCHANGED <<page, committed, tx, ended, current, pending, cached>>
      BY DEF read_summary, Ready
<1>2. reading'[b] = page /\ \A d \in Backend : d # b => reading'[d] = reading[d]
      BY DEF TypeOK, read_summary
<1>3. TypeOK'
      BY <1>1 DEF TypeOK, read_summary
<1>4. \A d \in Backend : Settled(d)' = Settled(d)
      BY <1>1 DEF Settled, Accepted, Written, Unsent
<1>5. \A row \in Settled(b) : row.key \in page
      BY DEF Settled, Accepted, Written, SessionInv, PageCoversFrames
<1>6. ASSUME NEW d \in Backend PROVE SessionInv(d)'
  <2>1. PageCoversFrames(d)' /\ WideningsNoted(d)' /\ Copy(d, cached[d])'
        BY <1>1, <1>4 DEF SessionInv, PageCoversFrames, WideningsNoted, Copy
  <2>2. Busy(d)'
        BY <1>1, <1>2 DEF SessionInv, Busy
  <2>3. Copy(d, reading[d])'
        BY <1>2, <1>4, <1>5 DEF SessionInv, Copy
  <2> QED BY <2>1, <2>2, <2>3 DEF SessionInv
<1> QED BY <1>1, <1>3, <1>4, <1>6

(***************************************************************************)
(* What is put into the cache has stayed good while it was read.           *)
(***************************************************************************)
LEMMA PutIInv ==
    ASSUME IInv, NEW b \in Backend, put(b)
    PROVE  IInv' /\ \A d \in Backend : Settled(d)' = Settled(d)
<1> USE DEF IInv
<1>1. UNCHANGED <<page, committed, tx, ended, current, pending>>
      BY DEF put
<1>2. /\ reading'[b] = NotCached /\ cached'[b] = reading[b]
      /\ \A d \in Backend : d # b => reading'[d] = reading[d] /\ cached'[d] = cached[d]
      BY DEF TypeOK, put
<1>3. TypeOK'
      BY <1>1 DEF TypeOK, put
<1>4. \A d \in Backend : Settled(d)' = Settled(d)
      BY <1>1 DEF Settled, Accepted, Written, Unsent
<1>5. ASSUME NEW d \in Backend PROVE SessionInv(d)'
  <2>1. Busy(d)' /\ PageCoversFrames(d)' /\ WideningsNoted(d)'
        BY <1>1, <1>2 DEF SessionInv, Busy, PageCoversFrames, WideningsNoted
  <2>2. Copy(d, cached[d])' /\ Copy(d, reading[d])'
        BY <1>2, <1>4 DEF SessionInv, Copy
  <2> QED BY <2>1, <2>2 DEF SessionInv
<1> QED BY <1>1, <1>3, <1>4, <1>5

(***************************************************************************)
(* A row that is gone settles nothing.                                     *)
(***************************************************************************)
LEMMA VacuumIInv ==
    ASSUME IInv, NEW row \in Row, Vacuum(row)
    PROVE  IInv' /\ \A d \in Backend : Settled(d)' \subseteq Settled(d)
<1> USE DEF IInv
<1>1. /\ committed' \subseteq committed
      /\ UNCHANGED <<page, tx, ended, current, pending, reading, cached>>
      BY DEF Vacuum
<1>2. TypeOK'
      BY <1>1 DEF TypeOK
<1>3. Unsent' = Unsent
      BY <1>1 DEF Unsent
<1>4. \A d \in Backend : Settled(d)' \subseteq Settled(d)
      BY <1>1, <1>3 DEF Settled, Accepted, Written
<1>5. ASSUME NEW d \in Backend PROVE SessionInv(d)'
  <2>1. Busy(d)' /\ PageCoversFrames(d)' /\ WideningsNoted(d)'
        BY <1>1 DEF SessionInv, Busy, PageCoversFrames, WideningsNoted
  <2>2. Copy(d, cached[d])' /\ Copy(d, reading[d])'
        BY <1>1, <1>4 DEF SessionInv, Copy
  <2> QED BY <2>1, <2>2 DEF SessionInv
<1> QED BY <1>1, <1>2, <1>4, <1>5

(***************************************************************************)
(* A rebuild may leave a narrower page behind: nobody is in a transaction, *)
(* and nobody has accepted its announcement yet.                           *)
(***************************************************************************)
LEMMA RebuildIInv ==
    ASSUME IInv, Rebuild
    PROVE  IInv' /\ \A d \in Backend : Settled(d)' \subseteq Settled(d)
<1> USE DEF IInv
<1>1. /\ \A d \in Backend : tx[d] = <<>>
      /\ page' \subseteq Key /\ \A row \in committed : row.key \in page'
      /\ pending' = [d \in Backend |-> TRUE]
      /\ UNCHANGED <<committed, tx, ended, current, reading, cached>>
      BY DEF Rebuild
<1>2. TypeOK'
      BY <1>1 DEF TypeOK
<1>3. \A d \in Backend : Settled(d)' = {}
      BY <1>1 DEF Settled, Accepted, Written
<1>4. ASSUME NEW d \in Backend PROVE SessionInv(d)'
  <2>1. Busy(d)' /\ PageCoversFrames(d)' /\ WideningsNoted(d)'
        BY <1>1 DEF SessionInv, Busy, PageCoversFrames, WideningsNoted
  <2>2. Copy(d, cached[d])' /\ Copy(d, reading[d])'
        BY <1>3 DEF Copy
  <2> QED BY <2>1, <2>2 DEF SessionInv
<1> QED BY <1>1, <1>2, <1>3, <1>4

LEMMA StutterIInv ==
    ASSUME IInv, UNCHANGED vars
    PROVE  IInv' /\ \A d \in Backend : Settled(d)' = Settled(d)
BY DEF IInv, vars, TypeOK, SessionInv, Busy, PageCoversFrames, WideningsNoted, Copy, Settled,
       Accepted, Written, Unsent

LEMMA StepIInv == IInv /\ [Next]_vars => IInv'
<1> SUFFICES ASSUME IInv, [Next]_vars PROVE IInv'
    OBVIOUS
<1>1. ASSUME NEW b \in Backend, Savepoint(b) PROVE IInv'
      BY <1>1, SavepointIInv
<1>2. ASSUME NEW b \in Backend, NEW k \in Key, widen_on_insert_covered(b, k) PROVE IInv'
      BY <1>2, InsertCoveredIInv
<1>3. ASSUME NEW b \in Backend, NEW k \in Key, widen_on_insert(b, k) PROVE IInv'
      BY <1>3, InsertWidensIInv
<1>4. ASSUME NEW b \in Backend, CommandEnd(b) PROVE IInv'
      BY <1>4, CommandEndIInv
<1>5. ASSUME NEW b \in Backend, Release(b) PROVE IInv'
      BY <1>5, ReleaseIInv
<1>6. ASSUME NEW b \in Backend, NEW left \in 0 .. MaxFrames, Rollback(b, left) PROVE IInv'
      BY <1>6, RollbackIInv
<1>7. ASSUME NEW b \in Backend, Commit(b) PROVE IInv'
      BY <1>7, CommitIInv
<1>8. ASSUME NEW b \in Backend, SendInvalidations(b) PROVE IInv'
      BY <1>8, SendIInv
<1>9. ASSUME NEW b \in Backend, AcceptInvalidations(b) PROVE IInv'
      BY <1>9, AcceptIInv
<1>10. ASSUME NEW b \in Backend, read_summary(b) PROVE IInv'
      BY <1>10, ReadIInv
<1>11. ASSUME NEW b \in Backend, put(b) PROVE IInv'
      BY <1>11, PutIInv
<1>12. ASSUME NEW row \in Row, Vacuum(row) PROVE IInv'
      BY <1>12, VacuumIInv
<1>13. CASE Rebuild
      BY <1>13, RebuildIInv
<1>14. CASE UNCHANGED vars
      BY <1>14, StutterIInv
<1> QED BY <1>1, <1>2, <1>3, <1>4, <1>5, <1>6, <1>7, <1>8, <1>9, <1>10, <1>11, <1>12, <1>13,
           <1>14 DEF Next

LEMMA AlwaysIInv == Spec => []IInv
<1>1. Init => IInv
      BY InitIInv
<1>2. IInv /\ [Next]_vars => IInv'
      BY StepIInv
<1> QED BY <1>1, <1>2, PTL DEF Spec

(***************************************************************************)
(* The state of module SummaryCoherence keeps its types: in particular a   *)
(* transaction that is visible and has not announced its widenings has no  *)
(* savepoint open.                                                         *)
(***************************************************************************)
THEOREM CoherenceTypeCorrect == Spec => []TypeOK
<1>1. IInv => TypeOK
      BY DEF IInv
<1> QED BY <1>1, AlwaysIInv, PTL

(***************************************************************************)
(* The cached copy of a session that has accepted what was sent to it      *)
(* covers every committed row that widened the summary (summary_cache.rs): *)
(* for any number of sessions, savepoints and keys.                        *)
(***************************************************************************)
THEOREM CacheAlwaysCoversWidened == Spec => []CacheCoversWidened
<1>1. IInv => CacheCoversWidened
  <2> SUFFICES ASSUME IInv, NEW b \in Backend, NEW row \in committed \ Unsent,
                      row.widened, ~pending[b], cached[b] # NotCached
               PROVE  row.key \in cached[b]
      BY DEF CacheCoversWidened, Uses
  <2>1. row \in Settled(b)
        BY DEF Settled, Accepted
  <2> QED BY <2>1 DEF IInv, SessionInv, Copy
<1> QED BY <1>1, AlwaysIInv, PTL

(***************************************************************************)
(* Between its commands a session finds the rows its transaction widened   *)
(* the summary with, in whatever savepoints, by way of its cached copy.    *)
(***************************************************************************)
THEOREM OwnRowsAlwaysVisible == Spec => []OwnRowsVisible
<1>1. IInv => OwnRowsVisible
  <2> SUFFICES ASSUME IInv, NEW b \in Backend, ~current[b], NEW row \in RowsOf(tx[b]),
                      row.widened, cached[b] # NotCached
               PROVE  row.key \in cached[b]
      BY DEF OwnRowsVisible, Uses
  <2>1. row \in Settled(b)
        BY RowsOfFrames DEF IInv, TypeOK, Settled, Written
  <2> QED BY <2>1 DEF IInv, SessionInv, Copy
<1> QED BY <1>1, AlwaysIInv, PTL

-----------------------------------------------------------------------------
(* The plans: module QueryPlanning.                                        *)

\* Rows announced before the session locked the partition, as far as they widened.
Heard(b) == {row \in heard[b] : row.widened}

\* A query's own, and these: what it has to find.
Wanted(b) == {row \in heard[b] \cup Written(b) : row.widened}

Covers(keys, rows) == \A row \in rows : row.key \in keys

\* What was heard is heard until the lock is released.
HeardWhileHeld(b) ==
    /\ held[b] = 0 => heard[b] = {}
    /\ \A row \in heard[b] : row.key \in page

\* A query runs inside a transaction, and between its commands.
QueryInTransaction(b) == query[b] # "none" => tx[b] # <<>> /\ ~ended[b] /\ ~current[b]

\* Every copy a plan may be made from covers what was heard.
CopiesCoverHeard(b) ==
    /\ cached[b] # NotCached => Covers(cached[b], Heard(b))
    /\ reading[b] # NotCached => Covers(reading[b], Heard(b))

\* A plan that may be reused is as good as one that is made now.
KeptInv(b) ==
    kept[b].valid /\ ~kept[b].crossed =>
        Covers(kept[b].keys, Settled(b)) /\ Covers(kept[b].keys, Heard(b))

\* A plan that is crossed while it is made finds the rows of this query, but is
\* not one to keep.
PlanInv(b) ==
    /\ query[b] = "evaluated" =>
           /\ Covers(plan[b].keys, Wanted(b))
           /\ ~plan[b].crossed => Covers(plan[b].keys, Settled(b))
    /\ query[b] = "planned" /\ ~plan[b].crossed => Covers(plan[b].keys, Wanted(b))

QueryInv(b) ==
    /\ HeardWhileHeld(b) /\ QueryInTransaction(b) /\ CopiesCoverHeard(b)
    /\ KeptInv(b) /\ PlanInv(b)

PlanIInv ==
    /\ IInv
    /\ QueryTypeOK
    /\ \A b \in Backend : QueryInv(b)

LEMMA QueryInitIInv == QueryInit => PlanIInv
<1> SUFFICES ASSUME QueryInit PROVE PlanIInv
    OBVIOUS
<1>1. IInv /\ Init
      BY InitIInv DEF QueryInit
<1>2. QueryTypeOK
  <2>1. NoPlan \in Plan
        BY DEF NoPlan, Plan
  <2>2. \A b \in Backend : tx[b] = <<>> /\ Len(tx[b]) = 0 /\ held[b] = 0
        BY <1>1, EmptySeq DEF Init, QueryInit
  <2> QED BY <2>1, <2>2 DEF QueryInit, QueryTypeOK
<1>3. ASSUME NEW b \in Backend PROVE QueryInv(b)
  <2>1. /\ query[b] = "none" /\ heard[b] = {} /\ ~kept[b].valid
        /\ cached[b] = NotCached /\ reading[b] = NotCached
        BY <1>1 DEF QueryInit, Init, NoPlan
  <2> QED BY <2>1 DEF QueryInv, HeardWhileHeld, QueryInTransaction, CopiesCoverHeard, KeptInv, PlanInv
<1> QED BY <1>1, <1>2, <1>3 DEF PlanIInv

\* Nothing of session d changes, but perhaps what it has accepted.
SameSession(d) ==
    /\ tx'[d] = tx[d] /\ ended'[d] = ended[d] /\ current'[d] = current[d]
    /\ reading'[d] = reading[d] /\ cached'[d] = cached[d]
    /\ query'[d] = query[d] /\ held'[d] = held[d] /\ plan'[d] = plan[d]
    /\ kept'[d] = kept[d] /\ heard'[d] = heard[d]

(***************************************************************************)
(* What other sessions do leaves the plans of a session as good as they    *)
(* were: it has nothing more to find until it accepts an announcement.     *)
(***************************************************************************)
LEMMA OtherSessions ==
    ASSUME NEW d \in Backend, QueryInv(d), SameSession(d), page \subseteq page',
           Settled(d)' \subseteq Settled(d)
    PROVE  QueryInv(d)'
<1>1. Wanted(d)' = Wanted(d) /\ Heard(d)' = Heard(d)
      BY DEF SameSession, Wanted, Heard, Written
<1>2. HeardWhileHeld(d)' /\ QueryInTransaction(d)'
      BY DEF SameSession, QueryInv, HeardWhileHeld, QueryInTransaction
<1>3. CopiesCoverHeard(d)'
      BY <1>1 DEF SameSession, QueryInv, CopiesCoverHeard, Covers
<1>4. KeptInv(d)'
      BY <1>1 DEF SameSession, QueryInv, KeptInv, Covers
<1>5. PlanInv(d)'
      BY <1>1 DEF SameSession, QueryInv, PlanInv, Covers
<1> QED BY <1>2, <1>3, <1>4, <1>5 DEF QueryInv

(***************************************************************************)
(* A session that is not planning is as it was when its own plan is out of *)
(* use and it has no more to find.                                         *)
(***************************************************************************)
LEMMA NotPlanning ==
    ASSUME NEW b \in Backend, QueryInv(b), query'[b] = "none",
           held'[b] = 0 => heard'[b] = {}, heard'[b] \subseteq heard[b],
           page \subseteq page', Settled(b)' \subseteq Settled(b),
           cached'[b] = cached[b] \/ cached'[b] = NotCached,
           reading'[b] = reading[b] \/ reading'[b] = NotCached,
           kept'[b] = kept[b] \/ kept'[b] = NoPlan
    PROVE  QueryInv(b)'
<1>1. Heard(b)' \subseteq Heard(b)
      BY DEF Heard
<1>2. HeardWhileHeld(b)' /\ QueryInTransaction(b)' /\ PlanInv(b)'
      BY DEF QueryInv, HeardWhileHeld, QueryInTransaction, PlanInv
<1>3. CopiesCoverHeard(b)'
      BY <1>1 DEF QueryInv, CopiesCoverHeard, Covers
<1>4. KeptInv(b)'
      BY <1>1 DEF QueryInv, KeptInv, Covers, NoPlan
<1> QED BY <1>2, <1>3, <1>4 DEF QueryInv

LEMMA StartPlan ==
    ASSUME PlanIInv, NEW b \in Backend, Start(b)
    PROVE  PlanIInv'
<1> USE DEF PlanIInv
<1>1. IInv' /\ \A d \in Backend : Settled(d)' \subseteq Settled(d)
      BY SavepointIInv DEF Start
<1>2. /\ query[b] = "none" /\ page' = page /\ tx[b] \in Seq(Frame)
      /\ tx' = [tx EXCEPT ![b] = Append(@, NoRows)]
      /\ UNCHANGED <<ended, current, reading, cached, query, snapshot, held, plan, kept, heard>>
      BY DEF IInv, TypeOK, Start, Savepoint
<1>3. \A d \in Backend : d # b => tx'[d] = tx[d]
      BY <1>2 DEF IInv, TypeOK
<1>4. QueryTypeOK'
  <2>1. Len(tx'[b]) = Len(tx[b]) + 1 /\ Len(tx[b]) \in Nat
        BY <1>1, <1>2 DEF IInv, TypeOK
  <2>2. \A d \in Backend : held'[d] <= Len(tx'[d])
        BY <1>2, <1>3, <2>1 DEF QueryTypeOK
  <2>3. repeatable' \in [Backend -> BOOLEAN]
        BY DEF QueryTypeOK, Start
  <2> QED BY <1>2, <2>2, <2>3 DEF QueryTypeOK
<1>5. QueryInv(b)'
      BY <1>1, <1>2, NotPlanning DEF QueryInv, HeardWhileHeld
<1>6. \A d \in Backend : d # b => QueryInv(d)'
      BY <1>1, <1>2, <1>3, OtherSessions DEF SameSession
<1> QED BY <1>1, <1>4, <1>5, <1>6

LEMMA InsertPlan ==
    ASSUME PlanIInv, NEW b \in Backend, InsertRow(b)
    PROVE  PlanIInv'
<1> USE DEF PlanIInv
<1>1. PICK k \in Key : widen_on_insert_covered(b, k) \/ widen_on_insert(b, k)
      BY DEF InsertRow
<1>2. IInv' /\ \A d \in Backend : Settled(d)' \subseteq Settled(d)
      BY <1>1, InsertCoveredIInv, InsertWidensIInv
<1>3. query[b] = "none" /\ UNCHANGED queryVars
      BY DEF InsertRow
<1>4. /\ page \subseteq page' /\ tx[b] # <<>>
      /\ \E row \in Row : AddRow(b, row)
      /\ UNCHANGED <<ended, reading, cached>>
      /\ \A d \in Backend : d # b => current'[d] = current[d]
      BY <1>1 DEF IInv, TypeOK, widen_on_insert_covered, widen_on_insert, CanInsert, note_widened, Row
<1>5. PICK row \in Row : AddRow(b, row)
      BY <1>4
<1>6. AddedTo(b, row)
      BY <1>4, <1>5, AddRowFrames DEF IInv
<1>7. Len(tx'[b]) = Len(tx[b]) /\ \A d \in Backend : d # b => tx'[d] = tx[d]
      BY <1>6 DEF AddedTo
<1>8. QueryTypeOK'
      BY <1>3, <1>7 DEF QueryTypeOK, queryVars
<1>9. QueryInv(b)'
      BY <1>2, <1>3, <1>4, NotPlanning DEF QueryInv, HeardWhileHeld, queryVars
<1>10. \A d \in Backend : d # b => QueryInv(d)'
      BY <1>2, <1>3, <1>4, <1>7, OtherSessions DEF SameSession, queryVars
<1> QED BY <1>2, <1>8, <1>9, <1>10

(***************************************************************************)
(* The session's own messages drop its kept plan with its cached copy.     *)
(***************************************************************************)
LEMMA EndCommandPlan ==
    ASSUME PlanIInv, NEW b \in Backend, EndCommand(b)
    PROVE  PlanIInv'
<1> USE DEF PlanIInv
<1>1. IInv' /\ \A d \in Backend : d # b => Settled(d)' \subseteq Settled(d)
      BY CommandEndIInv DEF EndCommand
<1>2. /\ current[b] /\ reading[b] = NotCached
      /\ UNCHANGED <<page, committed, ended, pending, reading>>
      /\ UNCHANGED <<query, repeatable, snapshot, held, plan, heard>>
      BY DEF EndCommand, CommandEnd, IInv, SessionInv, Busy
<1>3. /\ cached'[b] = NotCached /\ kept'[b] = NoPlan
      /\ \A d \in Backend : d # b =>
             /\ tx'[d] = tx[d] /\ current'[d] = current[d]
             /\ cached'[d] = cached[d] /\ kept'[d] = kept[d]
      BY DEF IInv, TypeOK, QueryTypeOK, EndCommand, CommandEnd, relcache_callback, heap_invalidated
<1>4. Len(tx'[b]) = Len(tx[b])
  <2>1. tx'[b] = [tx[b] EXCEPT ![Len(tx[b])].noted = TRUE] /\ tx[b] \in Seq(Frame) /\ tx'[b] \in Seq(Frame)
        BY <1>1 DEF IInv, TypeOK, EndCommand, CommandEnd
  <2>2. DOMAIN tx'[b] = DOMAIN tx[b]
        BY <2>1
  <2> QED BY <2>1, <2>2, LenProperties
<1>5. QueryTypeOK'
  <2>1. kept' \in [Backend -> Plan]
        BY DEF QueryTypeOK, EndCommand, heap_invalidated, NoPlan, Plan
  <2>2. \A d \in Backend : held'[d] <= Len(tx'[d])
        BY <1>2, <1>3, <1>4 DEF QueryTypeOK
  <2> QED BY <1>2, <2>1, <2>2 DEF QueryTypeOK
<1>6. QueryInv(b)'
  <2>1. query'[b] = "none" /\ reading'[b] = NotCached /\ ~kept'[b].valid
        BY <1>2, <1>3 DEF QueryInv, QueryInTransaction, NoPlan
  <2>2. HeardWhileHeld(b)' /\ QueryInTransaction(b)' /\ PlanInv(b)'
        BY <1>2, <2>1 DEF QueryInv, HeardWhileHeld, QueryInTransaction, PlanInv
  <2>3. CopiesCoverHeard(b)' /\ KeptInv(b)'
        BY <1>3, <2>1 DEF CopiesCoverHeard, KeptInv
  <2> QED BY <2>2, <2>3 DEF QueryInv
<1>7. \A d \in Backend : d # b => QueryInv(d)'
      BY <1>1, <1>2, <1>3, OtherSessions DEF SameSession
<1> QED BY <1>1, <1>5, <1>6, <1>7

LEMMA ReleasePlan ==
    ASSUME PlanIInv, NEW b \in Backend, ReleaseSavepoint(b)
    PROVE  PlanIInv'
<1> USE DEF PlanIInv
<1>1. IInv' /\ \A d \in Backend : Settled(d)' \subseteq Settled(d)
      BY ReleaseIInv DEF ReleaseSavepoint
<1>2. /\ query[b] = "none" /\ tx[b] \in Seq(Frame) /\ Len(tx[b]) > 1
      /\ held' = [held EXCEPT ![b] = IF @ = Len(tx[b]) THEN @ - 1 ELSE @]
      /\ UNCHANGED <<page, ended, current, reading, cached, query, repeatable, snapshot, plan, kept, heard>>
      BY DEF IInv, TypeOK, ReleaseSavepoint, Release
<1>3. \A d \in Backend : d # b => tx'[d] = tx[d] /\ held'[d] = held[d]
      BY <1>2 DEF IInv, TypeOK, QueryTypeOK, ReleaseSavepoint, Release
<1>4. Len(tx'[b]) = Len(tx[b]) - 1 /\ Len(tx[b]) \in Nat
  <2>1. tx'[b] = Append(Front(Front(tx[b])), Merged(<<Last(Front(tx[b])), Last(tx[b])>>))
        BY DEF IInv, TypeOK, ReleaseSavepoint, Release
  <2>2. Front(tx[b]) = SubSeq(tx[b], 1, Len(tx[b]) - 1)
        BY DEF Front
  <2>3. Front(tx[b]) \in Seq(Frame) /\ Len(Front(tx[b])) = Len(tx[b]) - 1
        BY <1>2, <2>2, SubSeqProperties, LenProperties
  <2>4. Front(Front(tx[b])) = SubSeq(Front(tx[b]), 1, Len(tx[b]) - 2)
        BY <1>2, <2>3, LenProperties DEF Front
  <2>5. Front(Front(tx[b])) \in Seq(Frame) /\ Len(Front(Front(tx[b]))) = Len(tx[b]) - 2
        BY <1>2, <2>3, <2>4, SubSeqProperties, LenProperties
  <2> QED BY <1>2, <2>1, <2>5, LenProperties
<1>5. held'[b] \in Nat /\ held'[b] <= Len(tx'[b]) /\ (held'[b] = 0 => held[b] = 0)
      BY <1>2, <1>4 DEF QueryTypeOK
<1>6. QueryTypeOK'
  <2>1. held' \in [Backend -> Nat]
        BY <1>2, <1>3, <1>5 DEF QueryTypeOK
  <2> QED BY <1>2, <1>3, <1>5, <2>1 DEF QueryTypeOK
<1>7. QueryInv(b)'
      BY <1>1, <1>2, <1>5, NotPlanning DEF QueryInv, HeardWhileHeld
<1>8. \A d \in Backend : d # b => QueryInv(d)'
      BY <1>1, <1>2, <1>3, OtherSessions DEF SameSession
<1> QED BY <1>1, <1>6, <1>7, <1>8

(***************************************************************************)
(* A rollback releases the locks taken since the savepoint, and with the   *)
(* lock what was heard under it; a kept plan outlives it, unless messages  *)
(* of this session's are rolled back.                                      *)
(***************************************************************************)
LEMMA AbortPlan ==
    ASSUME PlanIInv, NEW b \in Backend, NEW left \in 0 .. MaxFrames, Abort(b, left)
    PROVE  PlanIInv'
<1> USE DEF PlanIInv
<1>1. IInv' /\ \A d \in Backend : Settled(d)' \subseteq Settled(d)
      BY RollbackIInv DEF Abort
<1>2. /\ tx[b] \in Seq(Frame) /\ Len(tx[b]) \in Nat /\ left \in Nat /\ left < Len(tx[b])
      /\ tx' = [tx EXCEPT ![b] = SubSeq(@, 1, left)]
      /\ UNCHANGED <<page, ended>>
      BY CoherenceAssumption, LenProperties DEF IInv, TypeOK, Abort, Rollback
<1>3. /\ query'[b] = "none" /\ reading'[b] = NotCached
      /\ cached'[b] = cached[b] \/ cached'[b] = NotCached
      /\ kept'[b] = kept[b] \/ kept'[b] = NoPlan
      /\ held'[b] = IF held[b] > left THEN 0 ELSE held[b]
      /\ heard'[b] = IF held[b] > left THEN {} ELSE heard[b]
      BY DEF IInv, TypeOK, QueryTypeOK, Abort, Rollback, Done, Unlocked, relcache_callback,
             heap_invalidated
<1>4. \A d \in Backend : d # b => SameSession(d)
      BY <1>2 DEF IInv, TypeOK, QueryTypeOK, Abort, Rollback, Done, Unlocked, relcache_callback,
             heap_invalidated, SameSession
<1>5. held'[b] <= Len(tx'[b])
  <2>1. Len(tx'[b]) = left
        BY <1>2, SubSeqProperties, LenProperties DEF IInv, TypeOK
  <2> QED BY <1>2, <1>3, <2>1 DEF QueryTypeOK
<1>6. QueryTypeOK'
  <2>1. \A d \in Backend : held'[d] <= Len(tx'[d])
        BY <1>4, <1>5 DEF QueryTypeOK, SameSession
  <2>2. kept' \in [Backend -> Plan] /\ plan' \in [Backend -> Plan]
    <3>1. NoPlan \in Plan
          BY DEF NoPlan, Plan
    <3>2. kept' = kept \/ kept' = [kept EXCEPT ![b] = NoPlan]
          BY DEF Abort, heap_invalidated
    <3> QED BY <3>1, <3>2 DEF QueryTypeOK, Abort, Done
  <2>3. /\ query' \in [Backend -> {"none", "parsed", "locked", "evaluated", "planned"}]
        /\ repeatable' \in [Backend -> BOOLEAN]
        BY <1>2 DEF QueryTypeOK, Abort, Done
  <2>4. snapshot' \in [Backend -> {NoSnapshot} \cup SUBSET Row]
        BY DEF QueryTypeOK, Abort
  <2>5. held' \in [Backend -> Nat] /\ heard' \in [Backend -> SUBSET Row]
        BY DEF QueryTypeOK, Abort, Unlocked
  <2> QED BY <2>1, <2>2, <2>3, <2>4, <2>5 DEF QueryTypeOK
<1>7. QueryInv(b)'
      BY <1>1, <1>2, <1>3, NotPlanning DEF QueryInv, HeardWhileHeld
<1>8. \A d \in Backend : d # b => QueryInv(d)'
      BY <1>1, <1>2, <1>4, OtherSessions
<1> QED BY <1>1, <1>6, <1>7, <1>8

LEMMA CommitPlan ==
    ASSUME PlanIInv, NEW b \in Backend, CommitTransaction(b)
    PROVE  PlanIInv'
<1> USE DEF PlanIInv
<1>1. IInv' /\ \A d \in Backend : Settled(d)' \subseteq Settled(d)
      BY CommitIInv DEF CommitTransaction
<1>2. /\ query[b] = "none" /\ page' = page
      /\ tx' = [tx EXCEPT ![b] = <<Merged(@)>>]
      /\ ended' = [ended EXCEPT ![b] = TRUE]
      /\ held' = [held EXCEPT ![b] = IF @ > 0 THEN 1 ELSE 0]
      /\ UNCHANGED <<current, reading, cached, query, plan, kept, heard>>
      BY DEF CommitTransaction, Commit
<1>3. \A d \in Backend : d # b => SameSession(d)
      BY <1>2 DEF IInv, TypeOK, QueryTypeOK, SameSession
<1>4. held'[b] \in Nat /\ held'[b] <= Len(tx'[b]) /\ (held'[b] = 0 => held[b] = 0)
  <2>1. Len(tx'[b]) = 1
        BY <1>2 DEF IInv, TypeOK
  <2> QED BY <1>2, <2>1 DEF QueryTypeOK
<1>5. QueryTypeOK'
  <2>1. \A d \in Backend : held'[d] <= Len(tx'[d])
        BY <1>3, <1>4 DEF QueryTypeOK, SameSession
  <2>2. /\ held' \in [Backend -> Nat]
        /\ snapshot' \in [Backend -> {NoSnapshot} \cup SUBSET Row]
        /\ repeatable' \in [Backend -> BOOLEAN]
        BY <1>2, <1>4 DEF QueryTypeOK, CommitTransaction
  <2> QED BY <1>2, <2>1, <2>2 DEF QueryTypeOK
<1>6. QueryInv(b)'
      BY <1>1, <1>2, <1>4, NotPlanning DEF QueryInv, HeardWhileHeld
<1>7. \A d \in Backend : d # b => QueryInv(d)'
      BY <1>1, <1>2, <1>3, OtherSessions
<1> QED BY <1>1, <1>5, <1>6, <1>7

LEMMA EndTransactionPlan ==
    ASSUME PlanIInv, NEW b \in Backend, EndTransaction(b)
    PROVE  PlanIInv'
<1> USE DEF PlanIInv
<1>1. IInv' /\ \A d \in Backend : Settled(d)' \subseteq Settled(d)
      BY SendIInv DEF EndTransaction
<1>2. /\ ended[b] /\ page' = page
      /\ tx' = [tx EXCEPT ![b] = <<>>]
      /\ ended' = [ended EXCEPT ![b] = FALSE]
      /\ held' = [held EXCEPT ![b] = IF @ > 0 THEN 0 ELSE @]
      /\ heard' = [heard EXCEPT ![b] = IF held[b] > 0 THEN {} ELSE @]
      /\ UNCHANGED <<current, reading, cached, query, repeatable, snapshot, plan, kept>>
      BY DEF EndTransaction, SendInvalidations, Unlocked
<1>3. \A d \in Backend : d # b => SameSession(d)
      BY <1>2 DEF IInv, TypeOK, QueryTypeOK, SameSession
<1>4. query'[b] = "none" /\ held'[b] = 0 /\ heard'[b] = {} /\ Len(tx'[b]) = 0
      BY <1>2, EmptySeq DEF IInv, TypeOK, QueryTypeOK, QueryInv, QueryInTransaction, HeardWhileHeld
<1>5. QueryTypeOK'
  <2>1. \A d \in Backend : held'[d] <= Len(tx'[d])
        BY <1>3, <1>4 DEF QueryTypeOK, SameSession
  <2>2. held' \in [Backend -> Nat] /\ heard' \in [Backend -> SUBSET Row]
        BY <1>2 DEF QueryTypeOK
  <2> QED BY <1>2, <2>1, <2>2 DEF QueryTypeOK
<1>6. QueryInv(b)'
      BY <1>1, <1>2, <1>4, NotPlanning
<1>7. \A d \in Backend : d # b => QueryInv(d)'
      BY <1>1, <1>2, <1>3, OtherSessions
<1> QED BY <1>1, <1>5, <1>6, <1>7

(***************************************************************************)
(* An announcement drops the copies and the kept plan; a plan that has     *)
(* been decided on is crossed by it, and goes on covering what it did.     *)
(***************************************************************************)
LEMMA AcceptPlan ==
    ASSUME PlanIInv, NEW b \in Backend, Accept(b)
    PROVE  PlanIInv'
<1> USE DEF PlanIInv
<1>1. IInv' /\ \A d \in Backend : d # b => Settled(d)' \subseteq Settled(d)
      BY AcceptIInv DEF Accept
<1>2. /\ reading[b] = NotCached
      /\ UNCHANGED <<page, committed, tx, ended, current, reading>>
      /\ UNCHANGED <<query, repeatable, snapshot, held, heard>>
      BY DEF Accept, AcceptInvalidations
<1>3. /\ cached'[b] = NotCached /\ ~kept'[b].valid
      /\ plan'[b].keys = plan[b].keys
      /\ query[b] = "evaluated" => plan'[b].crossed
      /\ query[b] # "evaluated" => plan'[b].crossed = plan[b].crossed
      BY DEF IInv, TypeOK, QueryTypeOK, Plan, NoPlan, Accept, AcceptInvalidations, relcache_callback,
             heap_invalidated
<1>4. \A d \in Backend : d # b => SameSession(d)
      BY <1>2 DEF IInv, TypeOK, QueryTypeOK, Accept, AcceptInvalidations, relcache_callback,
             heap_invalidated, SameSession
<1>5. QueryTypeOK'
  <2>1. kept' \in [Backend -> Plan]
        BY DEF QueryTypeOK, Accept, heap_invalidated, NoPlan, Plan
  <2>2. [plan[b] EXCEPT !.crossed = @ \/ query[b] = "evaluated"] \in Plan
        BY DEF QueryTypeOK, Plan
  <2>3. plan' \in [Backend -> Plan]
        BY <2>2 DEF QueryTypeOK, Accept
  <2> QED BY <1>2, <2>1, <2>3 DEF QueryTypeOK
<1>6. QueryInv(b)'
  <2>1. Wanted(b)' = Wanted(b)
        BY <1>2 DEF Wanted, Written
  <2>2. HeardWhileHeld(b)' /\ QueryInTransaction(b)'
        BY <1>2 DEF QueryInv, HeardWhileHeld, QueryInTransaction
  <2>3. CopiesCoverHeard(b)' /\ KeptInv(b)'
        BY <1>2, <1>3 DEF CopiesCoverHeard, KeptInv
  <2>4. PlanInv(b)'
        BY <1>2, <1>3, <2>1 DEF QueryInv, PlanInv, Covers
  <2> QED BY <2>2, <2>3, <2>4 DEF QueryInv
<1>7. \A d \in Backend : d # b => QueryInv(d)'
      BY <1>1, <1>2, <1>4, OtherSessions
<1> QED BY <1>1, <1>5, <1>6, <1>7

LEMMA ElsewherePlan ==
    ASSUME PlanIInv, Elsewhere
    PROVE  PlanIInv'
<1> USE DEF PlanIInv
<1>1. IInv' /\ \A d \in Backend : Settled(d)' \subseteq Settled(d)
      BY VacuumIInv, RebuildIInv DEF Elsewhere
<1>2. UNCHANGED <<tx, ended, current, reading, cached>> /\ UNCHANGED queryVars
      BY DEF Elsewhere, Vacuum, Rebuild
<1>3. QueryTypeOK'
      BY <1>2 DEF QueryTypeOK, queryVars
<1>4. ASSUME NEW d \in Backend PROVE QueryInv(d)'
  <2>1. SameSession(d)
        BY <1>2 DEF SameSession, queryVars
  <2>2. CASE \E row \in Row : Vacuum(row)
        BY <1>1, <2>1, <2>2, OtherSessions DEF Vacuum
  <2>3. CASE Rebuild
    <3>1. tx[d] = <<>> /\ held[d] = 0
          BY <2>3, EmptySeq DEF Rebuild, QueryTypeOK
    <3>2. heard[d] = {} /\ query[d] = "none"
          BY <3>1 DEF QueryInv, HeardWhileHeld, QueryInTransaction
    <3>3. Heard(d)' = {} /\ Heard(d) = {}
          BY <2>1, <3>2 DEF SameSession, Heard
    <3>4. HeardWhileHeld(d)' /\ QueryInTransaction(d)' /\ PlanInv(d)'
          BY <2>1, <3>2 DEF SameSession, HeardWhileHeld, QueryInTransaction, PlanInv
    <3>5. CopiesCoverHeard(d)' /\ KeptInv(d)'
          BY <1>1, <2>1, <3>3 DEF SameSession, QueryInv, CopiesCoverHeard, KeptInv, Covers
    <3> QED BY <3>4, <3>5 DEF QueryInv
  <2> QED BY <2>2, <2>3 DEF Elsewhere
<1> QED BY <1>1, <1>3, <1>4

-----------------------------------------------------------------------------
(* A query, from its snapshot to its end.                                  *)

\* A step of a query of session b that touches no module state.
LEMMA PlanningStep ==
    ASSUME PlanIInv, NEW b \in Backend, UNCHANGED vars,
           \A d \in Backend : d # b =>
               /\ query'[d] = query[d] /\ held'[d] = held[d] /\ plan'[d] = plan[d]
               /\ kept'[d] = kept[d] /\ heard'[d] = heard[d]
    PROVE  /\ IInv' /\ Settled(b)' = Settled(b)
           /\ \A d \in Backend : d # b => QueryInv(d)'
<1>1. IInv' /\ \A d \in Backend : Settled(d)' = Settled(d)
      BY StutterIInv DEF PlanIInv
<1>2. \A d \in Backend : d # b => SameSession(d)
      BY DEF SameSession, vars
<1> QED BY <1>1, <1>2, OtherSessions DEF PlanIInv, vars

LEMMA ParsePlan ==
    ASSUME PlanIInv, NEW b \in Backend, Parse(b)
    PROVE  PlanIInv'
<1> USE DEF PlanIInv
<1>1. /\ query'[b] = "parsed" /\ tx[b] # <<>> /\ ~ended[b] /\ ~current[b]
      /\ UNCHANGED vars /\ UNCHANGED <<repeatable, held, plan, kept, heard>>
      /\ \A d \in Backend : d # b => query'[d] = query[d]
      BY DEF QueryTypeOK, Parse, Ready
<1>2. IInv' /\ Settled(b)' = Settled(b) /\ \A d \in Backend : d # b => QueryInv(d)'
      BY <1>1, PlanningStep
<1>3. QueryTypeOK'
  <2>1. committed \subseteq Row
        BY DEF IInv, TypeOK
  <2>2. snapshot' \in [Backend -> {NoSnapshot} \cup SUBSET Row]
        BY <2>1 DEF QueryTypeOK, Parse
  <2>3. query' \in [Backend -> {"none", "parsed", "locked", "evaluated", "planned"}]
        BY DEF QueryTypeOK, Parse
  <2> QED BY <1>1, <2>2, <2>3 DEF QueryTypeOK, vars
<1>4. QueryInv(b)'
      BY <1>1, <1>2 DEF QueryInv, HeardWhileHeld, QueryInTransaction, CopiesCoverHeard, KeptInv,
         PlanInv, Covers, Heard, vars
<1> QED BY <1>2, <1>3, <1>4

LEMMA LockHeldPlan ==
    ASSUME PlanIInv, NEW b \in Backend, LockHeld(b)
    PROVE  PlanIInv'
<1> USE DEF PlanIInv
<1>1. /\ query'[b] = "locked" /\ query[b] # "none"
      /\ UNCHANGED vars /\ UNCHANGED <<repeatable, snapshot, held, plan, kept, heard>>
      /\ \A d \in Backend : d # b => query'[d] = query[d]
      BY DEF QueryTypeOK, LockHeld
<1>2. IInv' /\ Settled(b)' = Settled(b) /\ \A d \in Backend : d # b => QueryInv(d)'
      BY <1>1, PlanningStep
<1>3. QueryTypeOK'
      BY <1>1 DEF QueryTypeOK, LockHeld, vars
<1>4. QueryInv(b)'
      BY <1>1, <1>2 DEF QueryInv, HeardWhileHeld, QueryInTransaction, CopiesCoverHeard, KeptInv,
         PlanInv, Covers, Heard, vars
<1> QED BY <1>2, <1>3, <1>4

(***************************************************************************)
(* A new lock: what has been announced by now is heard.  The session       *)
(* accepts it, and has no copy; or it had accepted it all before, and any  *)
(* copy and kept plan of it covers that.                                   *)
(***************************************************************************)
LEMMA LockPlan ==
    ASSUME PlanIInv, NEW b \in Backend, Lock(b)
    PROVE  PlanIInv'
<1> USE DEF PlanIInv
<1>1. /\ query[b] = "parsed" /\ query'[b] = "locked" /\ held[b] = 0
      /\ held'[b] = Len(tx[b]) /\ heard'[b] = Announced
      /\ UNCHANGED <<page, committed, tx, ended, current, reading>>
      /\ UNCHANGED <<repeatable, snapshot, plan>>
      BY DEF QueryTypeOK, Lock, AcceptInvalidations, vars
<1>2. tx[b] \in Seq(Frame) /\ tx[b] # <<>> /\ Len(tx[b]) \in Nat \ {0}
      BY <1>1, EmptySeq, LenProperties DEF IInv, TypeOK, QueryInv, QueryInTransaction
<1>3. \A d \in Backend : d # b => SameSession(d)
      BY <1>1 DEF IInv, TypeOK, QueryTypeOK, Lock, AcceptInvalidations, relcache_callback,
                  heap_invalidated, SameSession, vars
<1>4. IInv' /\ \A d \in Backend : d # b => Settled(d)' \subseteq Settled(d)
  <2>1. CASE pending[b]
        BY <2>1, AcceptIInv DEF Lock
  <2>2. CASE ~pending[b]
        BY <2>2, StutterIInv DEF Lock
  <2> QED BY <2>1, <2>2
<1>5. QueryTypeOK'
  <2>1. kept' \in [Backend -> Plan]
    <3>1. NoPlan \in Plan
          BY DEF NoPlan, Plan
    <3> QED BY <3>1 DEF QueryTypeOK, Lock, heap_invalidated
  <2>2. Announced \subseteq Row
        BY DEF IInv, TypeOK, Announced
  <2>3. held' \in [Backend -> Nat] /\ heard' \in [Backend -> SUBSET Row]
        BY <1>2, <2>2 DEF QueryTypeOK, Lock
  <2>4. \A d \in Backend : held'[d] <= Len(tx'[d])
        BY <1>1, <1>2, <1>3 DEF QueryTypeOK, SameSession
  <2>5. query' \in [Backend -> {"none", "parsed", "locked", "evaluated", "planned"}]
        BY DEF QueryTypeOK, Lock
  <2> QED BY <1>1, <2>1, <2>3, <2>4, <2>5 DEF QueryTypeOK
<1>6. QueryInv(b)'
  <2>1. HeardWhileHeld(b)' /\ QueryInTransaction(b)' /\ PlanInv(b)'
        BY <1>1, <1>2 DEF IInv, Announced, QueryInv, HeardWhileHeld, QueryInTransaction, PlanInv
  <2>2. CASE pending[b]
    <3>1. reading'[b] = NotCached /\ cached'[b] = NotCached /\ ~kept'[b].valid
          BY <2>2 DEF IInv, TypeOK, QueryTypeOK, Lock, AcceptInvalidations, relcache_callback,
                      heap_invalidated, NoPlan
    <3> QED BY <2>1, <3>1 DEF QueryInv, CopiesCoverHeard, KeptInv
  <2>3. CASE ~pending[b]
    <3>1. UNCHANGED vars /\ UNCHANGED kept
          BY <2>3 DEF Lock
    <3>2. Settled(b)' = Settled(b)
          BY <3>1, StutterIInv
    <3>3. Heard(b)' \subseteq Settled(b)
          BY <1>1, <2>3 DEF Heard, Settled, Accepted, Announced
    <3>4. CopiesCoverHeard(b)'
          BY <3>1, <3>3 DEF IInv, SessionInv, Copy, CopiesCoverHeard, Covers, vars
    <3>5. KeptInv(b)'
          BY <3>1, <3>2, <3>3 DEF QueryInv, KeptInv, Covers
    <3> QED BY <2>1, <3>4, <3>5 DEF QueryInv
  <2> QED BY <2>2, <2>3
<1>7. \A d \in Backend : d # b => QueryInv(d)'
      BY <1>1, <1>3, <1>4, OtherSessions
<1> QED BY <1>4, <1>5, <1>6, <1>7

LEMMA MissPlan ==
    ASSUME PlanIInv, NEW b \in Backend, Miss(b)
    PROVE  PlanIInv'
<1> USE DEF PlanIInv
<1>1. IInv' /\ \A d \in Backend : Settled(d)' = Settled(d)
      BY ReadIInv DEF Miss
<1>2. /\ query[b] = "locked" /\ reading'[b] = page
      /\ UNCHANGED <<page, tx, ended, current, cached>> /\ UNCHANGED queryVars
      BY DEF IInv, TypeOK, Miss, read_summary
<1>3. \A d \in Backend : d # b => SameSession(d)
      BY <1>2 DEF IInv, TypeOK, Miss, read_summary, SameSession, queryVars
<1>4. QueryTypeOK'
      BY <1>2 DEF QueryTypeOK, queryVars
<1>5. QueryInv(b)'
  <2>1. HeardWhileHeld(b)' /\ QueryInTransaction(b)' /\ PlanInv(b)'
        BY <1>2 DEF QueryInv, HeardWhileHeld, QueryInTransaction, PlanInv, queryVars
  <2>2. Covers(page, Heard(b))
        BY DEF QueryInv, HeardWhileHeld, Heard, Covers
  <2>3. CopiesCoverHeard(b)' /\ KeptInv(b)'
        BY <1>1, <1>2, <2>2 DEF QueryInv, CopiesCoverHeard, KeptInv, Heard, Covers, queryVars
  <2> QED BY <2>1, <2>3 DEF QueryInv
<1>6. \A d \in Backend : d # b => QueryInv(d)'
      BY <1>1, <1>2, <1>3, OtherSessions
<1> QED BY <1>1, <1>4, <1>5, <1>6

(***************************************************************************)
(* A copy that covers what is settled and what was heard makes a plan that *)
(* does.                                                                   *)
(***************************************************************************)
LEMMA EvaluatedPlan ==
    ASSUME PlanIInv, IInv', NEW b \in Backend, NEW keys \in SUBSET Key, Evaluated(b, keys),
           QueryInTransaction(b), Covers(keys, Settled(b)), Covers(keys, Heard(b)),
           cached'[b] # NotCached => cached'[b] = cached[b] \/ cached'[b] = reading[b],
           reading'[b] # NotCached => reading'[b] = reading[b],
           UNCHANGED <<page, tx, ended, current>>, Settled(b)' = Settled(b)
    PROVE  QueryTypeOK' /\ QueryInv(b)'
<1> USE DEF PlanIInv
<1> DEFINE made == [keys |-> keys, valid |-> TRUE, crossed |-> FALSE]
<1>1. /\ query[b] = "locked" /\ query'[b] = "evaluated" /\ plan'[b] = made
      /\ UNCHANGED <<repeatable, snapshot, held, kept, heard>>
      BY DEF QueryTypeOK, Evaluated
<1>2. made \in Plan /\ made.keys = keys /\ ~made.crossed
      BY DEF Plan
<1>3. QueryTypeOK'
  <2>1. plan' \in [Backend -> Plan]
        BY <1>2 DEF QueryTypeOK, Evaluated
  <2>2. query' \in [Backend -> {"none", "parsed", "locked", "evaluated", "planned"}]
        BY DEF QueryTypeOK, Evaluated
  <2> QED BY <1>1, <2>1, <2>2 DEF QueryTypeOK
<1> HIDE DEF made
<1>4. HeardWhileHeld(b)' /\ QueryInTransaction(b)'
      BY <1>1 DEF QueryInv, HeardWhileHeld, QueryInTransaction
<1>5. CopiesCoverHeard(b)' /\ KeptInv(b)'
      BY <1>1 DEF QueryInv, CopiesCoverHeard, KeptInv, Heard, Covers
<1>6. Wanted(b)' \subseteq Heard(b) \cup Settled(b)
      BY <1>1 DEF Wanted, Written, Heard, Settled
<1>7. PlanInv(b)'
      BY <1>1, <1>2, <1>6 DEF PlanInv, Covers
<1> QED BY <1>3, <1>4, <1>5, <1>7 DEF QueryInv

LEMMA HitPlan ==
    ASSUME PlanIInv, NEW b \in Backend, read_index_summary_hit(b)
    PROVE  PlanIInv'
<1> USE DEF PlanIInv
<1>1. /\ cached[b] # NotCached /\ Evaluated(b, cached[b]) /\ UNCHANGED vars
      BY DEF read_index_summary_hit
<1>2. \A d \in Backend : d # b =>
          /\ query'[d] = query[d] /\ held'[d] = held[d] /\ plan'[d] = plan[d]
          /\ kept'[d] = kept[d] /\ heard'[d] = heard[d]
      BY <1>1 DEF QueryTypeOK, Evaluated
<1>3. IInv' /\ Settled(b)' = Settled(b) /\ \A d \in Backend : d # b => QueryInv(d)'
      BY <1>1, <1>2, PlanningStep
<1>4. /\ cached[b] \in SUBSET Key /\ QueryInTransaction(b)
      /\ Covers(cached[b], Settled(b)) /\ Covers(cached[b], Heard(b))
      BY <1>1 DEF IInv, TypeOK, SessionInv, Copy, QueryInv, CopiesCoverHeard, Covers
<1>5. QueryTypeOK' /\ QueryInv(b)'
      BY <1>1, <1>3, <1>4, EvaluatedPlan DEF vars
<1> QED BY <1>3, <1>5

LEMMA MissedPlan ==
    ASSUME PlanIInv, NEW b \in Backend, read_index_summary_miss(b)
    PROVE  PlanIInv'
<1> USE DEF PlanIInv
<1>1. IInv' /\ \A d \in Backend : Settled(d)' = Settled(d)
      BY PutIInv DEF read_index_summary_miss
<1>2. /\ reading[b] # NotCached /\ Evaluated(b, reading[b])
      /\ cached'[b] = reading[b] /\ reading'[b] = NotCached
      /\ UNCHANGED <<page, committed, tx, ended, current, pending>>
      BY DEF IInv, TypeOK, read_index_summary_miss, put
<1>3. \A d \in Backend : d # b => SameSession(d)
      BY DEF IInv, TypeOK, QueryTypeOK, read_index_summary_miss, put, Evaluated, SameSession
<1>4. /\ reading[b] \in SUBSET Key /\ QueryInTransaction(b)
      /\ Covers(reading[b], Settled(b)) /\ Covers(reading[b], Heard(b))
      BY <1>2 DEF IInv, TypeOK, SessionInv, Copy, QueryInv, CopiesCoverHeard, Covers
<1>5. QueryTypeOK' /\ QueryInv(b)'
      BY <1>1, <1>2, <1>4, EvaluatedPlan
<1>6. \A d \in Backend : d # b => QueryInv(d)'
      BY <1>1, <1>2, <1>3, OtherSessions
<1> QED BY <1>1, <1>5, <1>6

LEMMA PlannedPlan ==
    ASSUME PlanIInv, NEW b \in Backend, NEW keep \in BOOLEAN, Planned(b, keep)
    PROVE  PlanIInv'
<1> USE DEF PlanIInv
<1>1. /\ query[b] = "evaluated" /\ query'[b] = "planned"
      /\ UNCHANGED vars /\ UNCHANGED <<repeatable, snapshot, held, plan, heard>>
      /\ kept'[b] = kept[b] \/ kept'[b] = plan[b]
      BY DEF QueryTypeOK, Planned
<1>2. \A d \in Backend : d # b => query'[d] = query[d] /\ kept'[d] = kept[d]
      BY DEF QueryTypeOK, Planned
<1>3. IInv' /\ Settled(b)' = Settled(b) /\ \A d \in Backend : d # b => QueryInv(d)'
      BY <1>1, <1>2, PlanningStep
<1>4. QueryTypeOK'
      BY <1>1 DEF QueryTypeOK, Planned, vars
<1>5. QueryInv(b)'
  <2>1. HeardWhileHeld(b)' /\ QueryInTransaction(b)'
        BY <1>1 DEF QueryInv, HeardWhileHeld, QueryInTransaction, vars
  <2>2. Heard(b) \subseteq Wanted(b) /\ Heard(b)' = Heard(b) /\ Wanted(b)' = Wanted(b)
        BY <1>1 DEF Heard, Wanted, Written, vars
  <2>3. CopiesCoverHeard(b)' /\ PlanInv(b)'
        BY <1>1, <2>2 DEF QueryInv, CopiesCoverHeard, PlanInv, Covers, vars
  <2>4. KeptInv(b)'
        BY <1>1, <1>3, <2>2 DEF QueryInv, KeptInv, PlanInv, Covers
  <2> QED BY <2>1, <2>3, <2>4 DEF QueryInv
<1> QED BY <1>3, <1>4, <1>5

(***************************************************************************)
(* What is settled includes the session's own rows: a valid kept plan      *)
(* finds all a fresh one would have to.                                    *)
(***************************************************************************)
LEMMA ReusePlan ==
    ASSUME PlanIInv, NEW b \in Backend, Reuse(b)
    PROVE  PlanIInv'
<1> USE DEF PlanIInv
<1>1. /\ query[b] = "locked" /\ query'[b] = "planned" /\ kept[b].valid /\ plan'[b] = kept[b]
      /\ UNCHANGED vars /\ UNCHANGED <<repeatable, snapshot, held, kept, heard>>
      BY DEF QueryTypeOK, Reuse
<1>2. \A d \in Backend : d # b => query'[d] = query[d] /\ plan'[d] = plan[d]
      BY DEF QueryTypeOK, Reuse
<1>3. IInv' /\ Settled(b)' = Settled(b) /\ \A d \in Backend : d # b => QueryInv(d)'
      BY <1>1, <1>2, PlanningStep
<1>4. QueryTypeOK'
      BY <1>1 DEF QueryTypeOK, Reuse, vars
<1>5. QueryInv(b)'
  <2>1. HeardWhileHeld(b)' /\ QueryInTransaction(b)'
        BY <1>1 DEF QueryInv, HeardWhileHeld, QueryInTransaction, vars
  <2>2. Wanted(b)' \subseteq Heard(b) \cup Settled(b) /\ Heard(b)' = Heard(b)
        BY <1>1 DEF Heard, Wanted, Settled, Written, vars
  <2>3. CopiesCoverHeard(b)' /\ KeptInv(b)'
        BY <1>1, <1>3, <2>2 DEF QueryInv, CopiesCoverHeard, KeptInv, Covers, vars
  <2>4. PlanInv(b)'
        BY <1>1, <2>2 DEF QueryInv, KeptInv, PlanInv, Covers
  <2> QED BY <2>1, <2>3, <2>4 DEF QueryInv
<1> QED BY <1>3, <1>4, <1>5

LEMMA ExecutePlan ==
    ASSUME PlanIInv, NEW b \in Backend, Execute(b)
    PROVE  PlanIInv'
<1> USE DEF PlanIInv
<1>1. /\ query'[b] = "none"
      /\ UNCHANGED vars /\ UNCHANGED <<repeatable, snapshot, held, kept, heard>>
      BY DEF QueryTypeOK, Execute, Done
<1>2. \A d \in Backend : d # b => query'[d] = query[d] /\ plan'[d] = plan[d]
      BY DEF QueryTypeOK, Execute, Done
<1>3. IInv' /\ Settled(b)' = Settled(b) /\ \A d \in Backend : d # b => QueryInv(d)'
      BY <1>1, <1>2, PlanningStep
<1>4. QueryTypeOK'
  <2>1. NoPlan \in Plan
        BY DEF NoPlan, Plan
  <2> QED BY <1>1, <2>1 DEF QueryTypeOK, Execute, Done, vars
<1>5. QueryInv(b)'
      BY <1>1, <1>3, NotPlanning DEF QueryInv, HeardWhileHeld, vars
<1> QED BY <1>3, <1>4, <1>5

LEMMA StepPlanIInv == PlanIInv /\ [QueryNext]_allVars => PlanIInv'
<1> SUFFICES ASSUME PlanIInv, [QueryNext]_allVars PROVE PlanIInv'
    OBVIOUS
<1>1. ASSUME NEW b \in Backend, Start(b) PROVE PlanIInv'
      BY <1>1, StartPlan
<1>2. ASSUME NEW b \in Backend, InsertRow(b) PROVE PlanIInv'
      BY <1>2, InsertPlan
<1>3. ASSUME NEW b \in Backend, EndCommand(b) PROVE PlanIInv'
      BY <1>3, EndCommandPlan
<1>4. ASSUME NEW b \in Backend, ReleaseSavepoint(b) PROVE PlanIInv'
      BY <1>4, ReleasePlan
<1>5. ASSUME NEW b \in Backend, NEW left \in 0 .. MaxFrames, Abort(b, left) PROVE PlanIInv'
      BY <1>5, AbortPlan
<1>6. ASSUME NEW b \in Backend, CommitTransaction(b) PROVE PlanIInv'
      BY <1>6, CommitPlan
<1>7. ASSUME NEW b \in Backend, EndTransaction(b) PROVE PlanIInv'
      BY <1>7, EndTransactionPlan
<1>8. ASSUME NEW b \in Backend, Accept(b) PROVE PlanIInv'
      BY <1>8, AcceptPlan
<1>9. ASSUME NEW b \in Backend, Parse(b) PROVE PlanIInv'
      BY <1>9, ParsePlan
<1>10. ASSUME NEW b \in Backend, Lock(b) PROVE PlanIInv'
      BY <1>10, LockPlan
<1>11. ASSUME NEW b \in Backend, LockHeld(b) PROVE PlanIInv'
      BY <1>11, LockHeldPlan
<1>12. ASSUME NEW b \in Backend, Miss(b) PROVE PlanIInv'
      BY <1>12, MissPlan
<1>13. ASSUME NEW b \in Backend, read_index_summary_hit(b) PROVE PlanIInv'
      BY <1>13, HitPlan
<1>14. ASSUME NEW b \in Backend, read_index_summary_miss(b) PROVE PlanIInv'
      BY <1>14, MissedPlan
<1>15. ASSUME NEW b \in Backend, NEW keep \in BOOLEAN, Planned(b, keep) PROVE PlanIInv'
      BY <1>15, PlannedPlan
<1>16. ASSUME NEW b \in Backend, Reuse(b) PROVE PlanIInv'
      BY <1>16, ReusePlan
<1>17. ASSUME NEW b \in Backend, Execute(b) PROVE PlanIInv'
      BY <1>17, ExecutePlan
<1>18. CASE Elsewhere
      BY <1>18, ElsewherePlan
<1>19. CASE UNCHANGED allVars
  <2>1. UNCHANGED vars /\ UNCHANGED queryVars
        BY <1>19 DEF allVars
  <2>2. IInv' /\ \A d \in Backend : Settled(d)' = Settled(d)
        BY <2>1, StutterIInv DEF PlanIInv
  <2>3. \A d \in Backend : SameSession(d)
        BY <2>1 DEF SameSession, vars, queryVars
  <2>4. QueryTypeOK'
        BY <2>1 DEF PlanIInv, QueryTypeOK, vars, queryVars
  <2> QED BY <2>1, <2>2, <2>3, <2>4, OtherSessions DEF PlanIInv, vars
<1> QED BY <1>1, <1>2, <1>3, <1>4, <1>5, <1>6, <1>7, <1>8, <1>9, <1>10, <1>11, <1>12, <1>13,
           <1>14, <1>15, <1>16, <1>17, <1>18, <1>19 DEF QueryNext

LEMMA AlwaysPlanIInv == QuerySpec => []PlanIInv
<1>1. QueryInit => PlanIInv
      BY QueryInitIInv
<1>2. PlanIInv /\ [QueryNext]_allVars => PlanIInv'
      BY StepPlanIInv
<1> QED BY <1>1, <1>2, PTL DEF QuerySpec

(***************************************************************************)
(* The queries implement the specification of the caches: none of them     *)
(* widens, announces or caches anything in a way SummaryCoherence lacks.   *)
(***************************************************************************)
THEOREM QueriesUseTheCache == QuerySpec => Spec
<1>1. QueryInit => Init
      BY DEF QueryInit
<1>2. [QueryNext]_allVars => [Next]_vars
  <2> SUFFICES ASSUME QueryNext PROVE [Next]_vars
      BY DEF allVars
  <2>1. ASSUME NEW b \in Backend, Start(b) \/ InsertRow(b) \/ EndCommand(b) \/ ReleaseSavepoint(b)
        PROVE  Next
        BY <2>1 DEF Start, InsertRow, EndCommand, ReleaseSavepoint, Next
  <2>2. ASSUME NEW b \in Backend, NEW left \in 0 .. MaxFrames, Abort(b, left)
        PROVE  Next
        BY <2>2 DEF Abort, Next
  <2>3. ASSUME NEW b \in Backend, CommitTransaction(b) \/ EndTransaction(b) \/ Accept(b) \/ Miss(b)
        PROVE  Next
        BY <2>3 DEF CommitTransaction, EndTransaction, Accept, Miss, Next
  <2>4. ASSUME NEW b \in Backend, Lock(b)
        PROVE  [Next]_vars
        BY <2>4 DEF Lock, Next
  <2>5. ASSUME NEW b \in Backend, read_index_summary_miss(b)
        PROVE  Next
        BY <2>5 DEF read_index_summary_miss, Next
  <2>6. ASSUME NEW b \in Backend, Parse(b) \/ LockHeld(b) \/ read_index_summary_hit(b) \/ Reuse(b)
                                  \/ Execute(b) \/ \E keep \in BOOLEAN : Planned(b, keep)
        PROVE  UNCHANGED vars
        BY <2>6 DEF Parse, LockHeld, read_index_summary_hit, Reuse, Execute, Planned
  <2>7. Elsewhere => Next
        BY DEF Elsewhere, Next
  <2> QED BY <2>1, <2>2, <2>3, <2>4, <2>5, <2>6, <2>7 DEF QueryNext
<1> QED BY <1>1, <1>2, PTL DEF QuerySpec, Spec

(***************************************************************************)
(* The state of the queries keeps its types: a lock belongs to a frame     *)
(* that is open.                                                           *)
(***************************************************************************)
THEOREM QueryTypeCorrect == QuerySpec => []QueryTypeOK
<1>1. PlanIInv => QueryTypeOK
      BY DEF PlanIInv
<1> QED BY <1>1, AlwaysPlanIInv, PTL

(***************************************************************************)
(* A query finds the rows that widened the summary and were announced      *)
(* before its transaction locked the partition, and its own transaction's: *)
(* with any sessions, keys and savepoints, and whichever way it came by    *)
(* its plan.                                                               *)
(***************************************************************************)
THEOREM PlanAlwaysCoversHeard == QuerySpec => []PlanCoversHeard
<1>1. PlanIInv => PlanCoversHeard
  <2> SUFFICES ASSUME PlanIInv, NEW b \in Backend, Decided(b),
                      NEW row \in heard[b] \cup RowsOf(tx[b]), row.widened
               PROVE  row.key \in plan[b].keys
      BY DEF PlanCoversHeard, Finds
  <2>1. ~current[b] /\ tx[b] \in Seq(Frame)
        BY DEF PlanIInv, IInv, TypeOK, QueryInv, QueryInTransaction, Decided
  <2>2. row \in Wanted(b)
        BY <2>1, RowsOfFrames DEF Wanted, Written
  <2> QED BY <2>2 DEF PlanIInv, QueryInv, PlanInv, Decided, Covers
<1> QED BY <1>1, AlwaysPlanIInv, PTL

(***************************************************************************)
(* A prepared statement's plan that is valid still covers all that was     *)
(* announced to its session, unless an announcement crossed its making.    *)
(***************************************************************************)
THEOREM KeptPlanAlwaysCovers == QuerySpec => []KeptPlanCovers
<1>1. PlanIInv => KeptPlanCovers
      BY DEF PlanIInv, KeptPlanCovers, QueryInv, KeptInv, Covers, Settled, Accepted, Announced
<1> QED BY <1>1, AlwaysPlanIInv, PTL
=============================================================================
