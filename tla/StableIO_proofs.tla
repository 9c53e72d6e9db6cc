--------------------------- MODULE StableIO_proofs ---------------------------
(***************************************************************************)
(* For any settings, any depth of nesting and wherever errors are caught:  *)
(* what with_stable_io pins is in force while a bound is written, and the  *)
(* session gets its own settings back.                                     *)
(***************************************************************************)
EXTENDS StableIO, WellFoundedInduction, SequenceTheorems, TLAPS

Saves(st, i, s) == s \in DOMAIN st[i].saved

\* Of the frames above the first `left` ones, the lowest that saves a setting.
IsLowest(st, left, i, s) ==
    /\ i \in left + 1 .. Len(st) /\ Saves(st, i, s)
    /\ \A j \in left + 1 .. i - 1 : ~Saves(st, j, s)

\* With settings g in force under the frames st, setting s will be v when the
\* frames above the first `left` ones have ended.
Restores(st, g, left, s, v) ==
    \/ \E i \in left + 1 .. Len(st) : IsLowest(st, left, i, s) /\ st[i].saved[s] = v
    \/ (\A i \in left + 1 .. Len(st) : ~Saves(st, i, s)) /\ g[s] = v

\* A frame without a level has saved nothing, and only calls go without one.
Levels ==
    \A i \in DOMAIN stack :
        /\ stack[i].kind \notin Calls => stack[i].level
        /\ ~stack[i].level => DOMAIN stack[i].saved = {}

\* The session gets back what it has set, whatever has leaked.
SessionRestored == \A s \in Setting : Restores(stack, guc, 0, s, session[s])

\* Without a leak so does the transaction, and a call finds the settings pinned
\* again after what it has called.
TransactionRestored ==
    ~leaked /\ stack # <<>> => \A s \in Setting : Restores(stack, guc, 1, s, session[s])

PinnedInCalls ==
    ~leaked => \A i \in DOMAIN stack, s \in Pinned :
                   stack[i].kind \in Calls => Restores(stack, guc, i, s, Exact)

PagePinned == ~leaked => \A s \in Pinned : page[s] = Exact

IInv ==
    /\ TypeOK /\ Levels
    /\ SessionRestored /\ TransactionRestored
    /\ PinnedInCalls /\ PagePinned

-----------------------------------------------------------------------------
(* Settings that frames save.                                              *)

LEMMA FrameFacts ==
    ASSUME NEW f \in Frame
    PROVE  /\ f.kind \in {"transaction", "hook", "insert", "function", "block"}
           /\ f.level \in BOOLEAN
           /\ DOMAIN f.saved \subseteq Setting
           /\ f.saved \in [DOMAIN f.saved -> Style]
<1>1. PICK S \in SUBSET Setting : f.saved \in [S -> Style]
      BY DEF Frame
<1>2. DOMAIN f.saved = S
      BY <1>1
<1> QED BY <1>1, <1>2 DEF Frame

LEMMA IsFrame ==
    ASSUME NEW kind \in {"transaction", "hook", "insert", "function", "block"},
           NEW level \in BOOLEAN, NEW S \in SUBSET Setting, NEW saved \in [S -> Style]
    PROVE  [kind |-> kind, level |-> level, saved |-> saved] \in Frame
<1>1. saved \in UNION {[T -> Style] : T \in SUBSET Setting}
      OBVIOUS
<1> QED BY <1>1 DEF Frame

LEMMA OverriddenIs ==
    ASSUME NEW under, NEW saved, NEW back, back = Overridden(saved, under), NEW s
    PROVE  /\ s \in DOMAIN back <=> s \in DOMAIN saved \/ s \in DOMAIN under
           /\ s \in DOMAIN saved => back[s] = saved[s]
           /\ s \in DOMAIN under /\ s \notin DOMAIN saved => back[s] = under[s]
BY DEF Overridden

LEMMA OverriddenTyped ==
    ASSUME NEW S \in SUBSET Setting, NEW T \in SUBSET Setting,
           NEW saved \in [S -> Style], NEW under \in [T -> Style]
    PROVE  Overridden(saved, under) \in [S \cup T -> Style]
BY DEF Overridden

LEMMA HasLeast ==
    ASSUME NEW S \in SUBSET Nat, S # {}
    PROVE  \E t \in S : \A u \in S : t <= u
<1>1. PICK t \in S : \A u \in S : <<u, t>> \notin OpToRel(<, Nat)
      BY NatLessThanWellFounded, WFMin
<1>2. \A u \in S : ~(u < t)
      BY <1>1 DEF OpToRel
<1> QED BY <1>2

(***************************************************************************)
(* Levels that end together go back to what the lowest of them has saved.  *)
(***************************************************************************)
LEMMA SavedByFacts ==
    ASSUME NEW frames \in Seq(Frame)
    PROVE  /\ DOMAIN SavedBy(frames) = UNION {DOMAIN frames[i].saved : i \in DOMAIN frames}
           /\ SavedBy(frames) \in [DOMAIN SavedBy(frames) -> Style]
           /\ DOMAIN SavedBy(frames) \subseteq Setting
           /\ \A i \in DOMAIN frames : \A s \in DOMAIN frames[i].saved :
                  (\A j \in 1 .. i - 1 : s \notin DOMAIN frames[j].saved) =>
                      SavedBy(frames)[s] = frames[i].saved[s]
<1> DEFINE D == UNION {DOMAIN frames[i].saved : i \in DOMAIN frames}
           Low(i, s) == /\ s \in DOMAIN frames[i].saved
                        /\ \A j \in 1 .. i - 1 : ~(s \in DOMAIN frames[j].saved)
           low(s) == CHOOSE i \in DOMAIN frames : Low(i, s)
<1>1. /\ DOMAIN frames = 1 .. Len(frames) /\ Len(frames) \in Nat
      /\ \A i \in DOMAIN frames : frames[i] \in Frame
      BY LenProperties, ElementOfSeq
<1>2. SavedBy(frames) = [s \in D |-> frames[low(s)].saved[s]]
      BY DEF SavedBy
<1>3. ASSUME NEW s \in D
      PROVE  \E i \in DOMAIN frames : Low(i, s)
  <2> DEFINE saving == {i \in DOMAIN frames : s \in DOMAIN frames[i].saved}
  <2>1. saving \in SUBSET Nat /\ saving # {}
        BY <1>1, <1>3
  <2>2. PICK i \in saving : \A j \in saving : i <= j
    <3> HIDE DEF saving
    <3> QED BY <2>1, HasLeast
  <2>3. \A j \in 1 .. i - 1 : j \in DOMAIN frames /\ ~(i <= j)
        BY <1>1, <2>1
  <2> QED BY <2>2, <2>3
<1>4. ASSUME NEW s \in D
      PROVE  low(s) \in DOMAIN frames /\ Low(low(s), s)
  <2> HIDE DEF Low
  <2> QED BY <1>3, <1>4
<1>5. ASSUME NEW s \in D, NEW i \in DOMAIN frames, Low(i, s)
      PROVE  low(s) = i
  <2> DEFINE k == low(s)
  <2>1. k \in DOMAIN frames /\ Low(k, s)
        BY <1>4, <1>5
  <2> HIDE DEF k
  <2>2. ~(k < i) /\ ~(i < k)
        BY <1>1, <1>5, <2>1
  <2>3. k = i
        BY <1>1, <2>1, <2>2
  <2> QED BY <2>3 DEF k
<1>6. \A s \in D : frames[low(s)].saved[s] \in Style
  <2> SUFFICES ASSUME NEW s \in D PROVE frames[low(s)].saved[s] \in Style
      OBVIOUS
  <2> DEFINE k == low(s)
  <2>1. k \in DOMAIN frames /\ s \in DOMAIN frames[k].saved
        BY <1>4
  <2> HIDE DEF k
  <2>2. frames[k].saved[s] \in Style
        BY <1>1, <2>1, FrameFacts
  <2> QED BY <2>2 DEF k
<1>7. D \subseteq Setting
      BY <1>1, FrameFacts
<1>8. \A i \in DOMAIN frames : \A s \in DOMAIN frames[i].saved : s \in D
      OBVIOUS
<1> HIDE DEF D, low
<1> QED BY <1>2, <1>5, <1>6, <1>7, <1>8 DEF D

LEMMA SubSaved ==
    ASSUME NEW st \in Seq(Frame), NEW a \in 0 .. Len(st), NEW b \in a .. Len(st),
           NEW saved, saved = SavedBy(SubSeq(st, a + 1, b))
    PROVE  /\ saved \in [DOMAIN saved -> Style] /\ DOMAIN saved \subseteq Setting
           /\ \A s \in DOMAIN saved : \E i \in a + 1 .. b : Saves(st, i, s)
           /\ \A s : \A i \in a + 1 .. b :
                  (Saves(st, i, s) /\ \A j \in a + 1 .. i - 1 : ~Saves(st, j, s)) =>
                      s \in DOMAIN saved /\ saved[s] = st[i].saved[s]
<1> DEFINE frames == SubSeq(st, a + 1, b)
<1>1. /\ Len(st) \in Nat /\ a \in Nat /\ b \in Nat /\ a <= b /\ b <= Len(st)
      /\ \A i \in 1 .. Len(st) : st[i] \in Frame
      BY LenProperties, ElementOfSeq
<1>2. /\ a + 1 \in Int /\ b \in Int /\ \A i \in a + 1 .. b : st[i] \in Frame
      BY <1>1
<1>3. /\ frames \in Seq(Frame)
      /\ Len(frames) = IF a + 1 <= b THEN b - (a + 1) + 1 ELSE 0
      /\ \A k \in 1 .. b - (a + 1) + 1 : frames[k] = st[a + 1 + k - 1]
      BY <1>2, SubSeqProperties
<1> HIDE DEF frames
<1>4. /\ Len(frames) = b - a /\ DOMAIN frames = 1 .. b - a
      /\ \A k \in 1 .. b - a : frames[k] = st[a + k]
  <2>1. Len(frames) = b - a /\ b - (a + 1) + 1 = b - a
        BY <1>1, <1>3
  <2>2. \A k \in 1 .. b - a : a + 1 + k - 1 = a + k
        BY <1>1
  <2> QED BY <1>3, <2>1, <2>2, LenProperties
<1>5. saved = SavedBy(frames)
      BY DEF frames
<1>6. saved \in [DOMAIN saved -> Style] /\ DOMAIN saved \subseteq Setting
      BY <1>3, <1>5, SavedByFacts
<1>7. DOMAIN saved = UNION {DOMAIN frames[k].saved : k \in DOMAIN frames}
      BY <1>3, <1>5, SavedByFacts
<1>8. ASSUME NEW s \in DOMAIN saved
      PROVE  \E i \in a + 1 .. b : Saves(st, i, s)
  <2>1. PICK k \in 1 .. b - a : s \in DOMAIN frames[k].saved
        BY <1>4, <1>7, <1>8
  <2>2. a + k \in a + 1 .. b
        BY <1>1
  <2> QED BY <1>4, <2>1, <2>2 DEF Saves
<1>9. ASSUME NEW s, NEW i \in a + 1 .. b,
             Saves(st, i, s), \A j \in a + 1 .. i - 1 : ~Saves(st, j, s)
      PROVE  s \in DOMAIN saved /\ saved[s] = st[i].saved[s]
  <2> DEFINE k == i - a
  <2>1. k \in 1 .. b - a /\ a + k = i
        BY <1>1
  <2>2. frames[k] = st[i]
        BY <1>4, <2>1
  <2>3. \A m \in 1 .. k - 1 : /\ m \in 1 .. b - a
                              /\ a + m \in a + 1 .. i - 1
        BY <1>1
  <2> HIDE DEF k
  <2>4. \A m \in 1 .. k - 1 : s \notin DOMAIN frames[m].saved
        BY <1>4, <1>9, <2>3 DEF Saves
  <2>5. k \in DOMAIN frames /\ s \in DOMAIN frames[k].saved
        BY <1>4, <1>9, <2>1, <2>2 DEF Saves
  <2>6. SavedBy(frames)[s] = frames[k].saved[s]
        BY <1>3, <2>4, <2>5, SavedByFacts
  <2> QED BY <1>5, <1>7, <2>2, <2>5, <2>6
<1> QED BY <1>6, <1>8, <1>9

-----------------------------------------------------------------------------
(* What will be restored, as frames begin and end.                         *)

(***************************************************************************)
(* A frame that begins saves the settings it changes.                      *)
(***************************************************************************)
LEMMA PushRestores ==
    ASSUME NEW st \in Seq(Frame), NEW top \in Frame, NEW t, t = Append(st, top),
           NEW g, NEW g2, NEW s, NEW v, NEW left \in 0 .. Len(st),
           s \in DOMAIN top.saved => top.saved[s] = g[s],
           s \notin DOMAIN top.saved => g2[s] = g[s],
           Restores(st, g, left, s, v)
    PROVE  Restores(t, g2, left, s, v)
<1> DEFINE n == Len(st)
<1>1. /\ n \in Nat /\ Len(t) = n + 1 /\ t[n + 1] = top
      /\ \A i \in 1 .. n : t[i] = st[i]
      BY AppendProperties, LenProperties
<1>2. /\ \A i \in left + 1 .. n : i \in 1 .. n /\ i \in left + 1 .. Len(t)
      /\ n + 1 \in left + 1 .. Len(t)
      /\ \A i \in left + 1 .. Len(t) : i \in left + 1 .. n \/ i = n + 1
      /\ \A j \in left + 1 .. (n + 1) - 1 : j \in left + 1 .. n
      BY <1>1
<1>3. CASE \E i \in left + 1 .. n : IsLowest(st, left, i, s) /\ st[i].saved[s] = v
  <2>1. PICK i \in left + 1 .. n : IsLowest(st, left, i, s) /\ st[i].saved[s] = v
        BY <1>3
  <2>2. \A j \in left + 1 .. i - 1 : j \in 1 .. n
        BY <1>1
  <2> QED BY <1>1, <1>2, <2>1, <2>2 DEF Restores, IsLowest, Saves
<1>4. CASE (\A i \in left + 1 .. n : ~Saves(st, i, s)) /\ g[s] = v
  <2>1. \A i \in left + 1 .. n : ~Saves(t, i, s)
        BY <1>1, <1>2, <1>4 DEF Saves
  <2>2. CASE s \in DOMAIN top.saved
    <3>1. IsLowest(t, left, n + 1, s) /\ t[n + 1].saved[s] = v
          BY <1>1, <1>2, <1>4, <2>1, <2>2 DEF IsLowest, Saves
    <3> QED BY <1>2, <3>1 DEF Restores
  <2>3. CASE s \notin DOMAIN top.saved
    <3>1. \A i \in left + 1 .. Len(t) : ~Saves(t, i, s)
          BY <1>1, <1>2, <2>1, <2>3 DEF Saves
    <3> QED BY <1>4, <2>3, <3>1 DEF Restores
  <2> QED BY <2>2, <2>3
<1> QED BY <1>3, <1>4 DEF Restores

(***************************************************************************)
(* Frames that end put back what the lowest of them has saved.             *)
(***************************************************************************)
LEMMA EndRestores ==
    ASSUME NEW st \in Seq(Frame), NEW cut \in 0 .. Len(st),
           NEW t \in Seq(Frame), Len(t) = cut, \A i \in 1 .. cut : t[i] = st[i],
           NEW g, NEW g2, NEW s, NEW v, NEW left \in 0 .. cut,
           \A i \in cut + 1 .. Len(st) : IsLowest(st, cut, i, s) => g2[s] = st[i].saved[s],
           (\A i \in cut + 1 .. Len(st) : ~Saves(st, i, s)) => g2[s] = g[s],
           Restores(st, g, left, s, v)
    PROVE  Restores(t, g2, left, s, v)
<1> DEFINE n == Len(st)
<1>1. /\ n \in Nat /\ cut \in Nat /\ cut <= n /\ left \in Nat /\ left <= cut
      BY LenProperties
<1>2. /\ \A i \in left + 1 .. cut : i \in 1 .. cut /\ i \in left + 1 .. n
      /\ \A i \in cut + 1 .. n : i \in left + 1 .. n
      BY <1>1
<1>3. CASE \E i \in left + 1 .. n : IsLowest(st, left, i, s) /\ st[i].saved[s] = v
  <2>1. PICK i \in left + 1 .. n : IsLowest(st, left, i, s) /\ st[i].saved[s] = v
        BY <1>3
  <2>2. CASE i <= cut
    <3>1. i \in left + 1 .. cut /\ \A j \in left + 1 .. i - 1 : j \in 1 .. cut
          BY <1>1, <2>2
    <3> QED BY <1>2, <2>1, <3>1 DEF Restores, IsLowest, Saves
  <2>3. CASE ~(i <= cut)
    <3>1. /\ i \in cut + 1 .. n
          /\ \A j \in cut + 1 .. i - 1 : j \in left + 1 .. i - 1
          /\ \A j \in left + 1 .. cut : j \in left + 1 .. i - 1
          BY <1>1, <2>3
    <3>2. IsLowest(st, cut, i, s)
          BY <2>1, <3>1 DEF IsLowest
    <3>3. g2[s] = v
          BY <2>1, <3>1, <3>2
    <3>4. \A j \in left + 1 .. cut : ~Saves(t, j, s)
          BY <1>2, <2>1, <3>1 DEF IsLowest, Saves
    <3> QED BY <3>3, <3>4 DEF Restores
  <2> QED BY <2>2, <2>3
<1>4. CASE (\A i \in left + 1 .. n : ~Saves(st, i, s)) /\ g[s] = v
  <2>1. g2[s] = v
        BY <1>2, <1>4
  <2>2. \A i \in left + 1 .. cut : ~Saves(t, i, s)
        BY <1>2, <1>4 DEF Saves
  <2> QED BY <2>1, <2>2 DEF Restores
<1> QED BY <1>3, <1>4 DEF Restores

(***************************************************************************)
(* When the hook catches an error, frames up to `kept` leave what they     *)
(* have saved to the level below the hook, and the others end: a setting   *)
(* is restored when the frames below that level end.                       *)
(***************************************************************************)
LEMMA CatchRestores ==
    ASSUME NEW st \in Seq(Frame), NEW cut \in 0 .. Len(st), NEW kept \in cut .. Len(st),
           NEW below \in 1 .. cut, NEW lost, NEW g, NEW g2, NEW s,
           lost = SavedBy(SubSeq(st, cut + 1, kept)),
           g2 = Overridden(SavedBy(SubSeq(st, kept + 1, Len(st))), g), s \in DOMAIN g,
           NEW t \in Seq(Frame), Len(t) = cut,
           \A i \in 1 .. cut : i # below => t[i] = st[i],
           t[below].saved = Overridden(st[below].saved, lost),
           \A j \in below + 1 .. cut : DOMAIN st[j].saved = {},
           NEW v, NEW left \in 0 .. cut, left < below \/ DOMAIN lost = {},
           Restores(st, g, left, s, v)
    PROVE  Restores(t, g2, left, s, v)
<1> DEFINE n == Len(st)
           back == SavedBy(SubSeq(st, kept + 1, n))
<1>1. /\ n \in Nat /\ cut \in Nat /\ kept \in Nat /\ left \in Nat /\ below \in Nat
      /\ left <= cut /\ cut <= kept /\ kept <= n /\ 1 <= below /\ below <= cut
      BY LenProperties
<1>2. /\ \A i \in cut + 1 .. kept :
             (Saves(st, i, s) /\ \A j \in cut + 1 .. i - 1 : ~Saves(st, j, s)) =>
                 s \in DOMAIN lost /\ lost[s] = st[i].saved[s]
      /\ s \in DOMAIN lost => \E i \in cut + 1 .. kept : Saves(st, i, s)
      BY SubSaved
<1>3. /\ \A i \in kept + 1 .. n :
             (Saves(st, i, s) /\ \A j \in kept + 1 .. i - 1 : ~Saves(st, j, s)) =>
                 s \in DOMAIN back /\ back[s] = st[i].saved[s]
      /\ s \in DOMAIN back => \E i \in kept + 1 .. n : Saves(st, i, s)
  <2>1. kept \in 0 .. Len(st) /\ n \in kept .. Len(st)
        BY <1>1
  <2> QED BY <2>1, SubSaved
<1>a. g2 = Overridden(back, g)
      OBVIOUS
<1> HIDE DEF back
<1>4. /\ s \in DOMAIN back => g2[s] = back[s]
      /\ s \notin DOMAIN back => g2[s] = g[s]
      BY <1>a, OverriddenIs
<1>5. /\ s \in DOMAIN t[below].saved <=> (s \in DOMAIN st[below].saved \/ s \in DOMAIN lost)
      /\ s \in DOMAIN st[below].saved => t[below].saved[s] = st[below].saved[s]
      /\ (s \in DOMAIN lost /\ s \notin DOMAIN st[below].saved) => t[below].saved[s] = lost[s]
  <2> DEFINE own == st[below].saved
             new == t[below].saved
  <2>1. new = Overridden(own, lost)
        OBVIOUS
  <2> HIDE DEF own, new
  <2>2. /\ s \in DOMAIN new <=> s \in DOMAIN own \/ s \in DOMAIN lost
        /\ s \in DOMAIN own => new[s] = own[s]
        /\ s \in DOMAIN lost /\ s \notin DOMAIN own => new[s] = lost[s]
        BY <2>1, OverriddenIs
  <2> QED BY <2>2 DEF own, new
<1>6. \A i \in 1 .. cut : /\ i # below => (Saves(t, i, s) <=> Saves(st, i, s))
                          /\ i > below => ~Saves(st, i, s)
  <2>1. \A i \in 1 .. cut : i > below => i \in below + 1 .. cut
        BY <1>1
  <2> QED BY <2>1 DEF Saves
<1>7. Saves(t, below, s) <=> (Saves(st, below, s) \/ s \in DOMAIN lost)
      BY <1>5 DEF Saves
<1>8. CASE \E i \in left + 1 .. n : IsLowest(st, left, i, s) /\ st[i].saved[s] = v
  <2>1. PICK i \in left + 1 .. n : IsLowest(st, left, i, s) /\ st[i].saved[s] = v
        BY <1>8
  <2>2. Saves(st, i, s) /\ \A j \in left + 1 .. i - 1 : ~Saves(st, j, s)
        BY <2>1 DEF IsLowest
  <2>3. CASE i <= cut
    <3>1. /\ i \in 1 .. cut /\ i \in left + 1 .. Len(t) /\ i <= below
          /\ \A j \in left + 1 .. i - 1 : j \in 1 .. cut /\ j # below
          BY <1>1, <1>6, <2>2, <2>3
    <3>2. Saves(t, i, s) /\ \A j \in left + 1 .. i - 1 : ~Saves(t, j, s)
          BY <1>6, <1>7, <2>2, <3>1
    <3>3. t[i].saved[s] = v
          BY <1>5, <2>1, <2>2, <3>1 DEF Saves
    <3> QED BY <3>1, <3>2, <3>3 DEF Restores, IsLowest
  <2>4. CASE cut < i /\ i <= kept
    <3>1. /\ i \in cut + 1 .. kept
          /\ \A j \in cut + 1 .. i - 1 : j \in left + 1 .. i - 1
          /\ \A j \in left + 1 .. cut : j \in left + 1 .. i - 1 /\ j \in 1 .. cut
          BY <1>1, <2>4
    <3>2. s \in DOMAIN lost /\ lost[s] = v
          BY <1>2, <2>1, <2>2, <3>1
    <3>3. left < below /\ below \in left + 1 .. cut
          BY <1>1, <3>2
    <3>4. Saves(t, below, s) /\ t[below].saved[s] = v
          BY <1>5, <1>7, <2>2, <3>1, <3>2, <3>3 DEF Saves
    <3>5. \A j \in left + 1 .. below - 1 : j \in left + 1 .. cut /\ j # below
          BY <1>1
    <3>6. \A j \in left + 1 .. below - 1 : ~Saves(t, j, s)
          BY <1>6, <2>2, <3>1, <3>5
    <3> QED BY <3>3, <3>4, <3>6 DEF Restores, IsLowest
  <2>5. CASE kept < i
    <3>1. /\ i \in kept + 1 .. n
          /\ \A j \in kept + 1 .. i - 1 : j \in left + 1 .. i - 1
          /\ \A j \in cut + 1 .. kept : j \in left + 1 .. i - 1
          /\ \A j \in left + 1 .. cut : j \in left + 1 .. i - 1 /\ j \in 1 .. cut
          BY <1>1, <2>5
    <3>2. g2[s] = v
          BY <1>3, <1>4, <2>1, <2>2, <3>1
    <3>3. s \notin DOMAIN lost
          BY <1>2, <2>2, <3>1
    <3>4. \A j \in left + 1 .. cut : ~Saves(t, j, s)
          BY <1>6, <1>7, <2>2, <3>1, <3>3
    <3> QED BY <3>2, <3>4 DEF Restores
  <2> QED BY <1>1, <2>3, <2>4, <2>5
<1>9. CASE (\A i \in left + 1 .. n : ~Saves(st, i, s)) /\ g[s] = v
  <2>1. /\ \A i \in cut + 1 .. kept : i \in left + 1 .. n
        /\ \A i \in kept + 1 .. n : i \in left + 1 .. n
        /\ \A i \in left + 1 .. cut : i \in left + 1 .. n /\ i \in 1 .. cut
        BY <1>1
  <2>2. g2[s] = v /\ s \notin DOMAIN lost
        BY <1>2, <1>3, <1>4, <1>9, <2>1
  <2>3. \A j \in left + 1 .. cut : ~Saves(t, j, s)
        BY <1>6, <1>7, <1>9, <2>1, <2>2
  <2> QED BY <2>2, <2>3 DEF Restores
<1> QED BY <1>8, <1>9 DEF Restores

-----------------------------------------------------------------------------
(* The invariant, step by step.                                            *)

LEMMA StackFacts ==
    ASSUME TypeOK
    PROVE  /\ stack \in Seq(Frame) /\ Len(stack) \in Nat
           /\ DOMAIN stack = 1 .. Len(stack)
           /\ \A i \in 1 .. Len(stack) : stack[i] \in Frame
           /\ stack = <<>> <=> Len(stack) = 0
           /\ DOMAIN guc = Setting /\ DOMAIN session = Setting
BY LenProperties, ElementOfSeq, EmptySeq DEF TypeOK, Settings

LEMMA PrefixFacts ==
    ASSUME NEW st \in Seq(Frame), NEW cut \in 0 .. Len(st), NEW t, t = SubSeq(st, 1, cut)
    PROVE  t \in Seq(Frame) /\ Len(t) = cut /\ \A i \in 1 .. cut : t[i] = st[i]
<1>1. /\ Len(st) \in Nat /\ cut \in Int /\ 1 \in Int
      /\ \A i \in 1 .. cut : st[i] \in Frame
  <2>1. Len(st) \in Nat /\ \A i \in 1 .. Len(st) : st[i] \in Frame
        BY LenProperties, ElementOfSeq
  <2>2. cut \in Nat /\ \A i \in 1 .. cut : i \in 1 .. Len(st)
        BY <2>1
  <2> QED BY <2>1, <2>2
<1>2. /\ t \in Seq(Frame) /\ Len(t) = IF 1 <= cut THEN cut - 1 + 1 ELSE 0
      /\ \A i \in 1 .. cut - 1 + 1 : t[i] = st[1 + i - 1]
      BY <1>1, SubSeqProperties
<1>3. \A i \in 1 .. cut : i \in 1 .. cut - 1 + 1 /\ 1 + i - 1 = i
      BY <1>1
<1> QED BY <1>1, <1>2, <1>3

LEMMA InitIInv == Init => IInv
<1> SUFFICES ASSUME Init PROVE IInv
    OBVIOUS
<1>1. /\ stack = <<>> /\ stack \in Seq(Frame) /\ Len(stack) = 0 /\ DOMAIN stack = {}
      /\ \A s \in Setting : page[s] = Exact
      /\ guc = session
      BY EmptySeq DEF Init
<1>2. TypeOK
  <2>1. session \in Settings /\ guc \in Settings
        BY <1>1 DEF Init
  <2>2. page \in Settings
        BY StableAssumption DEF Init, Settings
  <2>3. parallel \in BOOLEAN /\ leaked \in BOOLEAN
        BY DEF Init
  <2>4. 0 <= MaxStack
        BY StableAssumption
  <2> QED BY <1>1, <2>1, <2>2, <2>3, <2>4 DEF TypeOK
<1>3. SessionRestored
      BY <1>1 DEF SessionRestored, Restores
<1>4. Levels /\ TransactionRestored /\ PinnedInCalls
      BY <1>1 DEF Levels, TransactionRestored, PinnedInCalls
<1>5. PagePinned
      BY <1>1, StableAssumption DEF PagePinned
<1> QED BY <1>2, <1>3, <1>4, <1>5 DEF IInv

(***************************************************************************)
(* A call, a function, a block or the transaction begins.                  *)
(***************************************************************************)
LEMMA PushIInv ==
    ASSUME IInv,
           NEW kind \in {"transaction", "hook", "insert", "function", "block"},
           NEW level \in BOOLEAN, NEW S \in SUBSET Setting, NEW pins \in [S -> Style],
           Push(kind, level, pins), parallel' \in BOOLEAN,
           kind = "transaction" <=> stack = <<>>,
           kind = "transaction" => S = {},
           kind \notin Calls => level,
           kind \in Calls => (level <=> S # {}),
           kind \in Calls => \A s \in Pinned : IF s \in S THEN pins[s] = Exact
                                                          ELSE guc[s] = Exact
    PROVE  IInv'
<1> DEFINE n == Len(stack)
           top == [kind |-> kind, level |-> level, saved |-> [s \in S |-> guc[s]]]
<1>1. /\ TypeOK /\ Levels /\ SessionRestored /\ TransactionRestored
      /\ PinnedInCalls /\ PagePinned
      BY DEF IInv
<1>2. /\ n < MaxStack /\ guc' = Overridden(pins, guc)
      /\ stack' = Append(stack, top)
      /\ session' = session /\ page' = page /\ leaked' = leaked
      BY DEF Push
<1>3. /\ top \in Frame
      /\ top.kind = kind /\ top.level = level /\ DOMAIN top.saved = S
      /\ \A s \in S : top.saved[s] = guc[s]
  <2>1. [s \in S |-> guc[s]] \in [S -> Style]
        BY <1>1 DEF TypeOK, Settings
  <2> QED BY <2>1, IsFrame
<1> HIDE DEF top
<1>4. /\ stack \in Seq(Frame) /\ n \in Nat /\ DOMAIN stack = 1 .. n
      /\ \A i \in 1 .. n : stack[i] \in Frame
      /\ stack = <<>> <=> n = 0
      BY <1>1, StackFacts
<1>5. /\ stack' \in Seq(Frame) /\ Len(stack') = n + 1 /\ stack'[n + 1] = top
      /\ \A i \in 1 .. n : stack'[i] = stack[i]
      /\ DOMAIN stack' = 1 .. n + 1
      BY <1>2, <1>3, <1>4, AppendProperties, LenProperties
<1>6. /\ guc' \in Settings
      /\ \A s \in Setting : IF s \in S THEN guc'[s] = pins[s] ELSE guc'[s] = guc[s]
  <2>1. guc \in [Setting -> Style] /\ DOMAIN pins = S
        BY <1>1 DEF TypeOK, Settings
  <2>2. guc' \in [S \cup Setting -> Style] /\ S \cup Setting = Setting
        BY <1>2, <2>1, OverriddenTyped
  <2>3. ASSUME NEW s \in Setting
        PROVE  IF s \in S THEN guc'[s] = pins[s] ELSE guc'[s] = guc[s]
    <3>1. s \in DOMAIN guc /\ (s \in DOMAIN pins <=> s \in S)
          BY <2>1
    <3>2. CASE s \in S
          BY <1>2, <3>1, <3>2, OverriddenIs
    <3>3. CASE s \notin S
          BY <1>2, <3>1, <3>3, OverriddenIs
    <3> QED BY <3>2, <3>3
  <2> QED BY <2>2, <2>3 DEF Settings
<1>7. \A i \in 1 .. n + 1 : i \in 1 .. n \/ i = n + 1
      BY <1>4
<1>8. TypeOK'
  <2>1. (session \in Settings /\ guc \in Settings /\ page \in Settings)'
        BY <1>1, <1>2, <1>6 DEF TypeOK, Settings
  <2>2. (stack \in Seq(Frame) /\ Len(stack) <= MaxStack)'
    <3>1. Frame' = Frame
          BY DEF Frame
    <3> QED BY <1>2, <1>4, <1>5, <3>1, StableAssumption
  <2>3. \A i \in 1 .. n + 1 : stack'[i].kind = "transaction" <=> i = 1
    <3>1. \A i \in 1 .. n : stack[i].kind = "transaction" <=> i = 1
          BY <1>1, <1>4 DEF TypeOK
    <3>2. kind = "transaction" <=> n + 1 = 1
          BY <1>4
    <3> QED BY <1>3, <1>5, <1>7, <3>1, <3>2
  <2>4. \A i \in 1 .. n + 1 : stack'[i].kind \in Calls =>
            (stack'[i].level <=> DOMAIN stack'[i].saved # {})
    <3>1. \A i \in 1 .. n : stack[i].kind \in Calls =>
              (stack[i].level <=> DOMAIN stack[i].saved # {})
          BY <1>1, <1>4 DEF TypeOK
    <3>2. top.kind \in Calls => (top.level <=> DOMAIN top.saved # {})
          BY <1>3
    <3> QED BY <1>5, <1>7, <3>1, <3>2
  <2>5. parallel' \in BOOLEAN /\ leaked' \in BOOLEAN
        BY <1>1, <1>2 DEF TypeOK
  <2> QED BY <1>5, <2>1, <2>2, <2>3, <2>4, <2>5 DEF TypeOK, Settings, Frame, Calls
<1>9. Levels'
  <2>1. \A i \in 1 .. n : /\ stack[i].kind \notin Calls => stack[i].level
                          /\ ~stack[i].level => DOMAIN stack[i].saved = {}
        BY <1>1, <1>4 DEF Levels
  <2>2. /\ top.kind \notin Calls => top.level
        /\ ~top.level => DOMAIN top.saved = {}
        BY <1>3
  <2>3. \A i \in 1 .. n + 1 : /\ stack'[i].kind \notin Calls => stack'[i].level
                              /\ ~stack'[i].level => DOMAIN stack'[i].saved = {}
        BY <1>5, <1>7, <2>1, <2>2
  <2> QED BY <1>5, <2>3 DEF Levels, Calls
<1>10. ASSUME NEW s \in Setting, NEW v, NEW left \in 0 .. n,
              Restores(stack, guc, left, s, v)
       PROVE  Restores(stack', guc', left, s, v)
  <2>1. /\ s \in DOMAIN top.saved => top.saved[s] = guc[s]
        /\ s \notin DOMAIN top.saved => guc'[s] = guc[s]
        BY <1>3, <1>6
  <2> QED BY <1>2, <1>3, <1>4, <1>10, <2>1, PushRestores
<1>11. ASSUME NEW s \in Setting
       PROVE  Restores(stack', guc', n + 1, s, guc'[s])
  <2>1. \A i \in n + 1 + 1 .. Len(stack') : ~Saves(stack', i, s)
        BY <1>4, <1>5
  <2> QED BY <2>1 DEF Restores
<1>12. SessionRestored'
  <2>1. ASSUME NEW s \in Setting
        PROVE  Restores(stack', guc', 0, s, session'[s])
    <3>1. PICK v : v = session[s]
          OBVIOUS
    <3>2. Restores(stack, guc, 0, s, v) /\ 0 \in 0 .. n
          BY <1>1, <1>4, <3>1 DEF SessionRestored
    <3> QED BY <1>2, <1>10, <3>1, <3>2
  <2> QED BY <2>1 DEF SessionRestored, Restores, IsLowest, Saves
<1>13. TransactionRestored'
  <2>1. ASSUME ~leaked, NEW s \in Setting
        PROVE  Restores(stack', guc', 1, s, session'[s])
    <3>1. PICK v : v = session[s]
          OBVIOUS
    <3>2. CASE stack = <<>>
      <4>1. Restores(stack, guc, 0, s, v) /\ n = 0
            BY <1>1, <1>4, <3>1, <3>2 DEF SessionRestored
      <4>2. guc[s] = v
            BY <4>1 DEF Restores
      <4>3. guc'[s] = v
            BY <1>6, <3>2, <4>2
      <4> QED BY <1>2, <1>11, <3>1, <4>1, <4>3
    <3>3. CASE stack # <<>>
      <4>1. Restores(stack, guc, 1, s, v) /\ 1 \in 0 .. n
            BY <1>1, <1>4, <2>1, <3>1, <3>3 DEF TransactionRestored
      <4> QED BY <1>2, <1>10, <3>1, <4>1
    <3> QED BY <3>2, <3>3
  <2> QED BY <1>2, <2>1 DEF TransactionRestored, Restores, IsLowest, Saves
<1>14. PinnedInCalls'
  <2>1. ASSUME ~leaked, NEW i \in 1 .. n + 1, NEW s \in Pinned, stack'[i].kind \in Calls
        PROVE  Restores(stack', guc', i, s, Exact)
    <3>1. s \in Setting
          BY StableAssumption
    <3>2. CASE i \in 1 .. n
      <4>1. Restores(stack, guc, i, s, Exact) /\ i \in 0 .. n
            BY <1>1, <1>4, <1>5, <2>1, <3>2 DEF PinnedInCalls
      <4> QED BY <1>10, <3>1, <4>1
    <3>3. CASE i = n + 1
      <4>1. guc'[s] = Exact
            BY <1>3, <1>5, <1>6, <2>1, <3>1, <3>3
      <4> QED BY <1>11, <3>1, <3>3, <4>1
    <3> QED BY <1>7, <3>2, <3>3
  <2> QED BY <1>2, <1>5, <2>1 DEF PinnedInCalls, Calls, Restores, IsLowest, Saves
<1>15. PagePinned'
       BY <1>1, <1>2 DEF PagePinned
<1> QED BY <1>8, <1>9, <1>12, <1>13, <1>14, <1>15 DEF IInv

(***************************************************************************)
(* Frames end, by whatever step: what was to be restored still is.         *)
(***************************************************************************)
LEMMA ShortenIInv ==
    ASSUME IInv, NEW cut \in 0 .. Len(stack),
           stack' \in Seq(Frame), Len(stack') = cut,
           \A i \in 1 .. cut :
               /\ stack'[i].kind = stack[i].kind /\ stack'[i].level = stack[i].level
               /\ \/ stack'[i].saved = stack[i].saved
                  \/ /\ stack[i].level = TRUE
                     /\ DOMAIN stack[i].saved \subseteq DOMAIN stack'[i].saved,
           guc' \in Settings, parallel' \in BOOLEAN, leaked' \in BOOLEAN,
           leaked => leaked', session' = session, page' = page,
           \A s \in Setting, left \in 0 .. cut : \A v :
               (/\ left = 0 \/ ~leaked'
                /\ Restores(stack, guc, left, s, v))
                   => Restores(stack', guc', left, s, v)
    PROVE  IInv'
<1> DEFINE n == Len(stack)
<1>1. /\ TypeOK /\ Levels /\ SessionRestored /\ TransactionRestored
      /\ PinnedInCalls /\ PagePinned
      BY DEF IInv
<1>2. /\ stack \in Seq(Frame) /\ n \in Nat /\ DOMAIN stack = 1 .. n
      /\ \A i \in 1 .. n : stack[i] \in Frame
      /\ stack = <<>> <=> n = 0
      BY <1>1, StackFacts
<1>3. /\ DOMAIN stack' = 1 .. cut
      /\ \A i \in 1 .. cut : i \in 1 .. n /\ i \in 0 .. cut
      /\ stack' = <<>> <=> cut = 0
      BY <1>2, LenProperties, EmptySeq
<1>4. TypeOK'
  <2>1. (session \in Settings /\ guc \in Settings /\ page \in Settings)'
        BY <1>1 DEF TypeOK, Settings
  <2>2. (stack \in Seq(Frame) /\ Len(stack) <= MaxStack)'
    <3>1. Frame' = Frame
          BY DEF Frame
    <3>2. n <= MaxStack
          BY <1>1 DEF TypeOK
    <3> QED BY <1>2, <3>1, <3>2, StableAssumption
  <2>3. \A i \in 1 .. cut : stack'[i].kind = "transaction" <=> i = 1
        BY <1>1, <1>2, <1>3 DEF TypeOK
  <2>4. \A i \in 1 .. cut : stack'[i].kind \in Calls =>
            (stack'[i].level <=> DOMAIN stack'[i].saved # {})
    <3> SUFFICES ASSUME NEW i \in 1 .. cut, stack'[i].kind \in Calls
                 PROVE  stack'[i].level <=> DOMAIN stack'[i].saved # {}
        OBVIOUS
    <3>1. stack[i].level <=> DOMAIN stack[i].saved # {}
          BY <1>1, <1>2, <1>3 DEF TypeOK
    <3>2. CASE stack'[i].saved = stack[i].saved
          BY <3>1, <3>2
    <3>3. CASE /\ stack[i].level = TRUE
               /\ DOMAIN stack[i].saved \subseteq DOMAIN stack'[i].saved
          BY <3>1, <3>3
    <3> QED BY <3>2, <3>3
  <2>5. parallel' \in BOOLEAN /\ leaked' \in BOOLEAN
        OBVIOUS
  <2> QED BY <1>3, <2>1, <2>2, <2>3, <2>4, <2>5 DEF TypeOK, Settings, Frame, Calls
<1>5. Levels'
  <2>1. ASSUME NEW i \in 1 .. cut
        PROVE  /\ stack'[i].kind \notin Calls => stack'[i].level
               /\ ~stack'[i].level => DOMAIN stack'[i].saved = {}
    <3>1. /\ stack[i].kind \notin Calls => stack[i].level
          /\ ~stack[i].level => DOMAIN stack[i].saved = {}
          BY <1>1, <1>2, <1>3 DEF Levels
    <3> QED BY <3>1
  <2> QED BY <1>3, <2>1 DEF Levels, Calls
<1>6. SessionRestored'
  <2>1. ASSUME NEW s \in Setting
        PROVE  Restores(stack', guc', 0, s, session'[s])
    <3>1. PICK v : v = session[s]
          OBVIOUS
    <3>2. Restores(stack, guc, 0, s, v) /\ 0 \in 0 .. cut
          BY <1>1, <1>2, <3>1 DEF SessionRestored
    <3> QED BY <3>1, <3>2
  <2> QED BY <2>1 DEF SessionRestored, Restores, IsLowest, Saves
<1>7. TransactionRestored'
  <2>1. ASSUME ~leaked', stack' # <<>>, NEW s \in Setting
        PROVE  Restores(stack', guc', 1, s, session'[s])
    <3>1. PICK v : v = session[s]
          OBVIOUS
    <3>2. stack # <<>> /\ 1 \in 0 .. cut /\ ~leaked
          BY <1>2, <1>3, <2>1
    <3>3. Restores(stack, guc, 1, s, v)
          BY <1>1, <3>1, <3>2 DEF TransactionRestored
    <3> QED BY <2>1, <3>1, <3>2, <3>3
  <2> QED BY <2>1 DEF TransactionRestored, Restores, IsLowest, Saves
<1>8. PinnedInCalls'
  <2>1. ASSUME ~leaked', NEW i \in 1 .. cut, NEW s \in Pinned, stack'[i].kind \in Calls
        PROVE  Restores(stack', guc', i, s, Exact)
    <3>1. s \in Setting
          BY StableAssumption
    <3>2. Restores(stack, guc, i, s, Exact)
          BY <1>1, <1>2, <1>3, <2>1 DEF PinnedInCalls
    <3> QED BY <1>3, <2>1, <3>1, <3>2
  <2> QED BY <1>3, <2>1 DEF PinnedInCalls, Calls, Restores, IsLowest, Saves
<1>9. PagePinned'
      BY <1>1 DEF PagePinned
<1> QED BY <1>4, <1>5, <1>6, <1>7, <1>8, <1>9 DEF IInv

LEMMA ReturnIInv == IInv /\ Return => IInv'
<1> SUFFICES ASSUME IInv, Return PROVE IInv'
    OBVIOUS
<1> DEFINE n == Len(stack)
           cut == n - 1
           own == stack[n].saved
<1>1. TypeOK
      BY DEF IInv
<1>2. /\ stack \in Seq(Frame) /\ n \in Nat /\ n > 0 /\ stack # <<>>
      /\ \A i \in 1 .. n : stack[i] \in Frame
      /\ DOMAIN guc = Setting /\ guc \in [Setting -> Style]
      BY <1>1, StackFacts DEF Return, TypeOK, Settings
<1>3. /\ stack' \in Seq(Frame) /\ Len(stack') = cut
      /\ \A i \in 1 .. cut : stack'[i] = stack[i]
  <2>1. stack' = Front(stack)
        BY DEF Return
  <2>2. stack' = SubSeq(stack, 1, cut) /\ cut \in 0 .. n
        BY <1>2, <2>1 DEF Front
  <2> QED BY <1>2, <2>2, PrefixFacts
<1>4. guc' = Overridden(own, guc)
      BY <1>2 DEF Return, Last
<1>5. /\ own \in [DOMAIN own -> Style] /\ DOMAIN own \subseteq Setting
      BY <1>2, FrameFacts
<1> HIDE DEF own
<1>6. guc' \in Settings
  <2>1. guc' \in [DOMAIN own \cup Setting -> Style] /\ DOMAIN own \cup Setting = Setting
        BY <1>2, <1>4, <1>5, OverriddenTyped
  <2> QED BY <2>1 DEF Settings
<1>7. parallel' \in BOOLEAN /\ leaked' = leaked /\ session' = session /\ page' = page
      /\ leaked \in BOOLEAN
      BY <1>1 DEF Return, TypeOK
<1>8. ASSUME NEW s \in Setting, NEW left \in 0 .. cut, NEW v,
             Restores(stack, guc, left, s, v)
      PROVE  Restores(stack', guc', left, s, v)
  <2>1. /\ s \in DOMAIN own => guc'[s] = own[s]
        /\ s \notin DOMAIN own => guc'[s] = guc[s]
        BY <1>2, <1>4, OverriddenIs
  <2>2. /\ \A i \in cut + 1 .. n : i = n
        /\ n \in cut + 1 .. n /\ cut \in 0 .. n
        BY <1>2
  <2>3. Saves(stack, n, s) <=> s \in DOMAIN own
        BY DEF own, Saves
  <2>4. \A i \in cut + 1 .. n : IsLowest(stack, cut, i, s) => guc'[s] = stack[i].saved[s]
        BY <2>1, <2>2, <2>3 DEF IsLowest, own
  <2>5. (\A i \in cut + 1 .. n : ~Saves(stack, i, s)) => guc'[s] = guc[s]
        BY <2>1, <2>2, <2>3
  <2> QED BY <1>2, <1>3, <1>8, <2>2, <2>4, <2>5, EndRestores
<1>9. cut \in 0 .. n
      BY <1>2
<1> QED BY <1>3, <1>6, <1>7, <1>8, <1>9, ShortenIInv

(***************************************************************************)
(* The levels above the first `left` frames end together.                  *)
(***************************************************************************)
LEMMA BackFacts ==
    ASSUME TypeOK, NEW left \in 0 .. Len(stack), NEW saved,
           saved = SavedBy(SubSeq(stack, left + 1, Len(stack))),
           guc' = Overridden(saved, guc)
    PROVE  /\ guc' \in Settings
           /\ \A s \in Setting : \A i \in left + 1 .. Len(stack) :
                  IsLowest(stack, left, i, s) => guc'[s] = stack[i].saved[s]
           /\ \A s \in Setting :
                  (\A i \in left + 1 .. Len(stack) : ~Saves(stack, i, s)) => guc'[s] = guc[s]
<1> DEFINE n == Len(stack)
<1>1. /\ stack \in Seq(Frame) /\ n \in Nat /\ n \in left .. n
      /\ DOMAIN guc = Setting /\ guc \in [Setting -> Style]
      BY StackFacts DEF TypeOK, Settings
<1>2. /\ saved \in [DOMAIN saved -> Style] /\ DOMAIN saved \subseteq Setting
      /\ \A s \in DOMAIN saved : \E i \in left + 1 .. n : Saves(stack, i, s)
      /\ \A s : \A i \in left + 1 .. n :
             (Saves(stack, i, s) /\ \A j \in left + 1 .. i - 1 : ~Saves(stack, j, s)) =>
                 s \in DOMAIN saved /\ saved[s] = stack[i].saved[s]
      BY <1>1, SubSaved
<1>3. guc' \in Settings
  <2>1. guc' \in [DOMAIN saved \cup Setting -> Style] /\ DOMAIN saved \cup Setting = Setting
        BY <1>1, <1>2, OverriddenTyped
  <2> QED BY <2>1 DEF Settings
<1>4. ASSUME NEW s \in Setting
      PROVE  /\ s \in DOMAIN saved => guc'[s] = saved[s]
             /\ s \notin DOMAIN saved => guc'[s] = guc[s]
      BY <1>1, OverriddenIs
<1>5. ASSUME NEW s \in Setting, NEW i \in left + 1 .. n, IsLowest(stack, left, i, s)
      PROVE  guc'[s] = stack[i].saved[s]
  <2>1. s \in DOMAIN saved /\ saved[s] = stack[i].saved[s]
        BY <1>2, <1>5 DEF IsLowest
  <2> QED BY <1>4, <2>1
<1>6. ASSUME NEW s \in Setting, \A i \in left + 1 .. n : ~Saves(stack, i, s)
      PROVE  guc'[s] = guc[s]
      BY <1>2, <1>4, <1>6
<1> QED BY <1>3, <1>5, <1>6

LEMMA AbortIInv ==
    ASSUME IInv, NEW left \in 0 .. MaxStack, Abort(left)
    PROVE  IInv'
<1> DEFINE n == Len(stack)
           saved == SavedBy(Above(left))
<1>1. TypeOK
      BY DEF IInv
<1>2. /\ stack \in Seq(Frame) /\ n \in Nat /\ left \in 0 .. n
      BY <1>1, StackFacts, StableAssumption DEF Abort
<1>3. /\ stack' \in Seq(Frame) /\ Len(stack') = left
      /\ \A i \in 1 .. left : stack'[i] = stack[i]
  <2>1. stack' = SubSeq(stack, 1, left)
        BY DEF Abort
  <2> QED BY <1>2, <2>1, PrefixFacts
<1>4. saved = SavedBy(SubSeq(stack, left + 1, n)) /\ guc' = Overridden(saved, guc)
      BY DEF Abort, Above
<1> HIDE DEF saved
<1>5. /\ guc' \in Settings
      /\ \A s \in Setting : \A i \in left + 1 .. n :
             IsLowest(stack, left, i, s) => guc'[s] = stack[i].saved[s]
      /\ \A s \in Setting :
             (\A i \in left + 1 .. n : ~Saves(stack, i, s)) => guc'[s] = guc[s]
      BY <1>1, <1>2, <1>4, BackFacts
<1>6. parallel' \in BOOLEAN /\ leaked' = leaked /\ session' = session /\ page' = page
      /\ leaked \in BOOLEAN
      BY <1>1 DEF Abort, TypeOK
<1>7. ASSUME NEW s \in Setting, NEW l \in 0 .. left, NEW v,
             Restores(stack, guc, l, s, v)
      PROVE  Restores(stack', guc', l, s, v)
      BY <1>2, <1>3, <1>5, <1>7, EndRestores
<1> QED BY <1>2, <1>3, <1>5, <1>6, <1>7, ShortenIInv

(***************************************************************************)
(* The hook's error handler.                                               *)
(***************************************************************************)
LEMMA WithSaved ==
    ASSUME NEW f \in Frame, NEW S \in SUBSET Setting, NEW saved \in [S -> Style],
           NEW t, t = [f EXCEPT !.saved = saved]
    PROVE  t \in Frame /\ t.kind = f.kind /\ t.level = f.level /\ t.saved = saved
<1>1. PICK T \in SUBSET Setting :
          f \in [kind : {"transaction", "hook", "insert", "function", "block"},
                 level : BOOLEAN, saved : [T -> Style]]
  <2>1. PICK T \in SUBSET Setting : f.saved \in [T -> Style]
        BY DEF Frame
  <2> QED BY <2>1 DEF Frame
<1>2. /\ t.kind = f.kind /\ t.level = f.level /\ t.saved = saved
      /\ t = [kind |-> f.kind, level |-> f.level, saved |-> saved]
      BY <1>1
<1>3. /\ f.kind \in {"transaction", "hook", "insert", "function", "block"}
      /\ f.level \in BOOLEAN
      BY FrameFacts
<1>4. t \in Frame
  <2> DEFINE kind == f.kind
             level == f.level
  <2> HIDE DEF kind, level
  <2>1. [kind |-> kind, level |-> level, saved |-> saved] \in Frame
        BY <1>3, IsFrame DEF kind, level
  <2> QED BY <1>2, <2>1 DEF kind, level
<1> QED BY <1>2, <1>4

\* Below the hook is a level, the transaction's at least: one is the topmost.
LEMMA LevelBelow ==
    ASSUME TypeOK, Levels, NEW left \in 1 .. Len(stack)
    PROVE  \E i \in 1 .. left : stack[i].level /\ \A j \in i + 1 .. left : ~stack[j].level
<1> DEFINE depth == {d \in 0 .. left - 1 : stack[left - d].level}
<1>1. /\ Len(stack) \in Nat /\ DOMAIN stack = 1 .. Len(stack) /\ left \in Nat
      BY StackFacts
<1>2. stack[1].level
  <2>1. stack[1].kind = "transaction"
        BY <1>1 DEF TypeOK
  <2> QED BY <1>1, <2>1 DEF Levels, Calls
<1>3. left - 1 \in depth /\ depth \in SUBSET Nat
      BY <1>1, <1>2
<1>4. PICK d \in depth : \A e \in depth : d <= e
  <2> HIDE DEF depth
  <2> QED BY <1>3, HasLeast
<1>5. /\ left - d \in 1 .. left /\ stack[left - d].level
      /\ \A j \in left - d + 1 .. left : /\ left - j \in 0 .. left - 1
                                         /\ left - (left - j) = j /\ ~(d <= left - j)
      BY <1>1
<1>6. \A j \in left - d + 1 .. left : ~stack[j].level
  <2> SUFFICES ASSUME NEW j \in left - d + 1 .. left, stack[j].level
               PROVE  FALSE
      OBVIOUS
  <2>1. left - j \in depth
        BY <1>5
  <2> QED BY <1>4, <1>5, <2>1
<1> QED BY <1>5, <1>6

LEMMA CatchIInv ==
    ASSUME IInv, NEW left \in 0 .. MaxStack, catch_others(left)
    PROVE  IInv'
<1> DEFINE n == Len(stack)
           first == {i \in left + 1 .. Len(stack) : Finally(i)}
           kept == IF first = {} THEN Len(stack)
                   ELSE (CHOOSE i \in first : \A j \in first : i <= j) - 1
           lost == SavedBy(SubSeq(stack, left + 1, kept))
           Below(i) == stack[i].level /\ \A j \in i + 1 .. left : ~stack[j].level
           below == CHOOSE i \in 1 .. left : Below(i)
<1>1. TypeOK /\ Levels
      BY DEF IInv
<1>2. /\ stack \in Seq(Frame) /\ n \in Nat /\ DOMAIN stack = 1 .. n
      /\ \A i \in 1 .. n : stack[i] \in Frame
      /\ DOMAIN guc = Setting /\ guc \in [Setting -> Style]
      BY <1>1, StackFacts DEF TypeOK, Settings
<1>3. /\ left \in 1 .. n /\ left + 1 \in 1 .. n /\ left \in 0 .. n
      /\ \A i \in left + 1 .. n : i \in 1 .. n /\ stack[i].kind \notin {"transaction", "block"}
  <2>1. left \in Nat /\ left < n /\ stack[left + 1].kind = "hook"
        BY <1>2, StableAssumption DEF catch_others
  <2>2. left + 1 \in DOMAIN stack
        BY <1>2, <2>1
  <2>3. left # 0
        BY <1>1, <2>1, <2>2 DEF TypeOK
  <2>4. \A i \in left + 1 .. n : i \in 1 .. n /\ i # 1
        BY <1>2, <2>1, <2>3
  <2>5. \A i \in left + 1 .. n : i = left + 1 \/ i \in left + 2 .. n
        BY <1>2, <2>1
  <2>6. \A i \in left + 2 .. n : stack[i].kind # "block"
        BY DEF catch_others
  <2>7. \A i \in 1 .. n : stack[i].kind = "transaction" => i = 1
        BY <1>1, <1>2 DEF TypeOK
  <2> QED BY <1>2, <2>1, <2>3, <2>4, <2>5, <2>6, <2>7
<1>4. /\ kept \in left .. n
      /\ \A i \in left + 1 .. kept : i \in 1 .. n /\ i \in left + 1 .. n /\ ~Finally(i)
  <2>1. CASE first = {}
    <3>1. kept = n
          BY <2>1
    <3>2. \A i \in left + 1 .. n : ~Finally(i)
          BY <2>1
    <3> HIDE DEF kept, first
    <3> QED BY <1>2, <1>3, <3>1, <3>2
  <2>2. CASE first # {}
    <3> DEFINE m == CHOOSE i \in first : \A j \in first : i <= j
    <3>1. first \in SUBSET Nat
          BY <1>2, <1>3
    <3>2. m \in first /\ \A j \in first : m <= j
      <4> HIDE DEF first
      <4>1. \E i \in first : \A j \in first : i <= j
            BY <2>2, <3>1, HasLeast
      <4> QED BY <4>1
    <3>3. kept = m - 1
          BY <2>2
    <3> HIDE DEF m, kept
    <3>4. m \in left + 1 .. n /\ \A j \in left + 1 .. n : Finally(j) => m <= j
          BY <3>2
    <3> HIDE DEF first
    <3>5. kept \in left .. n /\ \A i \in left + 1 .. kept : i \in left + 1 .. n /\ ~(m <= i)
          BY <1>2, <1>3, <3>3, <3>4
    <3> QED BY <1>3, <3>4, <3>5
  <2> QED BY <2>1, <2>2
<1>5. below \in 1 .. left /\ Below(below)
  <2>1. \E i \in 1 .. left : Below(i)
        BY <1>1, <1>3, LevelBelow
  <2> HIDE DEF Below
  <2> QED BY <2>1
<1>6. /\ guc' = Overridden(SavedBy(SubSeq(stack, kept + 1, n)), guc)
      /\ stack' = [i \in 1 .. left |->
                      IF i = below THEN [stack[i] EXCEPT !.saved = Overridden(stack[i].saved, lost)]
                      ELSE stack[i]]
      /\ leaked' = (leaked \/ \E i \in left + 1 .. kept : stack[i].kind = "function")
      /\ session' = session /\ parallel' = parallel /\ page' = page
      BY DEF catch_others, Above
<1> HIDE DEF first, kept, below
<1>7. /\ lost \in [DOMAIN lost -> Style] /\ DOMAIN lost \subseteq Setting
      /\ \A s \in DOMAIN lost : \E i \in left + 1 .. kept : Saves(stack, i, s)
      BY <1>2, <1>3, <1>4, SubSaved
<1>8. lost = SavedBy(SubSeq(stack, left + 1, kept))
      OBVIOUS
<1> HIDE DEF lost
<1>9. /\ stack' \in Seq(Frame) /\ Len(stack') = left
      /\ \A i \in 1 .. left : i # below => stack'[i] = stack[i]
      /\ stack'[below].kind = stack[below].kind /\ stack'[below].level = stack[below].level
      /\ stack'[below].saved = Overridden(stack[below].saved, lost)
  <2> DEFINE own == stack[below].saved
             saved == Overridden(own, lost)
             f == [stack[below] EXCEPT !.saved = saved]
             s1 == SubSeq(stack, 1, left)
  <2>1. own \in [DOMAIN own -> Style] /\ DOMAIN own \subseteq Setting /\ stack[below] \in Frame
        BY <1>2, <1>3, <1>5, FrameFacts
  <2>2. saved \in [DOMAIN own \cup DOMAIN lost -> Style]
    <3> HIDE DEF own
    <3> QED BY <1>7, <2>1, OverriddenTyped
  <2>3. f \in Frame /\ f.kind = stack[below].kind /\ f.level = stack[below].level
        /\ f.saved = saved
    <3> DEFINE frame == stack[below]
               S == DOMAIN own \cup DOMAIN lost
    <3>1. S \in SUBSET Setting /\ saved \in [S -> Style] /\ frame \in Frame
          BY <1>7, <2>1, <2>2
    <3>2. f = [frame EXCEPT !.saved = saved]
          OBVIOUS
    <3> HIDE DEF own, saved, frame, S, f
    <3>3. f \in Frame /\ f.kind = frame.kind /\ f.level = frame.level /\ f.saved = saved
          BY <3>1, <3>2, WithSaved
    <3> QED BY <3>3 DEF frame
  <2>4. s1 \in Seq(Frame) /\ Len(s1) = left /\ \A i \in 1 .. left : s1[i] = stack[i]
        BY <1>2, <1>3, PrefixFacts
  <2>5. stack' = [i \in 1 .. left |-> IF i = below THEN f ELSE stack[i]]
        BY <1>6
  <2> HIDE DEF f, s1
  <2>6. DOMAIN s1 = 1 .. left
        BY <2>4, LenProperties
  <2>7. stack' = [s1 EXCEPT ![below] = f]
    <3>1. s1 = [i \in 1 .. left |-> stack[i]]
          BY <2>4, <2>6, LenProperties
    <3> QED BY <1>5, <2>5, <3>1
  <2>8. stack' \in Seq(Frame) /\ Len(stack') = left
        BY <1>5, <2>3, <2>4, <2>7, ExceptSeq
  <2>9. stack'[below] = f /\ \A i \in 1 .. left : i # below => stack'[i] = stack[i]
        BY <1>5, <2>5
  <2> QED BY <2>3, <2>8, <2>9
<1>10. DOMAIN lost = {} \/ leaked'
  <2> SUFFICES ASSUME ~leaked', NEW s \in DOMAIN lost PROVE FALSE
      OBVIOUS
  <2>1. PICK i \in left + 1 .. kept : Saves(stack, i, s)
        BY <1>7
  <2>2. stack[i].kind # "function"
        BY <1>6
  <2>3. stack[i].kind \in {"transaction", "hook", "insert", "function", "block"}
        BY <1>2, <1>4, FrameFacts
  <2>4. stack[i].kind \in Calls
        BY <1>3, <1>4, <2>2, <2>3 DEF Calls
  <2>5. ~stack[i].level
        BY <1>4, <2>4 DEF Finally
  <2> QED BY <1>1, <1>2, <1>4, <2>1, <2>5 DEF Levels, Saves
<1>11. \A j \in below + 1 .. left : DOMAIN stack[j].saved = {}
  <2> SUFFICES ASSUME NEW j \in below + 1 .. left PROVE DOMAIN stack[j].saved = {}
      OBVIOUS
  <2>1. j \in 1 .. n /\ ~stack[j].level
        BY <1>2, <1>3, <1>5
  <2> QED BY <1>1, <1>2, <2>1 DEF Levels
<1>12. guc' \in Settings
  <2>1. kept \in 0 .. Len(stack)
        BY <1>2, <1>3, <1>4
  <2> QED BY <1>1, <1>6, <2>1, BackFacts
<1>13. ASSUME NEW s \in Setting, NEW l \in 0 .. left, NEW v,
              l = 0 \/ ~leaked', Restores(stack, guc, l, s, v)
       PROVE  Restores(stack', guc', l, s, v)
  <2>1. l < below \/ DOMAIN lost = {}
        BY <1>3, <1>5, <1>10, <1>13
  <2>2. s \in DOMAIN guc
        BY <1>2
  <2>3. guc' = Overridden(SavedBy(SubSeq(stack, kept + 1, Len(stack))), guc)
        BY <1>6
  <2>4. /\ kept \in left .. Len(stack) /\ left \in 0 .. Len(stack) /\ below \in 1 .. left
        BY <1>3, <1>4, <1>5
  <2>5. /\ stack' \in Seq(Frame) /\ Len(stack') = left
        /\ \A i \in 1 .. left : i # below => stack'[i] = stack[i]
        /\ stack'[below].saved = Overridden(stack[below].saved, lost)
        BY <1>9
  <2> QED BY <1>2, <1>8, <1>11, <1>13, <2>1, <2>2, <2>3, <2>4, <2>5, CatchRestores, SMTT(90)
<1>14. \A i \in 1 .. left :
           /\ stack'[i].kind = stack[i].kind /\ stack'[i].level = stack[i].level
           /\ \/ stack'[i].saved = stack[i].saved
              \/ /\ stack[i].level = TRUE
                 /\ DOMAIN stack[i].saved \subseteq DOMAIN stack'[i].saved
  <2>1. \A i \in 1 .. left : i # below =>
            /\ stack'[i].kind = stack[i].kind /\ stack'[i].level = stack[i].level
            /\ stack'[i].saved = stack[i].saved
        BY <1>9
  <2>2. stack[below].level = TRUE
        BY <1>2, <1>3, <1>5, FrameFacts
  <2>3. DOMAIN stack[below].saved \subseteq DOMAIN stack'[below].saved
    <3> SUFFICES ASSUME NEW s \in DOMAIN stack[below].saved
                 PROVE  s \in DOMAIN stack'[below].saved
        OBVIOUS
    <3> QED BY <1>9, OverriddenIs
  <2> QED BY <1>9, <2>1, <2>2, <2>3
<1>15. leaked' \in BOOLEAN /\ (leaked => leaked') /\ parallel' \in BOOLEAN
       BY <1>1, <1>6 DEF TypeOK
<1> QED BY <1>3, <1>6, <1>9, <1>12, <1>13, <1>14, <1>15, ShortenIInv

(***************************************************************************)
(* The other steps, and the theorems.                                      *)
(***************************************************************************)
LEMMA SetIInv ==
    ASSUME IInv, NEW s \in Setting, NEW style \in Style, Set(s, style)
    PROVE  IInv'
<1>1. /\ TypeOK /\ stack = <<>> /\ PagePinned
      BY DEF IInv, Set
<1>2. /\ stack' = <<>> /\ page' = page /\ leaked' = leaked /\ parallel' = parallel
      /\ session' = [session EXCEPT ![s] = style] /\ guc' = session'
      BY DEF Set
<1>3. Len(stack') = 0 /\ DOMAIN stack' = {} /\ stack' = stack
      BY <1>1, <1>2
<1>4. session' \in Settings /\ guc' \in Settings
      BY <1>1, <1>2 DEF TypeOK, Settings
<1>5. TypeOK'
  <2>1. stack' \in Seq(Frame) /\ Len(stack') <= MaxStack /\ page' \in Settings
        BY <1>1, <1>2, <1>3 DEF TypeOK
  <2>2. parallel' \in BOOLEAN /\ leaked' \in BOOLEAN
        BY <1>1, <1>2 DEF TypeOK
  <2> QED BY <1>3, <1>4, <2>1, <2>2 DEF TypeOK, Settings, Frame
<1>6. SessionRestored'
      BY <1>2, <1>3 DEF SessionRestored, Restores, IsLowest, Saves
<1>7. Levels' /\ TransactionRestored' /\ PinnedInCalls'
      BY <1>2, <1>3 DEF Levels, TransactionRestored, PinnedInCalls
<1>8. PagePinned'
      BY <1>1, <1>2 DEF PagePinned
<1> QED BY <1>5, <1>6, <1>7, <1>8 DEF IInv

\* While a call is on top, what it has pinned is in force.
LEMMA PinnedOnTop ==
    ASSUME IInv, Top \in Calls, ~leaked, NEW s \in Pinned
    PROVE  guc[s] = Exact
<1>1. TypeOK /\ PinnedInCalls
      BY DEF IInv
<1>2. /\ Len(stack) \in Nat /\ DOMAIN stack = 1 .. Len(stack)
      /\ stack = <<>> <=> Len(stack) = 0
      BY <1>1, StackFacts
<1>3. stack # <<>> /\ Top = stack[Len(stack)].kind
  <2>1. stack # <<>>
        BY DEF Top, Calls
  <2> QED BY <2>1 DEF Top, Last
<1>4. Len(stack) \in DOMAIN stack
      BY <1>2, <1>3
<1>5. Restores(stack, guc, Len(stack), s, Exact)
      BY <1>1, <1>3, <1>4 DEF PinnedInCalls
<1>6. \A i \in Len(stack) + 1 .. Len(stack) : FALSE
      BY <1>2
<1> QED BY <1>5, <1>6 DEF Restores

LEMMA WriteIInv == IInv /\ write => IInv'
<1> SUFFICES ASSUME IInv, write PROVE IInv'
    OBVIOUS
<1>1. /\ TypeOK /\ Levels /\ SessionRestored /\ TransactionRestored /\ PinnedInCalls
      BY DEF IInv
<1>2. /\ page' = guc /\ session' = session /\ guc' = guc /\ stack' = stack
      /\ parallel' = parallel /\ leaked' = leaked /\ Top \in Calls
      BY DEF write, Calls
<1>3. TypeOK'
      BY <1>1, <1>2 DEF TypeOK, Settings, Frame, Calls
<1>4. Levels' /\ SessionRestored' /\ TransactionRestored' /\ PinnedInCalls'
      BY <1>1, <1>2 DEF Levels, SessionRestored, TransactionRestored, PinnedInCalls,
                        Restores, IsLowest, Saves, Calls
<1>5. PagePinned'
      BY <1>2, PinnedOnTop DEF PagePinned
<1> QED BY <1>3, <1>4, <1>5 DEF IInv

LEMMA BeginIInv == IInv /\ Begin => IInv'
<1> SUFFICES ASSUME IInv, Begin PROVE IInv'
    OBVIOUS
<1>1. /\ {} \in SUBSET Setting /\ [s \in {} |-> Exact] \in [{} -> Style]
      /\ "transaction" \in {"transaction", "hook", "insert", "function", "block"}
      /\ "transaction" \notin Calls /\ TRUE \in BOOLEAN
      BY DEF Calls
<1>2. /\ Push("transaction", TRUE, [s \in {} |-> Exact])
      /\ parallel' \in BOOLEAN /\ stack = <<>>
      BY DEF Begin
<1> QED BY <1>1, <1>2, PushIInv

LEMMA FunctionIInv ==
    ASSUME IInv, NEW s \in Setting, NEW style \in Style, Function(s, style)
    PROVE  IInv'
<1>1. /\ {s} \in SUBSET Setting /\ [t \in {s} |-> style] \in [{s} -> Style]
      /\ "function" \in {"transaction", "hook", "insert", "function", "block"}
      /\ "function" \notin Calls /\ TRUE \in BOOLEAN
      BY DEF Calls
<1>2. /\ Push("function", TRUE, [t \in {s} |-> style]) /\ stack # <<>>
      /\ parallel' \in BOOLEAN
      BY DEF Function, Running, IInv, TypeOK
<1> QED BY <1>1, <1>2, PushIInv

LEMMA BlockIInv == IInv /\ Block => IInv'
<1> SUFFICES ASSUME IInv, Block PROVE IInv'
    OBVIOUS
<1>1. /\ {} \in SUBSET Setting /\ [s \in {} |-> Exact] \in [{} -> Style]
      /\ "block" \in {"transaction", "hook", "insert", "function", "block"}
      /\ "block" \notin Calls /\ TRUE \in BOOLEAN
      BY DEF Calls
<1>2. /\ Push("block", TRUE, [s \in {} |-> Exact])
      /\ parallel' \in BOOLEAN /\ stack # <<>>
      BY DEF Block, Running, IInv, TypeOK
<1> QED BY <1>1, <1>2, PushIInv

LEMMA CallIInv ==
    ASSUME IInv, NEW caller \in Calls, with_stable_io(caller)
    PROVE  IInv'
<1> DEFINE level == Needed # {}
           pins == [s \in Needed |-> Exact]
<1>1. /\ Needed \in SUBSET Setting /\ pins \in [Needed -> Style] /\ level \in BOOLEAN
      /\ caller \in {"transaction", "hook", "insert", "function", "block"}
      /\ caller # "transaction"
      BY StableAssumption DEF Needed, Calls
<1>2. /\ Push(caller, level, pins) /\ parallel' \in BOOLEAN /\ stack # <<>>
      BY DEF with_stable_io, Running, IInv, TypeOK
<1>3. \A s \in Pinned : IF s \in Needed THEN pins[s] = Exact ELSE guc[s] = Exact
      BY DEF Needed
<1>4. level <=> Needed # {}
      OBVIOUS
<1> HIDE DEF level, pins
<1> QED BY <1>1, <1>2, <1>3, <1>4, PushIInv

LEMMA StutterIInv == IInv /\ UNCHANGED vars => IInv'
<1> SUFFICES ASSUME IInv, UNCHANGED vars PROVE IInv'
    OBVIOUS
<1>1. /\ page' = page /\ session' = session /\ guc' = guc /\ stack' = stack
      /\ parallel' = parallel /\ leaked' = leaked
      BY DEF vars
<1>2. TypeOK'
      BY <1>1 DEF IInv, TypeOK, Settings, Frame, Calls
<1>3. Levels' /\ SessionRestored' /\ TransactionRestored' /\ PinnedInCalls' /\ PagePinned'
      BY <1>1 DEF IInv, Levels, SessionRestored, TransactionRestored, PinnedInCalls,
                  PagePinned, Restores, IsLowest, Saves, Calls
<1> QED BY <1>2, <1>3 DEF IInv

LEMMA StepIInv == IInv /\ [Next]_vars => IInv'
<1> SUFFICES ASSUME IInv, [Next]_vars PROVE IInv'
    OBVIOUS
<1>1. ASSUME NEW s \in Setting, NEW style \in Style, Set(s, style) \/ Function(s, style)
      PROVE  IInv'
      BY <1>1, SetIInv, FunctionIInv
<1>2. ASSUME NEW left \in 0 .. MaxStack, Abort(left) \/ catch_others(left)
      PROVE  IInv'
      BY <1>2, AbortIInv, CatchIInv
<1>3. ASSUME NEW caller \in Calls, with_stable_io(caller)
      PROVE  IInv'
      BY <1>3, CallIInv
<1> QED BY <1>1, <1>2, <1>3, BeginIInv, BlockIInv, WriteIInv, ReturnIInv, StutterIInv DEF Next

\* Of every state of the program.
THEOREM AlwaysIInv == Spec => []IInv
<1> QED BY InitIInv, StepIInv, PTL DEF Spec

\* The settings, the stack and the page are of their types; only a call that
\* pins has a level of its own.
THEOREM TypeCorrect == Spec => []TypeOK
<1>1. IInv => TypeOK
      BY DEF IInv
<1> QED BY <1>1, AlwaysIInv, PTL

\* However calls, functions and exception blocks were nested, wherever an error
\* came from and whatever caught it: the session, and the transaction unless a
\* function's setting has leaked through the hook, has its own settings back.
THEOREM AlwaysSettingsRestored == Spec => []SettingsRestored
<1>1. IInv => SettingsRestored
  <2> SUFFICES ASSUME IInv PROVE SettingsRestored
      OBVIOUS
  <2>1. TypeOK /\ SessionRestored /\ TransactionRestored
        BY DEF IInv
  <2>2. /\ Len(stack) \in Nat /\ stack = <<>> <=> Len(stack) = 0
        /\ guc \in [Setting -> Style] /\ session \in [Setting -> Style]
        BY <2>1, StackFacts DEF TypeOK, Settings
  <2>3. ASSUME NEW left \in Nat, Len(stack) = left,
               \A s \in Setting : Restores(stack, guc, left, s, session[s])
        PROVE  guc = session
    <3>1. \A i \in left + 1 .. Len(stack) : FALSE
          BY <2>3
    <3>2. \A s \in Setting : guc[s] = session[s]
          BY <2>3, <3>1 DEF Restores
    <3> QED BY <2>2, <3>2
  <2>4. stack = <<>> => guc = session
        BY <2>1, <2>2, <2>3 DEF SessionRestored
  <2>5. Len(stack) = 1 /\ ~leaked => guc = session
        BY <2>1, <2>2, <2>3 DEF TransactionRestored
  <2> QED BY <2>4, <2>5 DEF SettingsRestored
<1> QED BY <1>1, AlwaysIInv, PTL

\* A bound reads back as what was written, if every setting its text depends on
\* is pinned: it was written and is read with all of them at the same value.
THEOREM AlwaysReadsBack == (Setting \subseteq Pinned) => (Spec => []BoundReadsBack)
<1> SUFFICES ASSUME Setting \subseteq Pinned PROVE Spec => []BoundReadsBack
    OBVIOUS
<1>1. IInv => BoundReadsBack
      BY DEF IInv, PagePinned, BoundReadsBack, ReadsBack
<1> QED BY <1>1, AlwaysIInv, PTL
=============================================================================
