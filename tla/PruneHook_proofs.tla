--------------------------- MODULE PruneHook_proofs ---------------------------
(***************************************************************************)
(* The two halves of prune_hook.rs.  Its hooks: for any nesting of planner *)
(* invocations and hooks, and wherever errors are caught, nothing is left  *)
(* of a plan that is over, and a summary is never borrowed while the cache *)
(* is changed.  Its clauses: whatever the query, a partition that is       *)
(* pruned holds no row of the result.                                      *)
(***************************************************************************)
EXTENDS PlannerHook, ClauseTree, IndexSummary_proofs,
        FiniteSetTheorems, SequenceTheorems

(* The hooks, by PlannerHook.                                              *)

\* The hook of a relation runs for the planner invocation below it, so the
\* outermost invocation is a planner.
Nested == \A i \in Hooks : i > 1 /\ stack[i - 1] = "plan"

OneHook ==
    /\ IN_HOOK <=> Hooks # {}
    /\ \A i, j \in Hooks : i = j

IInv == TypeOK /\ Nested /\ OneHook /\ CleanBetweenPlans

Frame == {"plan", "load", "eval"}

PlanAt(s) == {i \in DOMAIN s : s[i] = "plan"}

-----------------------------------------------------------------------------
(* Counting the planner invocations of a stack.                            *)

LEMMA PlansOf ==
    ASSUME NEW s \in Seq(Frame)
    PROVE  /\ IsFiniteSet(PlanAt(s)) /\ Plans(s) = Cardinality(PlanAt(s)) /\ Plans(s) \in Nat
           /\ Plans(s) = 0 <=> \A i \in DOMAIN s : s[i] # "plan"
<1>1. Len(s) \in Nat /\ DOMAIN s = 1 .. Len(s)
      BY LenProperties
<1>2. IsFiniteSet(1 .. Len(s))
      BY <1>1, FS_Interval
<1>3. PlanAt(s) \in SUBSET (1 .. Len(s))
      BY <1>1 DEF PlanAt
<1>4. IsFiniteSet(PlanAt(s)) /\ Plans(s) = Cardinality(PlanAt(s))
      BY <1>2, <1>3, FS_Subset DEF Plans, PlanAt
<1>5. Plans(s) \in Nat /\ (Plans(s) = 0 <=> PlanAt(s) = {})
      BY <1>4, FS_CardinalityType, FS_EmptySet
<1> QED BY <1>4, <1>5 DEF PlanAt

LEMMA PlansAppend ==
    ASSUME NEW s \in Seq(Frame), NEW x \in Frame
    PROVE  Plans(Append(s, x)) = IF x = "plan" THEN Plans(s) + 1 ELSE Plans(s)
<1> DEFINE n == Len(s) + 1
           t == Append(s, x)
<1>1. /\ t \in Seq(Frame) /\ Len(t) = n /\ Len(s) \in Nat
      /\ DOMAIN s = 1 .. Len(s) /\ DOMAIN t = 1 .. n
      /\ \A i \in 1 .. Len(s) : t[i] = s[i]
      /\ t[n] = x
      BY AppendProperties, LenProperties
<1>2. /\ IsFiniteSet(PlanAt(s)) /\ Plans(s) = Cardinality(PlanAt(s))
      /\ Plans(t) = Cardinality(PlanAt(t))
      BY <1>1, PlansOf
<1> HIDE DEF t
<1>3. PlanAt(t) = IF x = "plan" THEN PlanAt(s) \cup {n} ELSE PlanAt(s)
      BY <1>1 DEF PlanAt
<1>4. n \notin PlanAt(s)
      BY <1>1 DEF PlanAt
<1> HIDE DEF n
<1>5. Cardinality(PlanAt(s) \cup {n}) = Cardinality(PlanAt(s)) + 1
      BY <1>2, <1>4, FS_AddElement
<1>6. Plans(t) = IF x = "plan" THEN Plans(s) + 1 ELSE Plans(s)
      BY <1>2, <1>3, <1>5
<1> QED BY <1>6 DEF t

-----------------------------------------------------------------------------
(* The stack, its top and the hooks on it.                                 *)

LEMMA InitIInv == Init => IInv
<1> SUFFICES ASSUME Init PROVE IInv
    OBVIOUS
<1>1. /\ stack = <<>> /\ <<>> \in Seq(Frame) /\ Len(stack) = 0 /\ DOMAIN stack = {}
      /\ PLAN_DEPTH = 0
      BY EmptySeq DEF Init
<1>2. Hooks = {} /\ Plans(stack) = 0
      BY <1>1, PlansOf DEF Hooks
<1>3. CACHE = {} /\ FMGR_MEMO = NoMemo /\ ~IN_HOOK /\ IN_HOOK \in BOOLEAN
      BY DEF Init
<1>4. TypeOK
      BY <1>1, <1>2, <1>3, HookAssumption DEF TypeOK, NoMemo, Frame
<1>5. Nested /\ OneHook
      BY <1>2, <1>3 DEF Nested, OneHook
<1>6. CleanBetweenPlans
      BY <1>1, <1>2, <1>3 DEF CleanBetweenPlans
<1> QED BY <1>4, <1>5, <1>6 DEF IInv

LEMMA StackFacts ==
    ASSUME IInv
    PROVE  /\ stack \in Seq(Frame) /\ Len(stack) \in 0 .. MaxStack /\ MaxStack \in Nat
           /\ DOMAIN stack = 1 .. Len(stack)
           /\ \A i \in DOMAIN stack : stack[i] \in Frame
           /\ stack = <<>> <=> Len(stack) = 0
           /\ stack # <<>> => stack[1] = "plan" /\ Plans(stack) # 0
           /\ PLAN_DEPTH = Plans(stack) /\ PLAN_DEPTH \in Nat
<1>1. /\ stack \in Seq(Frame) /\ Len(stack) <= MaxStack /\ MaxStack \in Nat
      /\ PLAN_DEPTH = Plans(stack) /\ PLAN_DEPTH \in Nat
      BY HookAssumption DEF IInv, TypeOK, CleanBetweenPlans, Frame
<1>2. /\ Len(stack) \in Nat /\ DOMAIN stack = 1 .. Len(stack)
      /\ \A i \in DOMAIN stack : stack[i] \in Frame
      /\ stack = <<>> <=> Len(stack) = 0
      BY <1>1, LenProperties, EmptySeq
<1>3. stack # <<>> => 1 \in DOMAIN stack /\ stack[1] = "plan"
  <2>1. stack # <<>> => 1 \in DOMAIN stack
        BY <1>2
  <2>2. 1 \notin Hooks
        BY DEF IInv, Nested
  <2> QED BY <2>1, <2>2 DEF Hooks
<1> QED BY <1>1, <1>2, <1>3, PlansOf

LEMMA TopFacts ==
    ASSUME IInv, Top # "none"
    PROVE  /\ stack # <<>> /\ Len(stack) \in DOMAIN stack /\ Top = stack[Len(stack)]
           /\ Top # "plan" => /\ Hooks = {Len(stack)} /\ IN_HOOK
                              /\ Len(stack) > 1 /\ stack[Len(stack) - 1] = "plan"
           /\ Top = "plan" => Len(stack) \notin Hooks
<1>1. stack # <<>> /\ Top = stack[Len(stack)]
      BY DEF Top, Last
<1>2. Len(stack) \in DOMAIN stack
      BY <1>1, StackFacts
<1> QED BY <1>1, <1>2 DEF IInv, Nested, OneHook, Hooks

\* The stack up to a frame.
LEMMA LowerStack ==
    ASSUME IInv, NEW left \in 0 .. Len(stack) - 1, NEW t, t = SubSeq(stack, 1, left)
    PROVE  /\ t \in Seq(Frame) /\ Len(t) = left /\ DOMAIN t = 1 .. left
           /\ \A i \in 1 .. left : t[i] = stack[i]
           /\ t = <<>> <=> left = 0
           /\ Plans(t) \in Nat /\ (Plans(t) = 0 <=> left = 0)
<1>1. /\ Len(stack) \in Nat /\ left \in Int /\ left >= 0 /\ 1 \in Int
      /\ \A i \in 1 .. left : stack[i] \in Frame
      BY StackFacts
<1>2. /\ t \in Seq(Frame) /\ Len(t) = left /\ \A i \in 1 .. left : t[i] = stack[i]
      BY <1>1, SubSeqProperties
<1>3. DOMAIN t = 1 .. left /\ (t = <<>> <=> left = 0)
      BY <1>2, LenProperties, EmptySeq
<1>4. Plans(t) \in Nat /\ (Plans(t) = 0 <=> \A i \in DOMAIN t : t[i] # "plan")
      BY <1>2, PlansOf
<1>5. left # 0 => 1 \in 1 .. left /\ t[1] = "plan"
      BY <1>1, <1>2, StackFacts
<1>6. left = 0 => DOMAIN t = {}
      BY <1>3
<1>7. Plans(t) = 0 <=> left = 0
      BY <1>3, <1>4, <1>5, <1>6
<1> QED BY <1>2, <1>3, <1>4, <1>7

-----------------------------------------------------------------------------
(* Invocations that end: by returning, or with an error.                   *)

(***************************************************************************)
(* The `finally` of the planner invocations that end counts them off, and  *)
(* clears the caches with the last.                                        *)
(***************************************************************************)
LEMMA FinallyCounts ==
    ASSUME IInv, NEW left \in 0 .. Len(stack) - 1,
           stack' = SubSeq(stack, 1, left), Finally(left)
    PROVE  /\ PLAN_DEPTH' = Plans(stack') /\ PLAN_DEPTH' \in Nat
           /\ CACHE' \subseteq Rel
           /\ FMGR_MEMO' \in [Proc -> {Absent, Freed} \cup {i \in 1 .. left : stack[i] = "plan"}]
           /\ left = 0 => CACHE' = {} /\ FMGR_MEMO' = NoMemo
           /\ CACHE' # CACHE => left = 0
<1> DEFINE below == SubSeq(stack, 1, left)
           ended == Plans(stack) - Plans(below)
<1>1. /\ Plans(below) \in Nat /\ (Plans(below) = 0 <=> left = 0)
      BY LowerStack
<1>2. /\ PLAN_DEPTH = Plans(stack) /\ Plans(stack) \in Nat
      /\ Len(stack) \in 0 .. MaxStack /\ DOMAIN stack = 1 .. Len(stack) /\ MaxStack \in Nat
      /\ Plans(stack) # 0
      BY StackFacts
<1>3. /\ PLAN_DEPTH' = PLAN_DEPTH - ended
      /\ IF ended > 0 /\ PLAN_DEPTH' = 0 THEN clear_cache ELSE Dangling(left) /\ UNCHANGED CACHE
      BY DEF Finally
<1>4. PLAN_DEPTH' = Plans(below)
      BY <1>1, <1>2, <1>3
<1>5. NoMemo \in [Proc -> {Absent, Freed} \cup {i \in 1 .. left : stack[i] = "plan"}]
      BY DEF NoMemo
<1>6. CASE ended > 0 /\ PLAN_DEPTH' = 0
      BY <1>1, <1>3, <1>4, <1>5, <1>6 DEF clear_cache
<1>7. CASE ~(ended > 0 /\ PLAN_DEPTH' = 0)
  <2>1. left # 0
        BY <1>1, <1>2, <1>4, <1>7
  <2>2. Dangling(left) /\ CACHE' = CACHE
        BY <1>3, <1>7
  <2>3. \A p \in Proc : FMGR_MEMO[p] \in {Absent, Freed} \cup {i \in 1 .. Len(stack) : stack[i] = "plan"}
        BY <1>2 DEF IInv, TypeOK, Hooks
  <2>4. FMGR_MEMO' \in [Proc -> {Absent, Freed} \cup {i \in 1 .. left : stack[i] = "plan"}]
    <3>1. ASSUME NEW p \in Proc
          PROVE  FMGR_MEMO'[p] \in {Absent, Freed} \cup {i \in 1 .. left : stack[i] = "plan"}
          BY <1>2, <2>2, <2>3 DEF Dangling
    <3> QED BY <2>2, <3>1 DEF Dangling
  <2> QED BY <1>1, <1>4, <2>1, <2>2, <2>4 DEF IInv, TypeOK
<1> QED BY <1>6, <1>7

(***************************************************************************)
(* Invocations end from the top; IN_HOOK is reset with the hook that set   *)
(* it.                                                                     *)
(***************************************************************************)
LEMMA EndIInv ==
    ASSUME IInv, NEW left \in 0 .. Len(stack) - 1,
           stack' = SubSeq(stack, 1, left), Finally(left),
           \A i \in Hooks : i <= left + 1,
           IN_HOOK' = (IN_HOOK /\ left + 1 \notin Hooks)
    PROVE  IInv'
<1>1. /\ stack' \in Seq(Frame) /\ Len(stack') = left /\ DOMAIN stack' = 1 .. left
      /\ \A i \in 1 .. left : stack'[i] = stack[i]
      /\ stack' = <<>> <=> left = 0
      BY LowerStack
<1>2. /\ Len(stack) \in 0 .. MaxStack /\ DOMAIN stack = 1 .. Len(stack) /\ MaxStack \in Nat
      BY StackFacts
<1>3. /\ PLAN_DEPTH' = Plans(stack') /\ PLAN_DEPTH' \in Nat /\ CACHE' \subseteq Rel
      /\ FMGR_MEMO' \in [Proc -> {Absent, Freed} \cup {i \in 1 .. left : stack[i] = "plan"}]
      /\ left = 0 => CACHE' = {} /\ FMGR_MEMO' = NoMemo
      BY FinallyCounts
<1>4. Hooks' = Hooks \ {left + 1}
  <2>1. Hooks' = {i \in 1 .. left : stack[i] # "plan"}
        BY <1>1 DEF Hooks
  <2>2. Hooks = {i \in 1 .. Len(stack) : stack[i] # "plan"}
        BY <1>2 DEF Hooks
  <2> QED BY <1>2, <2>1, <2>2
<1>5. DOMAIN stack' \ Hooks' = {i \in 1 .. left : stack[i] = "plan"}
      BY <1>1 DEF Hooks
<1>6. /\ Len(stack') <= MaxStack
      /\ IN_HOOK' \in BOOLEAN
  <2>1. Len(stack') <= MaxStack
        BY <1>1, <1>2
  <2>2. (IN_HOOK /\ left + 1 \notin Hooks) \in BOOLEAN
        OBVIOUS
  <2> QED BY <2>1, <2>2
<1>7. TypeOK'
      BY <1>1, <1>3, <1>5, <1>6 DEF TypeOK, Frame
<1>8. Nested'
  <2>1. \A i \in Hooks' : i \in Hooks /\ i \in 1 .. left
        BY <1>1, <1>4 DEF Hooks
  <2> QED BY <1>1, <2>1 DEF IInv, Nested
<1>9. OneHook'
      BY <1>4 DEF IInv, OneHook
<1>10. left = 0 => ~IN_HOOK'
      BY <1>1, <1>9 DEF OneHook, Hooks
<1> QED BY <1>1, <1>3, <1>7, <1>8, <1>9, <1>10 DEF IInv, CleanBetweenPlans

LEMMA PlannerReturnsIInv ==
    ASSUME IInv, planner_hook_returns
    PROVE  IInv'
<1> DEFINE left == Len(stack) - 1
<1>1. Top = "plan" /\ stack' = SubSeq(stack, 1, left) /\ Finally(left) /\ IN_HOOK' = IN_HOOK
      BY DEF planner_hook_returns, Front
<1>2. Len(stack) \in DOMAIN stack /\ Len(stack) \notin Hooks
      BY <1>1, TopFacts
<1>3. /\ left \in 0 .. Len(stack) - 1 /\ left + 1 = Len(stack)
      /\ \A i \in Hooks : i <= left + 1
      BY <1>2, StackFacts DEF Hooks
<1>4. IN_HOOK' = (IN_HOOK /\ left + 1 \notin Hooks)
  <2>1. left + 1 \notin Hooks
        BY <1>2, <1>3
  <2>2. IN_HOOK \in BOOLEAN
        BY DEF IInv, TypeOK
  <2> QED BY <1>1, <2>1, <2>2
<1> HIDE DEF left
<1> QED BY <1>1, <1>3, <1>4, EndIInv

LEMMA RaiseIInv ==
    ASSUME IInv, NEW left \in 0 .. MaxStack, Raise(left)
    PROVE  IInv'
<1>1. /\ stack' = SubSeq(stack, 1, left) /\ Finally(left) /\ left < Len(stack)
      /\ \A i \in Hooks : i <= left + 1
      /\ IN_HOOK' = (IN_HOOK /\ left + 1 \notin Hooks)
      BY DEF Raise, Catches, catch_others
<1>2. left \in 0 .. Len(stack) - 1
      BY <1>1, StackFacts
<1> QED BY <1>1, <1>2, EndIInv

-----------------------------------------------------------------------------
(* Invocations that start.                                                 *)

(***************************************************************************)
(* One more frame.                                                         *)
(***************************************************************************)
LEMMA Pushed ==
    ASSUME IInv, Len(stack) < MaxStack, NEW x \in Frame, stack' = Append(stack, x)
    PROVE  /\ stack' \in Seq(Frame) /\ stack' # <<>> /\ Len(stack') <= MaxStack
           /\ DOMAIN stack' = DOMAIN stack \cup {Len(stack) + 1}
           /\ \A i \in DOMAIN stack : stack'[i] = stack[i]
           /\ stack'[Len(stack) + 1] = x
           /\ Len(stack) + 1 \notin DOMAIN stack
           /\ Hooks' = IF x = "plan" THEN Hooks ELSE Hooks \cup {Len(stack) + 1}
           /\ Plans(stack') = IF x = "plan" THEN Plans(stack) + 1 ELSE Plans(stack)
<1>1. /\ stack \in Seq(Frame) /\ Len(stack) \in Nat /\ DOMAIN stack = 1 .. Len(stack)
      /\ MaxStack \in Nat
      BY StackFacts
<1>2. /\ stack' \in Seq(Frame) /\ stack' # <<>> /\ Len(stack') = Len(stack) + 1
      /\ \A i \in 1 .. Len(stack) : stack'[i] = stack[i]
      /\ stack'[Len(stack) + 1] = x
      BY <1>1, AppendProperties
<1>3. DOMAIN stack' = 1 .. Len(stack) + 1
      BY <1>2, LenProperties
<1>4. DOMAIN stack' = DOMAIN stack \cup {Len(stack) + 1} /\ Len(stack) + 1 \notin DOMAIN stack
      BY <1>1, <1>3
<1>5. Hooks' = IF x = "plan" THEN Hooks ELSE Hooks \cup {Len(stack) + 1}
      BY <1>1, <1>2, <1>4 DEF Hooks
<1>6. Plans(stack') = IF x = "plan" THEN Plans(stack) + 1 ELSE Plans(stack)
      BY <1>1, PlansAppend
<1> QED BY <1>1, <1>2, <1>4, <1>5, <1>6

LEMMA PlannerIInv ==
    ASSUME IInv, planner_hook
    PROVE  IInv'
<1>1. /\ Len(stack) < MaxStack /\ stack' = Append(stack, "plan") /\ "plan" \in Frame
      /\ PLAN_DEPTH' = PLAN_DEPTH + 1 /\ IN_HOOK' = IN_HOOK
      /\ \/ CACHE' = {} /\ FMGR_MEMO' = NoMemo
         \/ CACHE' = CACHE /\ FMGR_MEMO' = FMGR_MEMO
      BY DEF planner_hook, clear_cache, Frame
<1>2. /\ stack' \in Seq(Frame) /\ stack' # <<>> /\ Len(stack') <= MaxStack
      /\ DOMAIN stack' = DOMAIN stack \cup {Len(stack) + 1}
      /\ \A i \in DOMAIN stack : stack'[i] = stack[i]
      /\ Hooks' = Hooks /\ Plans(stack') = Plans(stack) + 1
      BY <1>1, Pushed
<1>3. /\ PLAN_DEPTH = Plans(stack) /\ PLAN_DEPTH \in Nat /\ DOMAIN stack = 1 .. Len(stack)
      BY StackFacts
<1>4. NoMemo \in [Proc -> {Absent, Freed} \cup (DOMAIN stack' \ Hooks')]
      BY DEF NoMemo
<1>5. TypeOK'
      BY <1>1, <1>2, <1>3, <1>4 DEF IInv, TypeOK, Frame
<1>6. Nested'
  <2>1. \A i \in Hooks : i > 1 /\ stack[i - 1] = "plan" /\ i - 1 \in DOMAIN stack
        BY <1>3, StackFacts DEF IInv, Nested, Hooks
  <2> QED BY <1>2, <2>1 DEF Nested
<1>7. OneHook'
      BY <1>1, <1>2 DEF IInv, OneHook
<1> QED BY <1>1, <1>2, <1>3, <1>5, <1>6, <1>7 DEF IInv, CleanBetweenPlans

LEMMA HookIInv ==
    ASSUME IInv, pathlist_hook
    PROVE  IInv'
<1> DEFINE n == Len(stack)
<1>1. /\ n < MaxStack /\ stack' = Append(stack, "load") /\ "load" \in Frame
      /\ Top = "plan" /\ ~IN_HOOK /\ IN_HOOK'
      /\ PLAN_DEPTH' = PLAN_DEPTH /\ CACHE' = CACHE /\ FMGR_MEMO' = FMGR_MEMO
      BY DEF pathlist_hook, Frame
<1>2. Hooks = {}
      BY <1>1 DEF IInv, OneHook
<1>3. /\ stack' \in Seq(Frame) /\ stack' # <<>> /\ Len(stack') <= MaxStack
      /\ DOMAIN stack' = DOMAIN stack \cup {n + 1} /\ n + 1 \notin DOMAIN stack
      /\ \A i \in DOMAIN stack : stack'[i] = stack[i]
      /\ Hooks' = {n + 1} /\ Plans(stack') = Plans(stack)
      BY <1>1, <1>2, Pushed
<1>4. n \in DOMAIN stack /\ stack[n] = "plan" /\ DOMAIN stack = 1 .. n /\ n \in Nat
      BY <1>1, TopFacts, StackFacts
<1>5. TypeOK'
  <2>1. DOMAIN stack \ Hooks = DOMAIN stack' \ Hooks'
        BY <1>2, <1>3
  <2>2. IN_HOOK' \in BOOLEAN
        BY DEF pathlist_hook
  <2> QED BY <1>1, <1>3, <2>1, <2>2 DEF IInv, TypeOK, Frame
<1>6. Nested'
      BY <1>3, <1>4 DEF Nested
<1>7. OneHook'
      BY <1>1, <1>3 DEF OneHook
<1> QED BY <1>1, <1>3, <1>5, <1>6, <1>7 DEF IInv, CleanBetweenPlans

LEMMA LoadIInv ==
    ASSUME IInv, NEW rel \in Rel, load_summary(rel)
    PROVE  IInv'
<1> DEFINE n == Len(stack)
           below == SubSeq(stack, 1, n - 1)
<1>1. /\ Top = "load" /\ stack' = Append(below, "eval") /\ "eval" \in Frame /\ "load" \in Frame
      /\ CACHE' = CACHE \cup {rel}
      /\ PLAN_DEPTH' = PLAN_DEPTH /\ IN_HOOK' = IN_HOOK /\ FMGR_MEMO' = FMGR_MEMO
      BY DEF load_summary, Front, Frame
<1>2. /\ n \in DOMAIN stack /\ stack[n] = "load" /\ DOMAIN stack = 1 .. n /\ n \in Nat
      /\ stack \in Seq(Frame) /\ Hooks = {n} /\ n > 1 /\ stack[n - 1] = "plan"
      BY <1>1, TopFacts, StackFacts
<1>3. /\ below \in Seq(Frame) /\ Len(below) = n - 1 /\ \A i \in 1 .. n - 1 : below[i] = stack[i]
      BY <1>2, LowerStack
<1> HIDE DEF below
<1>4. /\ stack' \in Seq(Frame) /\ stack' # <<>> /\ Len(stack') = n /\ DOMAIN stack' = 1 .. n
      /\ \A i \in 1 .. n - 1 : stack'[i] = stack[i]
      /\ stack'[n] = "eval"
  <2>1. /\ stack' \in Seq(Frame) /\ stack' # <<>> /\ Len(stack') = (n - 1) + 1
        /\ \A i \in 1 .. n - 1 : stack'[i] = below[i]
        /\ stack'[(n - 1) + 1] = "eval"
        BY <1>1, <1>3, AppendProperties
  <2>2. (n - 1) + 1 = n
        BY <1>2
  <2> QED BY <1>3, <2>1, <2>2, LenProperties
<1>5. Hooks' = Hooks
      BY <1>2, <1>4 DEF Hooks
<1>6. Plans(stack') = Plans(stack)
  <2>1. PlanAt(stack') = PlanAt(stack)
        BY <1>2, <1>4 DEF PlanAt
  <2> QED BY <1>2, <1>4, <2>1, PlansOf
<1>7. TypeOK'
      BY <1>1, <1>2, <1>4, <1>5 DEF IInv, TypeOK, Frame
<1>8. Nested'
      BY <1>2, <1>4, <1>5 DEF Nested
<1>9. OneHook'
      BY <1>1, <1>5 DEF IInv, OneHook
<1> QED BY <1>1, <1>4, <1>6, <1>7, <1>8, <1>9 DEF IInv, CleanBetweenPlans

LEMMA HookReturnsIInv ==
    ASSUME IInv, pathlist_hook_returns
    PROVE  IInv'
<1> DEFINE n == Len(stack)
<1>1. /\ Top \in {"load", "eval"} /\ stack' = SubSeq(stack, 1, n - 1) /\ ~IN_HOOK'
      /\ IN_HOOK' \in BOOLEAN
      /\ PLAN_DEPTH' = PLAN_DEPTH /\ CACHE' = CACHE /\ FMGR_MEMO' = FMGR_MEMO
      BY DEF pathlist_hook_returns, Front
<1>2. /\ n \in DOMAIN stack /\ DOMAIN stack = 1 .. n /\ n \in Nat /\ n <= MaxStack /\ MaxStack \in Nat
      /\ stack \in Seq(Frame) /\ Hooks = {n} /\ n > 1
      BY <1>1, TopFacts, StackFacts
<1>3. /\ stack' \in Seq(Frame) /\ Len(stack') = n - 1 /\ DOMAIN stack' = 1 .. n - 1
      /\ \A i \in 1 .. n - 1 : stack'[i] = stack[i]
      /\ stack' # <<>>
  <2>1. n - 1 \in 0 .. Len(stack) - 1 /\ n - 1 # 0
        BY <1>2
  <2> QED BY <1>1, <2>1, LowerStack
<1>4. Hooks' = {}
      BY <1>2, <1>3 DEF Hooks
<1>5. Plans(stack') = Plans(stack)
  <2>1. PlanAt(stack') = PlanAt(stack)
        BY <1>2, <1>3 DEF PlanAt, Hooks
  <2> QED BY <1>2, <1>3, <2>1, PlansOf
<1>6. TypeOK'
  <2>1. DOMAIN stack' \ Hooks' = DOMAIN stack \ Hooks
        BY <1>2, <1>3, <1>4
  <2> QED BY <1>1, <1>2, <1>3, <2>1 DEF IInv, TypeOK, Frame
<1>7. Nested' /\ OneHook'
      BY <1>1, <1>4 DEF Nested, OneHook
<1> QED BY <1>1, <1>3, <1>5, <1>6, <1>7 DEF IInv, CleanBetweenPlans

\* The memo points into the memory of the planner invocation below the hook.
LEMMA MemoIInv ==
    ASSUME IInv, NEW p \in Proc, fmgr_cached(p)
    PROVE  IInv'
<1> DEFINE n == Len(stack)
<1>1. /\ Top = "eval"
      /\ FMGR_MEMO' = [FMGR_MEMO EXCEPT ![p] = IF @ = Absent THEN n - 1 ELSE @]
      /\ stack' = stack /\ PLAN_DEPTH' = PLAN_DEPTH /\ IN_HOOK' = IN_HOOK /\ CACHE' = CACHE
      BY DEF fmgr_cached
<1>2. /\ DOMAIN stack = 1 .. n /\ n \in Nat /\ n > 1 /\ stack[n - 1] = "plan" /\ stack # <<>>
      BY <1>1, TopFacts, StackFacts
<1>3. n - 1 \in DOMAIN stack \ Hooks
      BY <1>2 DEF Hooks
<1>4. TypeOK'
      BY <1>1, <1>3 DEF IInv, TypeOK, Hooks
<1>5. Nested' /\ OneHook'
      BY <1>1 DEF IInv, Nested, OneHook, Hooks
<1> QED BY <1>1, <1>2, <1>4, <1>5 DEF IInv, CleanBetweenPlans

-----------------------------------------------------------------------------
LEMMA StepIInv == IInv /\ [Next]_vars => IInv'
<1> SUFFICES ASSUME IInv, [Next]_vars PROVE IInv'
    OBVIOUS
<1>1. CASE UNCHANGED vars
      BY <1>1 DEF vars, IInv, TypeOK, Nested, OneHook, Hooks, CleanBetweenPlans
<1>2. CASE planner_hook
      BY <1>2, PlannerIInv
<1>3. CASE planner_hook_returns
      BY <1>3, PlannerReturnsIInv
<1>4. CASE pathlist_hook
      BY <1>4, HookIInv
<1>5. ASSUME NEW rel \in Rel, load_summary(rel) PROVE IInv'
      BY <1>5, LoadIInv
<1>6. ASSUME NEW p \in Proc, fmgr_cached(p) PROVE IInv'
      BY <1>6, MemoIInv
<1>7. CASE pathlist_hook_returns
      BY <1>7, HookReturnsIInv
<1>8. ASSUME NEW left \in 0 .. MaxStack, Raise(left) PROVE IInv'
      BY <1>8, RaiseIInv
<1> QED BY <1>1, <1>2, <1>3, <1>4, <1>5, <1>6, <1>7, <1>8 DEF Next

LEMMA AlwaysIInv == Spec => []IInv
BY InitIInv, StepIInv, PTL DEF Spec

(***************************************************************************)
(* The memo points to nothing, to freed memory, or into the memory of a    *)
(* planner invocation that is not over.                                    *)
(***************************************************************************)
THEOREM HookTypeCorrect == Spec => []TypeOK
<1>1. IInv => TypeOK
      BY DEF IInv
<1> QED BY <1>1, AlwaysIInv, PTL

(***************************************************************************)
(* PLAN_DEPTH counts the planner invocations, and the caches are empty and *)
(* the guard is down when there is none.                                   *)
(***************************************************************************)
THEOREM AlwaysCleanBetweenPlans == Spec => []CleanBetweenPlans
<1>1. IInv => CleanBetweenPlans
      BY DEF IInv
<1> QED BY <1>1, AlwaysIInv, PTL

(***************************************************************************)
(* IN_HOOK is set while the hook of one relation runs, and only then.      *)
(***************************************************************************)
THEOREM GuardAlwaysHeldByHook == Spec => []GuardHeldByHook
<1>1. IInv => GuardHeldByHook
  <2> SUFFICES ASSUME IInv PROVE GuardHeldByHook
      OBVIOUS
  <2>1. CASE IN_HOOK
    <3>1. PICK h \in Hooks : Hooks = {h}
          BY <2>1 DEF IInv, OneHook
    <3>2. Cardinality(Hooks) = 1
          BY <3>1, FS_Singleton
    <3> QED BY <2>1, <3>2 DEF GuardHeldByHook
  <2>2. CASE ~IN_HOOK
    <3>1. Hooks = {}
          BY <2>2 DEF IInv, OneHook
    <3>2. Cardinality(Hooks) = 0
          BY <3>1, FS_EmptySet
    <3> QED BY <2>2, <3>2 DEF GuardHeldByHook
  <2> QED BY <2>1, <2>2
<1> QED BY <1>1, AlwaysIInv, PTL

(***************************************************************************)
(* The cache changes only below every evaluation of clauses: the RefCell   *)
(* is never borrowed mutably while it is borrowed.                         *)
(***************************************************************************)
THEOREM NeverConflictingBorrow == Spec => NoConflictingBorrow
<1> DEFINE Safe == CACHE' # CACHE => ~Borrowed
<1>1. ASSUME IInv, Next PROVE Safe
  <2>1. Borrowed => \E i \in Hooks : stack[i] = "eval"
        BY DEF Borrowed, Hooks
  <2>2. CASE planner_hook
    <3>1. CACHE' # CACHE => PLAN_DEPTH = 0
          BY <2>2 DEF planner_hook
    <3>2. CACHE' # CACHE => DOMAIN stack = {}
          BY <1>1, <3>1, StackFacts
    <3> QED BY <3>2 DEF Borrowed
  <2>3. ASSUME NEW left \in 0 .. Len(stack) - 1, stack' = SubSeq(stack, 1, left),
               Finally(left), \A i \in Hooks : i <= left + 1
        PROVE  Safe
    <3>1. CACHE' # CACHE => left = 0
          BY <1>1, <2>3, FinallyCounts
    <3>2. left = 0 => Hooks = {}
          BY <1>1, <2>3, StackFacts DEF IInv, Nested, Hooks
    <3> QED BY <2>1, <3>1, <3>2
  <2>4. CASE planner_hook_returns
    <3> DEFINE left == Len(stack) - 1
    <3>1. Top = "plan" /\ stack' = SubSeq(stack, 1, left) /\ Finally(left)
          BY <2>4 DEF planner_hook_returns, Front
    <3>2. Len(stack) \in DOMAIN stack
          BY <1>1, <3>1, TopFacts
    <3>3. left \in 0 .. Len(stack) - 1 /\ \A i \in Hooks : i <= left + 1
          BY <1>1, <3>2, StackFacts DEF Hooks
    <3> HIDE DEF left
    <3> QED BY <2>3, <3>1, <3>3
  <2>5. ASSUME NEW rel \in Rel, load_summary(rel) PROVE Safe
    <3>1. Top = "load"
          BY <2>5 DEF load_summary
    <3>2. Hooks = {Len(stack)} /\ stack[Len(stack)] = "load"
          BY <1>1, <3>1, TopFacts
    <3> QED BY <2>1, <3>2
  <2>6. ASSUME NEW left \in 0 .. MaxStack, Raise(left) PROVE Safe
    <3>1. /\ stack' = SubSeq(stack, 1, left) /\ Finally(left) /\ left < Len(stack)
          /\ \A i \in Hooks : i <= left + 1
          BY <2>6 DEF Raise, Catches
    <3>2. left \in 0 .. Len(stack) - 1
          BY <1>1, <3>1, StackFacts
    <3> QED BY <2>3, <3>1, <3>2
  <2>7. CASE pathlist_hook \/ pathlist_hook_returns \/ \E p \in Proc : fmgr_cached(p)
        BY <2>7 DEF pathlist_hook, pathlist_hook_returns, fmgr_cached
  <2> QED BY <1>1, <2>2, <2>4, <2>5, <2>6, <2>7 DEF Next
<1>2. Spec => [][Safe]_vars
  <2>1. IInv /\ [Next]_vars => [Safe]_vars
    <3> HIDE DEF Safe
    <3> QED BY <1>1
  <2> HIDE DEF Safe
  <2> QED BY <2>1, AlwaysIInv, PTL DEF Spec
<1> QED BY <1>2 DEF NoConflictingBorrow

-----------------------------------------------------------------------------
(* The clauses, by ClauseTree: the operators it looks up.                  *)

\* What is remembered for an operator is what looking it up again would give.
MemoRight ==
    \A key \in DOMAIN OP_MEMO :
        key \in Operator \X BOOLEAN /\ OP_MEMO[key] = compare_op(key[1], key[2])

\* So the memo makes no difference.
LEMMA CachedIsRight ==
    ASSUME MemoRight, NEW op \in Operator, NEW commuted \in BOOLEAN
    PROVE  compare_op_cached(op, commuted) = compare_op(op, commuted)
<1>1. MemoKey(op, commuted)[1] = op /\ MemoKey(op, commuted)[2] = commuted
      BY DEF MemoKey
<1>2. CASE MemoKey(op, commuted) \in DOMAIN OP_MEMO
  <2>1. OP_MEMO[MemoKey(op, commuted)] = compare_op(op, commuted)
        BY <1>1, <1>2 DEF MemoRight
  <2> QED BY <1>2, <2>1 DEF compare_op_cached
<1> QED BY <1>2 DEF compare_op_cached

LEMMA TruthIs ==
    ASSUME NEW b \in BOOLEAN
    PROVE  Truth(b) \in Truths /\ Truth(b) # "u" /\ (Truth(b) = "t" <=> b)
BY DEF Truth, Truths

\* The executor compares as the operator's strategy says; NULL is never true.
LEMMA OpTrue ==
    ASSUME NEW op \in Operator, NEW a \in Datum, NEW b \in Datum,
           NEW coll, op.strategy # 0, OpTruth(op, coll, a, b) = "t"
    PROVE  /\ a \in Value /\ b \in Value
           /\ Holds(op.strategy, datum_cmp(OrderOf[op.cmpproc][coll], a, b))
<1> DEFINE order == OrderOf[op.cmpproc][coll]
<1>1. a # Null /\ b # Null
      BY DEF OpTruth
<1>2. Holds(op.strategy, datum_cmp(order, a, b)) \in BOOLEAN
      BY DEF Holds
<1>3. Truth(Holds(op.strategy, datum_cmp(order, a, b))) = "t"
      BY <1>1 DEF OpTruth
<1>4. Holds(op.strategy, datum_cmp(order, a, b))
      BY <1>2, <1>3, TruthIs
<1> QED BY <1>1, <1>4 DEF Datum

(***************************************************************************)
(* commute_strategy: "K op col" is "col op' K".                            *)
(***************************************************************************)
LEMMA Commutes ==
    ASSUME NEW coll \in Collation, NEW a \in Value, NEW b \in Value,
           NEW strategy \in Strategies, Holds(strategy, datum_cmp(coll, a, b))
    PROVE  /\ commute_strategy(strategy) \in Strategies
           /\ Holds(commute_strategy(strategy), datum_cmp(coll, b, a))
<1>1. /\ Rank[coll][a] \in Int /\ Rank[coll][b] \in Int
      /\ datum_cmp(coll, a, b) = Rank[coll][a] - Rank[coll][b]
      /\ datum_cmp(coll, b, a) = Rank[coll][b] - Rank[coll][a]
      BY CmpInt DEF datum_cmp
<1> QED BY <1>1 DEF Holds, commute_strategy, Strategies

\* compare_op: the operator with the column on the left, if it has a strategy.
LEMMA CompareOpIs ==
    ASSUME NEW op \in Operator, NEW commuted \in BOOLEAN
    PROVE  /\ compare_op(op, commuted) \in CompareOp
           /\ compare_op(op, commuted) # NoQual =>
                 /\ op.strategy \in Strategies /\ op.cmpproc \in CmpProc
                 /\ compare_op(op, commuted).cmpproc = op.cmpproc
                 /\ compare_op(op, commuted).strategy \in Strategies
                 /\ compare_op(op, commuted).strategy =
                       IF commuted THEN commute_strategy(op.strategy) ELSE op.strategy
<1>1. op.strategy \in 0 .. 5 /\ op.cmpproc \in CmpProc
      BY DEF Operator, Strategies
<1>2. CASE op.strategy = 0
      BY <1>2 DEF compare_op, CompareOp
<1>3. CASE op.strategy # 0
  <2>1. op.strategy \in Strategies /\ commute_strategy(op.strategy) \in Strategies
        BY <1>1, <1>3 DEF Strategies, commute_strategy
  <2> QED BY <1>1, <1>3, <2>1 DEF compare_op, CompareOp
<1> QED BY <1>2, <1>3

-----------------------------------------------------------------------------
(* A leaf: extract_opexpr, extract_nulltest, extract_saop.                 *)

LEMMA QualSound ==
    ASSUME NEW s \in Summary, NEW row \in Row, CoversRow(s, row),
           NEW c \in Column, NEW clause \in QualSpec, proves_prune(clause, s[c]),
           (clause.kind # "null" /\ clause.collation \in Range(IndexCollation)) =>
               clause.order = clause.collation
    PROVE  row[c] \in Datum /\ ~Matches(clause, row[c])
<1>1. s[c] \in ColSummary /\ row[c] \in Datum /\ Covers(s[c], row[c])
      BY SummaryColumn DEF Row, CoversRow
<1>2. s[c].collation \in Range(IndexCollation)
      BY IndexAssumption DEF Summary, Range
<1>3. clause.kind # "null" => clause.order = clause.collation
      BY <1>2 DEF proves_prune
<1> QED BY <1>1, <1>3, PruneSound DEF Clause

\* The operand is an indexed column, or a constant.
LEMMA OperandValues ==
    ASSUME NEW arg, NEW row
    PROVE  /\ strip_relabel(arg).tag = "Const" => ArgValue(arg, row) = strip_relabel(arg).value
           /\ strip_relabel(arg).tag = "Var" /\ strip_relabel(arg).attnum \in Column =>
                 ArgValue(arg, row) = row[strip_relabel(arg).attnum]
BY DEF ArgValue

\* A comparison, with the constant on either side.
LEMMA OpExprSound ==
    ASSUME MemoRight, NEW leaf, IsLeaf(leaf), leaf.type = "OpExpr", ~Misread(leaf),
           NEW s \in Summary, NEW row \in Row, CoversRow(s, row), LeafProvesPrune(leaf, s)
    PROVE  LeafTruth(leaf, row) # "t"
<1> DEFINE op == leaf.op
           commuted == Commuted(leaf)
           c == VarOf(leaf).attnum
           k == ConstOf(leaf).value
           found == compare_op_cached(op, commuted)
           coll == leaf.inputcollid
           order == OrderOf[op.cmpproc][coll]
           clause == [kind |-> "compare", strategy |-> found.strategy, collation |-> coll,
                      order |-> OrderOf[found.cmpproc][coll], k |-> k]
           left == ArgValue(leaf.left, row)
           right == ArgValue(leaf.right, row)
<1>1. /\ op \in Operator /\ coll \in Collation
      /\ IsOperand(leaf.left) /\ IsOperand(leaf.right)
      BY DEF IsLeaf
<1>2. commuted \in BOOLEAN
      BY DEF Commuted
<1>3. /\ extract_qual(leaf) # NoQual /\ extract_qual(leaf) = extract_opexpr(leaf)
      /\ extract_qual(leaf).attnum \in Column
      /\ proves_prune(extract_qual(leaf).clause, s[extract_qual(leaf).attnum])
      BY DEF LeafProvesPrune, extract_qual
<1>4. IsComparison(leaf) /\ found # NoQual /\ extract_opexpr(leaf) = Qual(c, clause)
      BY <1>3 DEF extract_opexpr
<1>5. c \in Column /\ proves_prune(clause, s[c])
      BY <1>3, <1>4 DEF Qual
<1>6. found = compare_op(op, commuted)
      BY <1>1, <1>2, CachedIsRight
<1>7. /\ op.strategy \in Strategies /\ op.cmpproc \in CmpProc
      /\ found.cmpproc = op.cmpproc /\ found.strategy \in Strategies
      /\ found.strategy = IF commuted THEN commute_strategy(op.strategy) ELSE op.strategy
      BY <1>1, <1>2, <1>4, <1>6, CompareOpIs
<1>7a. order \in Collation /\ (coll \in Range(IndexCollation) => order = coll)
  <2>1. order \in Collation
        BY <1>1, <1>7, TreeAssumption
  <2> QED BY <2>1 DEF Misread
<1>8. k \in Value
      BY <1>1, <1>4 DEF IsComparison, ConstOf, IsOperand, Datum
<1>9. /\ clause \in QualSpec /\ clause.kind = "compare" /\ clause.order = order
      /\ clause.collation = coll
      BY <1>1, <1>7, <1>8, <1>7a DEF QualSpec
<1>10. row[c] \in Datum /\ ~Matches(clause, row[c])
  <2> HIDE DEF clause, order, coll, c
  <2> QED BY <1>5, <1>9, <1>7a, QualSound
<1>11. row[c] \in Value => ~Holds(found.strategy, datum_cmp(order, row[c], k))
      BY <1>7, <1>10, ColumnAssumption DEF Matches
<1>12. LeafTruth(leaf, row) = OpTruth(op, coll, left, right)
      BY DEF LeafTruth
<1>13. op.strategy # 0 /\ k \in Datum
      BY <1>7, <1>8 DEF Strategies, Datum
<1>14. CASE commuted
  <2>1. left = k /\ right = row[c]
        BY <1>4, <1>5, <1>14, OperandValues DEF Commuted, VarOf, ConstOf, IsComparison
  <2>2. ASSUME OpTruth(op, coll, k, row[c]) = "t" PROVE FALSE
    <3>1. row[c] \in Value /\ Holds(op.strategy, datum_cmp(order, k, row[c]))
          BY <1>1, <1>10, <1>13, <2>2, OpTrue
    <3>2. Holds(commute_strategy(op.strategy), datum_cmp(order, row[c], k))
          BY <1>7, <1>8, <1>7a, <3>1, Commutes
    <3> QED BY <1>7, <1>11, <1>14, <3>1, <3>2
  <2> QED BY <1>12, <2>1, <2>2
<1>15. CASE ~commuted
  <2>1. left = row[c] /\ right = k
        BY <1>4, <1>5, <1>15, OperandValues DEF Commuted, VarOf, ConstOf, IsComparison
  <2>2. ASSUME OpTruth(op, coll, row[c], k) = "t" PROVE FALSE
    <3>1. row[c] \in Value /\ Holds(op.strategy, datum_cmp(order, row[c], k))
          BY <1>1, <1>10, <1>13, <2>2, OpTrue
    <3> QED BY <1>7, <1>11, <1>15, <3>1
  <2> QED BY <1>12, <2>1, <2>2
<1> QED BY <1>14, <1>15

\* IS NULL, IS NOT NULL.
LEMMA NullTestSound ==
    ASSUME NEW leaf, IsLeaf(leaf), leaf.type = "NullTest", ~Misread(leaf),
           NEW s \in Summary, NEW row \in Row, CoversRow(s, row), LeafProvesPrune(leaf, s)
    PROVE  LeafTruth(leaf, row) # "t"
<1> DEFINE var == strip_relabel(leaf.arg)
           c == var.attnum
           clause == [kind |-> "null", is_null |-> leaf.is_null]
<1>1. leaf.is_null \in BOOLEAN /\ leaf.argisrow \in BOOLEAN
      BY DEF IsLeaf
<1>2. /\ extract_qual(leaf) # NoQual /\ extract_qual(leaf) = extract_nulltest(leaf)
      /\ extract_qual(leaf).attnum \in Column
      /\ proves_prune(extract_qual(leaf).clause, s[extract_qual(leaf).attnum])
      BY DEF LeafProvesPrune, extract_qual
<1>3. var.tag = "Var" /\ extract_nulltest(leaf) = Qual(c, clause)
      BY <1>2 DEF extract_nulltest
<1>4. c \in Column /\ proves_prune(clause, s[c])
      BY <1>2, <1>3 DEF Qual
<1>5. clause \in QualSpec /\ clause.kind = "null"
      BY <1>1 DEF QualSpec
<1>6. ~Matches(clause, row[c])
      BY <1>4, <1>5, QualSound
<1>7. ~(leaf.is_null <=> row[c] = Null)
      BY <1>6 DEF Matches
<1>8. LeafTruth(leaf, row) = NullTruth(leaf, ArgValue(leaf.arg, row))
      BY DEF LeafTruth
<1>9. ArgValue(leaf.arg, row) = row[c]
      BY <1>3, <1>4, OperandValues
<1>10. NullTruth(leaf, row[c]) = "f"
  <2>1. CASE leaf.is_null
    <3>1. ~leaf.argisrow
          BY <2>1 DEF Misread
    <3> QED BY <1>7, <2>1, <3>1 DEF NullTruth, Truth
  <2>2. CASE ~leaf.is_null
        BY <1>7, <2>2 DEF NullTruth, Truth
  <2> QED BY <2>1, <2>2
<1> QED BY <1>8, <1>9, <1>10

\* `= ANY` is true if one element is equal; NULL ones never are.
LEMMA ArrayOpSound ==
    ASSUME MemoRight, NEW leaf, IsLeaf(leaf), leaf.type = "ScalarArrayOpExpr", ~Misread(leaf),
           NEW s \in Summary, NEW row \in Row, CoversRow(s, row), LeafProvesPrune(leaf, s)
    PROVE  LeafTruth(leaf, row) # "t"
<1> DEFINE op == leaf.op
           var == strip_relabel(leaf.left)
           c == var.attnum
           found == compare_op_cached(op, FALSE)
           coll == leaf.inputcollid
           order == OrderOf[op.cmpproc][coll]
           clause == [kind |-> "in_list", collation |-> coll,
                      order |-> OrderOf[found.cmpproc][coll],
                      elems |-> leaf.elems \ {Null}]
           left == ArgValue(leaf.left, row)
           truths == {OpTruth(op, coll, left, e) : e \in leaf.elems}
<1>1. /\ op \in Operator /\ coll \in Collation /\ leaf.useOr \in BOOLEAN
      /\ leaf.elems = Null \/ leaf.elems \subseteq Datum
      BY DEF IsLeaf
<1>2. /\ extract_qual(leaf) # NoQual /\ extract_qual(leaf) = extract_saop(leaf)
      /\ extract_qual(leaf).attnum \in Column
      /\ proves_prune(extract_qual(leaf).clause, s[extract_qual(leaf).attnum])
      BY DEF LeafProvesPrune, extract_qual
<1>3. /\ leaf.useOr /\ var.tag = "Var" /\ found # NoQual /\ found.strategy = 3
      /\ leaf.elems # Null /\ leaf.elems \subseteq Datum
      /\ extract_saop(leaf) = Qual(c, clause)
      BY <1>1, <1>2 DEF extract_saop, IsAnyTest
<1>4. c \in Column /\ proves_prune(clause, s[c])
      BY <1>2, <1>3 DEF Qual
<1>5. found = compare_op(op, FALSE)
      BY <1>1, CachedIsRight
<1>6. op.strategy = 3 /\ op.cmpproc \in CmpProc /\ found.cmpproc = op.cmpproc
      BY <1>1, <1>3, <1>5, CompareOpIs
<1>6a. order \in Collation /\ (coll \in Range(IndexCollation) => order = coll)
  <2>1. order \in Collation
        BY <1>1, <1>6, TreeAssumption
  <2> QED BY <2>1 DEF Misread
<1>7. /\ clause \in QualSpec /\ clause.kind = "in_list" /\ clause.order = order
      /\ clause.collation = coll /\ clause.elems = leaf.elems \ {Null}
      BY <1>1, <1>3, <1>6, <1>6a DEF QualSpec, Datum
<1>8. row[c] \in Datum /\ ~Matches(clause, row[c])
  <2> HIDE DEF clause, order, coll, c
  <2> QED BY <1>4, <1>7, <1>6a, QualSound
<1>9. left = row[c]
      BY <1>3, <1>4, OperandValues
<1>10. ASSUME NEW e \in leaf.elems, OpTruth(op, coll, left, e) = "t" PROVE FALSE
  <2>1. e \in Datum /\ left \in Datum /\ op.strategy # 0
        BY <1>3, <1>6, <1>8, <1>9
  <2>2. left \in Value /\ e \in Value /\ Holds(3, datum_cmp(order, left, e))
        BY <1>1, <1>6, <1>10, <2>1, OpTrue
  <2>3. datum_cmp(order, row[c], e) = 0
        BY <1>9, <2>2 DEF Holds
  <2>4. row[c] # Null /\ e \in leaf.elems \ {Null}
        BY <1>9, <2>2, ColumnAssumption
  <2> QED BY <1>7, <1>8, <2>3, <2>4 DEF Matches
<1>11. "t" \notin truths
      BY <1>10
<1>12. Truth(leaf.useOr) = "t" /\ Truth(~leaf.useOr) = "f"
      BY <1>3 DEF Truth
<1>13. LeafTruth(leaf, row) = IF Truth(leaf.useOr) \in truths THEN Truth(leaf.useOr)
                             ELSE IF "u" \in truths THEN "u" ELSE Truth(~leaf.useOr)
      BY <1>3 DEF LeafTruth
<1> HIDE DEF truths
<1> QED BY <1>11, <1>12, <1>13

(***************************************************************************)
(* A leaf that proves that there is no match is true of no row the summary *)
(* covers.                                                                 *)
(***************************************************************************)
LEMMA LeafSound ==
    ASSUME MemoRight, NEW leaf, IsLeaf(leaf), ~Misread(leaf),
           NEW s \in Summary, NEW row \in Row, CoversRow(s, row), LeafProvesPrune(leaf, s)
    PROVE  LeafTruth(leaf, row) # "t"
<1>1. leaf.type \in {"OpExpr", "NullTest", "ScalarArrayOpExpr"}
      BY DEF LeafProvesPrune, extract_qual
<1> QED BY <1>1, OpExprSound, NullTestSound, ArrayOpSound

LEMMA LeafTruthTyped ==
    ASSUME NEW leaf, IsLeaf(leaf), NEW row \in Row
    PROVE  LeafTruth(leaf, row) \in Truths
<1>1. CASE leaf.type = "OpExpr"
      BY <1>1 DEF LeafTruth, OpTruth, Truth, Truths
<1>2. CASE leaf.type = "NullTest"
      BY <1>2 DEF LeafTruth, NullTruth, Truth, Truths
<1>3. CASE leaf.type = "ScalarArrayOpExpr"
      BY <1>3 DEF LeafTruth, Truth, Truths
<1>4. CASE leaf.type \notin {"OpExpr", "NullTest", "ScalarArrayOpExpr"}
      BY <1>4 DEF LeafTruth, IsLeaf
<1> QED BY <1>1, <1>2, <1>3, <1>4

-----------------------------------------------------------------------------
(* The executor's truth of each node, and what is proved about it.         *)

\* The truth of node i, from those of its parts.
EvalStep(g, row, i) ==
    IF ~IsBool(i) THEN LeafTruth(nodes[i], row)
    ELSE BoolTruth(nodes[i].boolop, {g[nodes[i].args[j]] : j \in DOMAIN nodes[i].args})

Evaluates(g, row, n) == g = [i \in 1 .. n |-> EvalStep(g, row, i)]

\* What the node is, and that its parts come before it.
LEMMA NodeIs ==
    ASSUME TreeTypeOK
    PROVE  /\ Len(nodes) \in Nat /\ DOMAIN nodes = 1 .. Len(nodes)
           /\ \A i \in DOMAIN nodes :
                 /\ ~IsBool(i) => nodes[i] \in Leaf /\ IsLeaf(nodes[i])
                 /\ IsBool(i) => \A j \in DOMAIN nodes[i].args : nodes[i].args[j] \in 1 .. i - 1
                 /\ IsBool(i) => nodes[i].boolop \in {"AND", "OR", "NOT"}
<1>1. /\ nodes \in Seq(Node)
      /\ \A i \in DOMAIN nodes : IsBool(i) => nodes[i].args \in Seq(1 .. i - 1)
      BY DEF TreeTypeOK
<1>2. Len(nodes) \in Nat /\ DOMAIN nodes = 1 .. Len(nodes) /\ \A i \in DOMAIN nodes : nodes[i] \in Node
      BY <1>1, LenProperties, ElementOfSeq
<1>3. \A leaf \in Leaf : IsLeaf(leaf) /\ leaf.type # "BoolExpr"
  <2>1. \A leaf : leaf.type = "BoolExpr" => ~IsLeaf(leaf)
        BY DEF IsLeaf
  <2> QED BY <2>1, TreeAssumption
<1>4. ASSUME NEW i \in DOMAIN nodes
      PROVE  /\ ~IsBool(i) => nodes[i] \in Leaf /\ IsLeaf(nodes[i])
             /\ IsBool(i) => nodes[i].boolop \in {"AND", "OR", "NOT"}
      BY <1>2, <1>3 DEF Node, IsBool
<1>5. ASSUME NEW i \in DOMAIN nodes, IsBool(i), NEW j \in DOMAIN nodes[i].args
      PROVE  nodes[i].args[j] \in 1 .. i - 1
  <2>1. nodes[i].args \in Seq(1 .. i - 1)
        BY <1>1, <1>5
  <2> QED BY <2>1, <1>5, LenProperties, ElementOfSeq
<1> QED BY <1>2, <1>4, <1>5

\* The parts of a node come before it, so there is such a g.
LEMMA EvaluatesExists ==
    ASSUME TreeTypeOK, NEW row
    PROVE  \E g : Evaluates(g, row, Len(nodes))
<1> DEFINE n == Len(nodes)
           Q == {k \in Nat : \E g : Evaluates(g, row, k)}
<1>0. n \in Nat
      BY NodeIs
<1>1. 0 \in Q
  <2> DEFINE g == [i \in 1 .. 0 |-> 0]
  <2>1. g = [i \in 1 .. 0 |-> EvalStep(g, row, i)]
        OBVIOUS
  <2> QED BY <2>1 DEF Evaluates
<1>2. ASSUME NEW k \in 0 .. n, k # n, k \in Q
      PROVE  k + 1 \in Q
  <2>0. k \in Nat /\ k + 1 \in Nat /\ k + 1 <= n
        BY <1>0, <1>2
  <2>1. PICK g : Evaluates(g, row, k)
        BY <1>2
  <2> DEFINE h == [i \in 1 .. k + 1 |-> EvalStep(g, row, i)]
  <2>2. ASSUME NEW i \in 1 .. k PROVE h[i] = g[i]
    <3>1. g[i] = EvalStep(g, row, i)
          BY <2>1 DEF Evaluates
    <3>2. h[i] = EvalStep(g, row, i)
          BY <2>0
    <3> QED BY <3>1, <3>2
  <2> HIDE DEF h
  <2>3. ASSUME NEW i \in 1 .. k + 1 PROVE EvalStep(g, row, i) = EvalStep(h, row, i)
    <3>1. i \in DOMAIN nodes
          BY <1>0, <2>0, NodeIs
    <3>2. CASE ~IsBool(i)
          BY <3>2 DEF EvalStep
    <3>3. CASE IsBool(i)
      <4>1. ASSUME NEW j \in DOMAIN nodes[i].args
            PROVE  g[nodes[i].args[j]] = h[nodes[i].args[j]]
        <5>1. nodes[i].args[j] \in 1 .. i - 1
              BY <3>1, <3>3, NodeIs
        <5>2. nodes[i].args[j] \in 1 .. k
              BY <2>0, <5>1
        <5> QED BY <2>2, <5>2
      <4>2. {g[nodes[i].args[j]] : j \in DOMAIN nodes[i].args}
                = {h[nodes[i].args[j]] : j \in DOMAIN nodes[i].args}
            BY <4>1
      <4> QED BY <3>3, <4>2 DEF EvalStep
    <3> QED BY <3>2, <3>3
  <2>4. h = [i \in 1 .. k + 1 |-> EvalStep(h, row, i)]
    <3>1. h = [i \in 1 .. k + 1 |-> EvalStep(g, row, i)]
          BY DEF h
    <3> QED BY <2>3, <3>1
  <2>5. Evaluates(h, row, k + 1)
        BY <2>4 DEF Evaluates
  <2> QED BY <2>0, <2>5
<1>3. 0 .. n \subseteq Q
  <2> HIDE DEF Q, n
  <2> QED BY <1>0, <1>1, <1>2, CountUp
<1> QED BY <1>0, <1>3

LEMMA EvaluatedIs ==
    ASSUME TreeTypeOK, NEW row, NEW i \in DOMAIN nodes
    PROVE  Evaluated(row)[i] = EvalStep(Evaluated(row), row, i)
<1>1. DOMAIN nodes = 1 .. Len(nodes)
      BY NodeIs
<1>2. Evaluated(row) = CHOOSE g : Evaluates(g, row, Len(nodes))
      BY <1>1 DEF Evaluated, Evaluates, EvalStep
<1>3. Evaluates(Evaluated(row), row, Len(nodes))
      BY <1>2, EvaluatesExists
<1>4. Evaluated(row) = [k \in 1 .. Len(nodes) |-> EvalStep(Evaluated(row), row, k)]
      BY <1>3 DEF Evaluates
<1> QED BY <1>1, <1>4

-----------------------------------------------------------------------------
(* What each node proves, down to the limit.                               *)

ProveStep(f, s, depth, i) ==
    /\ depth <= DepthLimit
    /\ \/ ~IsBool(i) /\ LeafProvesPrune(nodes[i], s)
       \/ /\ IsBool(i) /\ nodes[i].boolop = "AND"
          /\ \E j \in DOMAIN nodes[i].args : f[depth + 1][nodes[i].args[j]]
       \/ /\ IsBool(i) /\ nodes[i].boolop = "OR" /\ nodes[i].args # <<>>
          /\ \A j \in DOMAIN nodes[i].args : f[depth + 1][nodes[i].args[j]]

\* f on the k deepest levels.
ProvesFrom(f, s, from) ==
    f = [depth \in from .. DepthLimit + 1 |->
            [i \in DOMAIN nodes |-> ProveStep(f, s, depth, i)]]

LEMMA ProvesExists ==
    ASSUME NEW s
    PROVE  \E f : ProvesFrom(f, s, 0)
<1> DEFINE n == DepthLimit + 1
           Q == {k \in Nat : \E f : ProvesFrom(f, s, n - k)}
<1>0. n \in Nat /\ DepthLimit \in Nat
      BY TreeAssumption
<1>1. 0 \in Q
  <2> DEFINE f == [depth \in n .. n |-> [i \in DOMAIN nodes |-> FALSE]]
  <2>1. ASSUME NEW depth \in n .. n, NEW i \in DOMAIN nodes
        PROVE  ProveStep(f, s, depth, i) = FALSE
    <3>1. ~(depth <= DepthLimit)
          BY <1>0
    <3> QED BY <3>1 DEF ProveStep
  <2>2. f = [depth \in n .. n |-> [i \in DOMAIN nodes |-> ProveStep(f, s, depth, i)]]
    <3>1. f = [depth \in n .. n |-> [i \in DOMAIN nodes |-> FALSE]]
          OBVIOUS
    <3> HIDE DEF f, n
    <3> QED BY <2>1, <3>1
  <2>3. ProvesFrom(f, s, n)
        BY <2>2 DEF ProvesFrom
  <2>4. n - 0 = n
        BY <1>0
  <2> HIDE DEF f, n
  <2> QED BY <2>3, <2>4
<1>2. ASSUME NEW k \in 0 .. n, k # n, k \in Q
      PROVE  k + 1 \in Q
  <2> DEFINE m == n - k
             from == n - (k + 1)
  <2>0. m \in Nat /\ from \in Nat /\ from + 1 = m /\ from <= DepthLimit /\ k + 1 \in Nat
        BY <1>0, <1>2
  <2>1. PICK f : ProvesFrom(f, s, m)
        BY <1>2
  <2> DEFINE h == [depth \in from .. n |-> [i \in DOMAIN nodes |-> ProveStep(f, s, depth, i)]]
  <2>2. ASSUME NEW depth \in m .. n PROVE h[depth] = f[depth]
    <3>1. f = [d \in m .. n |-> [i \in DOMAIN nodes |-> ProveStep(f, s, d, i)]]
          BY <2>1 DEF ProvesFrom
    <3>2. depth \in from .. n
          BY <1>0, <2>0
    <3>3. f[depth] = [i \in DOMAIN nodes |-> ProveStep(f, s, depth, i)]
      <4> HIDE DEF h, m, from, n
      <4> QED BY <3>1
    <3>4. h[depth] = [i \in DOMAIN nodes |-> ProveStep(f, s, depth, i)]
      <4> HIDE DEF m, from, n
      <4> QED BY <3>2
    <3> QED BY <3>3, <3>4
  <2>3. ASSUME NEW depth \in from .. n, NEW i \in DOMAIN nodes
        PROVE  ProveStep(f, s, depth, i) = ProveStep(h, s, depth, i)
    <3>1. CASE ~(depth <= DepthLimit)
      <4> HIDE DEF h, m, from, n
      <4> QED BY <3>1 DEF ProveStep
    <3>2. CASE depth <= DepthLimit
      <4>1. depth + 1 \in m .. n
            BY <1>0, <2>0, <3>2
      <4>2. h[depth + 1] = f[depth + 1]
            BY <2>2, <4>1
      <4> HIDE DEF h, m, from, n
      <4> QED BY <4>2 DEF ProveStep
    <3> QED BY <3>1, <3>2
  <2>4. h = [depth \in from .. n |-> [i \in DOMAIN nodes |-> ProveStep(h, s, depth, i)]]
    <3>1. h = [depth \in from .. n |-> [i \in DOMAIN nodes |-> ProveStep(f, s, depth, i)]]
          OBVIOUS
    <3> HIDE DEF h, m, from, n
    <3> QED BY <2>3, <3>1
  <2>5. ProvesFrom(h, s, from)
    <3> HIDE DEF h
    <3> QED BY <2>4 DEF ProvesFrom
  <2> HIDE DEF h, n
  <2> QED BY <2>0, <2>5
<1>3. 0 .. n \subseteq Q
  <2> HIDE DEF Q, n
  <2> QED BY <1>0, <1>1, <1>2, CountUp
<1>4. n \in Q /\ n - n = 0
      BY <1>0, <1>3
<1> HIDE DEF n
<1> QED BY <1>4

LEMMA ProvedIs ==
    ASSUME NEW s, NEW depth \in 0 .. DepthLimit + 1, NEW i \in DOMAIN nodes
    PROVE  clause_proves_prune(s)[depth][i] = ProveStep(clause_proves_prune(s), s, depth, i)
<1>1. clause_proves_prune(s) = CHOOSE f : ProvesFrom(f, s, 0)
      BY DEF clause_proves_prune, ProvesFrom, ProveStep
<1>2. ProvesFrom(clause_proves_prune(s), s, 0)
      BY <1>1, ProvesExists
<1> DEFINE f == clause_proves_prune(s)
<1>3. f = [d \in 0 .. DepthLimit + 1 |-> [k \in DOMAIN nodes |-> ProveStep(f, s, d, k)]]
      BY <1>2 DEF ProvesFrom
<1> HIDE DEF f
<1>4. f[depth] = [k \in DOMAIN nodes |-> ProveStep(f, s, depth, k)]
      BY <1>3
<1>5. f[depth][i] = ProveStep(f, s, depth, i)
      BY <1>4, Zenon
<1> QED BY <1>5 DEF f

\* AND, OR and NOT in three-valued logic.
LEMMA BoolTruthIs ==
    ASSUME NEW args \in SUBSET Truths
    PROVE  /\ BoolTruth("AND", args) = "t" => \A x \in args : x = "t"
           /\ BoolTruth("OR", args) = "t" => "t" \in args
           /\ \A boolop \in {"AND", "OR", "NOT"} : BoolTruth(boolop, args) \in Truths
BY DEF BoolTruth, Truths, Truth

LEMMA EvaluatedTyped ==
    ASSUME TreeTypeOK, NEW row \in Row, NEW i \in DOMAIN nodes
    PROVE  Evaluated(row)[i] \in Truths
<1>1. Evaluated(row)[i] = EvalStep(Evaluated(row), row, i)
      BY EvaluatedIs
<1>2. CASE ~IsBool(i)
      BY <1>1, <1>2, NodeIs, LeafTruthTyped DEF EvalStep
<1>3. CASE IsBool(i)
  <2>1. nodes[i].boolop \in {"AND", "OR", "NOT"}
        BY <1>3, NodeIs
  <2> DEFINE args == {Evaluated(row)[nodes[i].args[j]] : j \in DOMAIN nodes[i].args}
  <2>2. Evaluated(row)[i] = BoolTruth(nodes[i].boolop, args)
        BY <1>1, <1>3 DEF EvalStep
  <2> HIDE DEF args
  <2>3. BoolTruth(nodes[i].boolop, args) \in Truths
        BY <2>1 DEF BoolTruth, Truths, Truth
  <2> QED BY <2>2, <2>3
<1> QED BY <1>2, <1>3

(***************************************************************************)
(* clause_proves_prune, by induction from the depth limit upwards: a node  *)
(* that proves that there is no match is true of no row, in a query of     *)
(* which no part is misread.                                               *)
(***************************************************************************)
THEOREM ClauseSound ==
    ASSUME TreeTypeOK, MemoRight, \A m \in DOMAIN nodes : ~Misread(nodes[m]),
           NEW s \in Summary, NEW row \in Row, CoversRow(s, row),
           NEW i \in DOMAIN nodes, clause_proves_prune(s)[0][i]
    PROVE  Evaluated(row)[i] # "t"
<1> DEFINE n == DepthLimit + 1
           proved == clause_proves_prune(s)
           truth == Evaluated(row)
           Q == {k \in Nat : \A m \in DOMAIN nodes : proved[n - k][m] => truth[m] # "t"}
<1>0. n \in Nat /\ DepthLimit \in Nat
      BY TreeAssumption
<1> HIDE DEF proved, truth
<1>a. ASSUME NEW depth \in 0 .. n, NEW m \in DOMAIN nodes
      PROVE  proved[depth][m] <=> ProveStep(proved, s, depth, m)
      BY ProvedIs DEF proved
<1>b. ASSUME NEW m \in DOMAIN nodes
      PROVE  truth[m] = EvalStep(truth, row, m) /\ truth[m] \in Truths
      BY EvaluatedIs, EvaluatedTyped DEF truth
<1>1. 0 \in Q
  <2>1. ASSUME NEW m \in DOMAIN nodes PROVE ~proved[n][m]
    <3>1. n \in 0 .. n /\ ~(n <= DepthLimit)
          BY <1>0
    <3> HIDE DEF n
    <3>2. ~ProveStep(proved, s, n, m)
          BY <3>1 DEF ProveStep
    <3> QED BY <1>a, <3>1, <3>2
  <2>2. n - 0 = n
        BY <1>0
  <2> HIDE DEF n
  <2> QED BY <2>1, <2>2
<1>2. ASSUME NEW k \in 0 .. n, k # n, k \in Q
      PROVE  k + 1 \in Q
  <2> DEFINE depth == n - (k + 1)
  <2>1. depth \in 0 .. n /\ depth + 1 = n - k /\ k + 1 \in Nat
        BY <1>0, <1>2
  <2>2. ASSUME NEW m \in DOMAIN nodes, proved[depth + 1][m] PROVE truth[m] # "t"
    <3> HIDE DEF n, depth
    <3> QED BY <1>2, <2>1, <2>2
  <2> HIDE DEF n, depth, Q
  <2>3. ASSUME NEW m \in DOMAIN nodes, proved[depth][m] PROVE truth[m] # "t"
    <3>1. ProveStep(proved, s, depth, m)
          BY <1>a, <2>1, <2>3
    <3>2. CASE ~IsBool(m)
      <4>1. LeafProvesPrune(nodes[m], s) /\ IsLeaf(nodes[m])
            BY <3>1, <3>2, NodeIs DEF ProveStep
      <4> QED BY <1>b, <3>2, <4>1, LeafSound DEF EvalStep
    <3>3. CASE IsBool(m)
      <4> DEFINE parts == nodes[m].args
                 args == {truth[parts[j]] : j \in DOMAIN parts}
      <4>1. \A j \in DOMAIN parts : parts[j] \in 1 .. m - 1
            BY <3>3, NodeIs
      <4>2. \A j \in DOMAIN parts : parts[j] \in DOMAIN nodes
            BY <4>1, NodeIs
      <4>3. args \in SUBSET Truths
            BY <1>b, <4>2
      <4>4. truth[m] = BoolTruth(nodes[m].boolop, args)
            BY <1>b, <3>3 DEF EvalStep
      <4>5. CASE nodes[m].boolop = "AND"
        <5>1. PICK j \in DOMAIN parts : proved[depth + 1][parts[j]]
              BY <3>1, <3>3, <4>5 DEF ProveStep
        <5>2. truth[parts[j]] # "t" /\ truth[parts[j]] \in args
              BY <2>2, <4>2, <5>1
        <5> HIDE DEF args, parts
        <5> QED BY <4>3, <4>4, <4>5, <5>2, BoolTruthIs
      <4>6. CASE nodes[m].boolop = "OR"
        <5>1. \A j \in DOMAIN parts : proved[depth + 1][parts[j]]
              BY <3>1, <3>3, <4>6 DEF ProveStep
        <5>2. "t" \notin args
              BY <2>2, <4>2, <5>1
        <5> HIDE DEF args, parts
        <5> QED BY <4>3, <4>4, <4>6, <5>2, BoolTruthIs
      <4> QED BY <3>1, <3>3, <4>5, <4>6 DEF ProveStep
    <3> QED BY <3>2, <3>3
  <2> QED BY <2>1, <2>3 DEF Q, depth
<1>3. 0 .. n \subseteq Q
  <2> HIDE DEF Q, n
  <2> QED BY <1>0, <1>1, <1>2, CountUp
<1>4. n \in Q /\ n - n = 0
      BY <1>0, <1>3
<1>5. proved[0][i] => truth[i] # "t"
  <2> HIDE DEF n
  <2> QED BY <1>4
<1> QED BY <1>5 DEF proved, truth

\* The summary of a partition covers its rows.
LEMMA BuiltCovers ==
    ASSUME NEW p \in Partition, NEW s \in Built[p]
    PROVE  s \in Summary /\ \A row \in p : row \in Row /\ CoversRow(s, row)
<1>1. p \in SUBSET Row /\ s \in build_leaf_summary(p)
      BY TreeAssumption DEF Built
<1>2. /\ s = [c \in Column |-> s[c]]
      /\ \A c \in Column : s[c] \in BuiltColumns(c, p)
      BY <1>1 DEF build_leaf_summary
<1> QED BY <1>1, <1>2, BuiltColumnCovers DEF Summary, CoversRow

-----------------------------------------------------------------------------
(* The invariant.                                                          *)

TreeIInv == TreeTypeOK /\ MemoRight /\ (pruned => planning) /\ PruneLosesNoRow

LEMMA TreeInitIInv == TreeInit => TreeIInv
<1> SUFFICES ASSUME TreeInit PROVE TreeIInv
    OBVIOUS
<1>1. nodes = <<>> /\ restrictlist = <<>> /\ DOMAIN nodes = {} /\ DOMAIN OP_MEMO = {}
      BY DEF TreeInit
<1>2. nodes \in Seq(Node) /\ restrictlist \in Seq(DOMAIN nodes)
      BY <1>1
<1>3. rows \in Partition /\ summary \in Built[rows] /\ ~planning /\ ~pruned
      BY TreeAssumption DEF TreeInit
<1>4. planning \in BOOLEAN /\ pruned \in BOOLEAN
      BY DEF TreeInit
<1> QED BY <1>1, <1>2, <1>3, <1>4 DEF TreeIInv, TreeTypeOK, MemoRight, PruneLosesNoRow

LEMMA SeqWider ==
    ASSUME NEW S, NEW T, S \subseteq T, NEW q \in Seq(S)
    PROVE  q \in Seq(T)
<1>1. Len(q) \in Nat /\ q \in [1 .. Len(q) -> S]
      BY LenProperties
<1>2. q \in [1 .. Len(q) -> T]
      BY <1>1
<1> QED BY <1>1, <1>2, SeqDef

\* The type of the nodes, which two actions extend.
NodesTyped ==
    /\ nodes \in Seq(Node)
    /\ \A i \in DOMAIN nodes : IsBool(i) => nodes[i].args \in Seq(1 .. i - 1)
    /\ restrictlist \in Seq(DOMAIN nodes)

\* One more node, whose parts are there, and clauses that are.
LEMMA NodeAdded ==
    ASSUME NodesTyped, NEW node \in Node,
           node.type = "BoolExpr" => node.args \in Seq(DOMAIN nodes),
           NEW kept \in Seq(DOMAIN nodes),
           nodes' = Append(nodes, node), restrictlist' = Append(kept, Len(nodes) + 1)
    PROVE  NodesTyped'
<1> DEFINE n == Len(nodes)
<1>1. n \in Nat /\ DOMAIN nodes = 1 .. n /\ nodes \in Seq(Node)
      BY LenProperties DEF NodesTyped
<1>2. /\ nodes' \in Seq(Node) /\ DOMAIN nodes' = 1 .. n + 1 /\ nodes'[n + 1] = node
      /\ \A i \in 1 .. n : nodes'[i] = nodes[i]
      BY <1>1, AppendProperties, LenProperties
<1> HIDE DEF n
<1>3. ASSUME NEW i \in DOMAIN nodes', IsBool(i)'
      PROVE  nodes'[i].args \in Seq(1 .. i - 1)
  <2>1. CASE i \in 1 .. n
        BY <1>1, <1>2, <1>3, <2>1 DEF NodesTyped, IsBool
  <2>2. CASE i = n + 1
    <3>1. i - 1 = n
          BY <1>1, <2>2
    <3> QED BY <1>1, <1>2, <1>3, <2>2, <3>1 DEF IsBool
  <2> QED BY <1>1, <1>2, <2>1, <2>2
<1>4. DOMAIN nodes \subseteq DOMAIN nodes' /\ n + 1 \in DOMAIN nodes'
      BY <1>1, <1>2
<1>5. kept \in Seq(DOMAIN nodes')
      BY <1>4, SeqWider
<1>6. restrictlist' \in Seq(DOMAIN nodes')
      BY <1>4, <1>5, AppendProperties DEF n
<1> QED BY <1>2, <1>3, <1>6 DEF NodesTyped

\* Nothing is pruned before the hook runs.
LEMMA BuildingKeeps ==
    ASSUME TreeIInv, ~planning, NodesTyped',
           UNCHANGED <<planning, rows, summary, OP_MEMO, pruned>>
    PROVE  TreeIInv'
<1>1. ~pruned' /\ pruned' \in BOOLEAN /\ planning' \in BOOLEAN
      BY DEF TreeIInv, TreeTypeOK
<1>2. MemoRight'
      BY DEF TreeIInv, MemoRight
<1>3. TreeTypeOK'
      BY <1>1 DEF TreeIInv, TreeTypeOK, NodesTyped
<1> QED BY <1>1, <1>2, <1>3 DEF TreeIInv, PruneLosesNoRow

LEMMA AddLeafKeeps ==
    ASSUME TreeIInv, NEW leaf \in Leaf, AddLeaf(leaf)
    PROVE  TreeIInv'
<1>1. NodesTyped
      BY DEF TreeIInv, TreeTypeOK, NodesTyped
<1>2. leaf \in Node /\ leaf.type # "BoolExpr"
  <2>1. IsLeaf(leaf)
        BY TreeAssumption
  <2> QED BY <2>1 DEF IsLeaf, Node
<1>3. NodesTyped'
      BY <1>1, <1>2, NodeAdded DEF AddLeaf, NodesTyped
<1> QED BY <1>3, BuildingKeeps DEF AddLeaf

LEMMA CombineKeeps ==
    ASSUME TreeIInv, NEW boolop \in {"AND", "OR", "NOT"}, NEW n \in Nat, Combine(boolop, n)
    PROVE  TreeIInv'
<1> DEFINE kept == Len(restrictlist) - n
           args == SubSeq(restrictlist, kept + 1, Len(restrictlist))
           node == [type |-> "BoolExpr", boolop |-> boolop, args |-> args]
<1>1. NodesTyped
      BY DEF TreeIInv, TreeTypeOK, NodesTyped
<1>2. /\ restrictlist \in Seq(DOMAIN nodes) /\ Len(restrictlist) \in Nat
      /\ n \in 1 .. Len(restrictlist)
      BY <1>1, LenProperties DEF NodesTyped, Combine
<1>3. kept \in 0 .. Len(restrictlist) /\ kept + 1 \in 1 .. Len(restrictlist)
      BY <1>2
<1>4. args \in Seq(DOMAIN nodes) /\ SubSeq(restrictlist, 1, kept) \in Seq(DOMAIN nodes)
  <2>1. \A i \in 1 .. Len(restrictlist) : restrictlist[i] \in DOMAIN nodes
        BY <1>2, ElementOfSeq
  <2> HIDE DEF kept
  <2> QED BY <1>2, <1>3, <2>1, SubSeqProperties
<1>5. DOMAIN nodes \subseteq Nat
      BY <1>1, LenProperties DEF NodesTyped
<1>6. args \in Seq(Nat)
      BY <1>4, <1>5, SeqWider
<1>7. node \in Node /\ node.type = "BoolExpr" /\ node.args = args
      BY <1>6 DEF Node
<1>8. /\ nodes' = Append(nodes, node)
      /\ restrictlist' = Append(SubSeq(restrictlist, 1, kept), Len(nodes) + 1)
      BY DEF Combine
<1> HIDE DEF kept, args, node
<1>9. NodesTyped'
      BY <1>1, <1>4, <1>7, <1>8, NodeAdded
<1> QED BY <1>9, BuildingKeeps DEF Combine

LEMMA LookedTyped ==
    ASSUME TreeTypeOK, NEW i \in DOMAIN nodes
    PROVE  Looked(nodes[i]) \subseteq Operator \X BOOLEAN
<1>1. CASE IsBool(i)
      BY <1>1 DEF Looked, IsBool
<1>2. CASE ~IsBool(i)
  <2> DEFINE node == nodes[i]
  <2>1. IsLeaf(node)
        BY <1>2, NodeIs
  <2> HIDE DEF node
  <2>2. node.type \in {"OpExpr", "ScalarArrayOpExpr"} => node.op \in Operator
        BY <2>1 DEF IsLeaf
  <2>3. Commuted(node) \in BOOLEAN
        BY DEF Commuted
  <2>4. \/ Looked(node) = {}
        \/ node.type = "OpExpr" /\ Looked(node) = {<<node.op, Commuted(node)>>}
        \/ node.type = "ScalarArrayOpExpr" /\ Looked(node) = {<<node.op, FALSE>>}
    <3>1. CASE node.type = "OpExpr" /\ IsComparison(node)
          BY <3>1 DEF Looked
    <3>2. CASE node.type = "ScalarArrayOpExpr" /\ IsAnyTest(node)
          BY <3>2 DEF Looked
    <3>3. CASE /\ ~(node.type = "OpExpr" /\ IsComparison(node))
               /\ ~(node.type = "ScalarArrayOpExpr" /\ IsAnyTest(node))
          BY <3>3 DEF Looked
    <3> QED BY <3>1, <3>2, <3>3
  <2>5. ASSUME NEW op \in Operator, NEW commuted \in BOOLEAN
        PROVE  {<<op, commuted>>} \subseteq Operator \X BOOLEAN
        OBVIOUS
  <2>6. Looked(node) \subseteq Operator \X BOOLEAN
    <3>1. CASE Looked(node) = {}
          BY <3>1
    <3>2. CASE node.type = "OpExpr" /\ Looked(node) = {<<node.op, Commuted(node)>>}
          BY <2>2, <2>3, <2>5, <3>2
    <3>3. CASE node.type = "ScalarArrayOpExpr" /\ Looked(node) = {<<node.op, FALSE>>}
          BY <2>2, <2>5, <3>3
    <3> QED BY <2>4, <3>1, <3>2, <3>3
  <2> QED BY <2>6 DEF node
<1> QED BY <1>1, <1>2

LEMMA EvaluateRelationKeeps ==
    ASSUME TreeIInv, evaluate_relation
    PROVE  TreeIInv'
<1>0. TreeTypeOK /\ MemoRight
      BY DEF TreeIInv
<1>1. /\ nodes' = nodes /\ restrictlist' = restrictlist /\ planning'
      /\ rows' \in Partition /\ summary' \in Built[rows']
      /\ pruned' = \E i \in DOMAIN restrictlist :
                       clause_proves_prune(summary')[0][restrictlist[i]]
      BY DEF evaluate_relation
<1>2. ASSUME NEW key \in DOMAIN OP_MEMO'
      PROVE  key \in Operator \X BOOLEAN /\ OP_MEMO'[key] = compare_op(key[1], key[2])
  <2> DEFINE looked == UNION {Looked(nodes[i]) : i \in DOMAIN nodes}
             keys == {MemoKey(l[1], l[2]) : l \in looked} \ DOMAIN OP_MEMO
             found(k) == CHOOSE l \in looked : MemoKey(l[1], l[2]) = k
  <2>1. OP_MEMO' = [k \in DOMAIN OP_MEMO \cup keys |->
                       IF k \in DOMAIN OP_MEMO THEN OP_MEMO[k]
                       ELSE compare_op(found(k)[1], found(k)[2])]
        BY DEF evaluate_relation
  <2>2. looked \subseteq Operator \X BOOLEAN
        BY <1>0, LookedTyped
  <2>3. CASE key \in DOMAIN OP_MEMO
    <3>1. OP_MEMO'[key] = OP_MEMO[key]
      <4> HIDE DEF keys, found
      <4> QED BY <2>1, <2>3
    <3> QED BY <1>0, <2>3, <3>1 DEF MemoRight
  <2>4. CASE key \notin DOMAIN OP_MEMO
    <3>1. key \in keys /\ OP_MEMO'[key] = compare_op(found(key)[1], found(key)[2])
      <4> HIDE DEF keys, found
      <4> QED BY <1>2, <2>1, <2>4
    <3>2. \E l \in looked : MemoKey(l[1], l[2]) = key
          BY <3>1
    <3> HIDE DEF looked, keys
    <3>3. found(key) \in looked /\ MemoKey(found(key)[1], found(key)[2]) = key
          BY <3>2
    <3> HIDE DEF found
    <3>4. found(key) \in Operator \X BOOLEAN
          BY <2>2, <3>3
    <3>5. key = found(key)
          BY <3>3, <3>4 DEF MemoKey
    <3> QED BY <3>1, <3>4, <3>5
  <2> QED BY <2>3, <2>4
<1>3. MemoRight'
      BY <1>2 DEF MemoRight
<1>4. pruned' \in BOOLEAN /\ planning' \in BOOLEAN
      BY DEF evaluate_relation
<1>5. \A key \in DOMAIN OP_MEMO' : OP_MEMO'[key] \in CompareOp
      BY <1>2, CompareOpIs
<1>6. TreeTypeOK'
      BY <1>0, <1>1, <1>4, <1>5 DEF TreeTypeOK, IsBool
<1>7. ASSUME pruned', \A m \in DOMAIN nodes : ~Misread(nodes[m]), NEW row \in rows'
      PROVE  \E i \in DOMAIN restrictlist : Evaluated(row)[restrictlist[i]] # "t"
  <2>1. PICK i \in DOMAIN restrictlist : clause_proves_prune(summary')[0][restrictlist[i]]
        BY <1>1, <1>7
  <2>2. summary' \in Summary /\ row \in Row /\ CoversRow(summary', row)
        BY <1>1, <1>7, BuiltCovers
  <2>3. restrictlist[i] \in DOMAIN nodes
    <3>1. restrictlist \in Seq(DOMAIN nodes)
          BY <1>0 DEF TreeTypeOK
    <3> QED BY <3>1, LenProperties, ElementOfSeq
  <2> QED BY <1>0, <1>7, <2>1, <2>2, <2>3, ClauseSound
<1>8. ASSUME NEW row PROVE Evaluated(row)' = Evaluated(row)
      BY <1>1 DEF Evaluated, IsBool
<1>9. PruneLosesNoRow'
      BY <1>1, <1>7, <1>8 DEF PruneLosesNoRow
<1> QED BY <1>1, <1>3, <1>6, <1>9 DEF TreeIInv

LEMMA TreeStepIInv == TreeIInv /\ [TreeNext]_treeVars => TreeIInv'
<1> SUFFICES ASSUME TreeIInv, [TreeNext]_treeVars PROVE TreeIInv'
    OBVIOUS
<1>1. CASE \E leaf \in Leaf : AddLeaf(leaf)
      BY <1>1, AddLeafKeeps
<1>2. CASE \E boolop \in {"AND", "OR", "NOT"}, n \in 1 .. MaxLeaves : Combine(boolop, n)
      BY <1>2, CombineKeeps, TreeAssumption
<1>3. CASE evaluate_relation
      BY <1>3, EvaluateRelationKeeps
<1>4. CASE UNCHANGED treeVars
  <2>1. /\ UNCHANGED <<nodes, restrictlist, planning>>
        /\ UNCHANGED <<rows, summary, OP_MEMO, pruned>>
        BY <1>4 DEF treeVars
  <2>2. TreeTypeOK' /\ MemoRight' /\ (pruned' => planning')
        BY <2>1 DEF TreeIInv, TreeTypeOK, MemoRight, IsBool
  <2>3. ASSUME NEW row PROVE Evaluated(row)' = Evaluated(row)
        BY <2>1 DEF Evaluated, IsBool
  <2>4. PruneLosesNoRow'
        BY <2>1, <2>3 DEF TreeIInv, PruneLosesNoRow
  <2> QED BY <2>2, <2>4 DEF TreeIInv
<1> QED BY <1>1, <1>2, <1>3, <1>4 DEF TreeNext

-----------------------------------------------------------------------------
(***************************************************************************)
(* Nodes point to earlier ones and clauses to nodes, the summary is one    *)
(* that a build over the rows may store, and the memo has what compare_op  *)
(* can return.                                                             *)
(***************************************************************************)
THEOREM TreeTypeCorrect == TreeSpec => []TreeTypeOK
<1>1. TreeIInv => TreeTypeOK
      BY DEF TreeIInv
<1> QED BY <1>1, TreeInitIInv, TreeStepIInv, PTL DEF TreeSpec

(***************************************************************************)
(* A partition that evaluate_relation prunes holds no row of which every   *)
(* clause is true: for any summary of any rows, any depth limit, whatever  *)
(* the plan's memo of operators has seen before, and any query no part of  *)
(* which is misread: a comparison under the collation of an index that is  *)
(* in another type's order, or IS NULL of a composite value.               *)
(***************************************************************************)
THEOREM PrunedTreesLoseNoRow == TreeSpec => []PruneLosesNoRow
<1>1. TreeIInv => PruneLosesNoRow
      BY DEF TreeIInv
<1> QED BY <1>1, TreeInitIInv, TreeStepIInv, PTL DEF TreeSpec
===============================================================================
