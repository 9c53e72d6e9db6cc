----------------------------- MODULE PlannerHook -----------------------------
(***************************************************************************)
(* The state prune_hook.rs keeps for one planner invocation, and how it    *)
(* survives nesting and errors.  PostgreSQL's planner calls functions of   *)
(* the query at plan time, which may plan queries of their own; the hook   *)
(* on a relation calls comparison and input functions, which may do so     *)
(* too.  An error ends every invocation up to whatever catches it: an      *)
(* exception block of such a function, the relation's hook, or nothing.    *)
(***************************************************************************)
EXTENDS Naturals, FiniteSets, SequencesExt

CONSTANTS
    Rel,            \* partitions, by relid
    Proc,           \* comparison and input functions
    Absent,         \* the memo has no entry for the function
    Freed,          \* its entry points into memory that has been freed
    MaxStack        \* bound: invocations nested in each other

ASSUME HookAssumption ==
    /\ MaxStack \in Nat
    /\ Absent \notin 1 .. MaxStack /\ Freed \notin 1 .. MaxStack
    /\ Absent # Freed

VARIABLES
    stack,          \* "plan": a planner invocation; "load", "eval": the hook of a
                    \* relation, reading the summary or evaluating clauses with it
    PLAN_DEPTH,
    IN_HOOK,
    CACHE,          \* relations whose summary is cached for the plan
    FMGR_MEMO       \* each function's lookup: the invocation in whose memory it is

vars == <<stack, PLAN_DEPTH, IN_HOOK, CACHE, FMGR_MEMO>>

Hooks == {i \in DOMAIN stack : stack[i] # "plan"}

TypeOK ==
    /\ stack \in Seq({"plan", "load", "eval"}) /\ Len(stack) <= MaxStack
    /\ PLAN_DEPTH \in Nat
    /\ IN_HOOK \in BOOLEAN
    /\ CACHE \subseteq Rel
    /\ FMGR_MEMO \in [Proc -> {Absent, Freed} \cup (DOMAIN stack \ Hooks)]

Top == IF stack = <<>> THEN "none" ELSE Last(stack)

NoMemo == [p \in Proc |-> Absent]

\* CACHE.borrow() is held while clauses are evaluated.
Borrowed == \E i \in DOMAIN stack : stack[i] = "eval"

Plans(s) == Cardinality({i \in DOMAIN s : s[i] = "plan"})

Init ==
    /\ stack = <<>>
    /\ PLAN_DEPTH = 0
    /\ IN_HOOK = FALSE
    /\ CACHE = {}
    /\ FMGR_MEMO = NoMemo

-----------------------------------------------------------------------------
clear_cache == CACHE' = {} /\ FMGR_MEMO' = NoMemo

\* A query is planned, for a client or for a function the planner or the hook
\* called.  The outermost invocation starts with empty caches.
planner_hook ==
    /\ Top \in {"none", "plan", "eval"} /\ Len(stack) < MaxStack
    /\ stack' = Append(stack, "plan")
    /\ PLAN_DEPTH' = PLAN_DEPTH + 1
    /\ IF PLAN_DEPTH = 0 THEN clear_cache ELSE UNCHANGED <<CACHE, FMGR_MEMO>>
    /\ UNCHANGED IN_HOOK

\* What was looked up in the memory of an invocation that is over.
Dangling(left) ==
    FMGR_MEMO' = [p \in Proc |-> IF FMGR_MEMO[p] \in left + 1 .. MaxStack
                                 THEN Freed ELSE FMGR_MEMO[p]]

\* Mutant of Finally: an error skips it.
FinallyUnlessError(left) ==
    IF left < Len(stack) - 1
    THEN Dangling(left) /\ UNCHANGED <<PLAN_DEPTH, CACHE>>
    ELSE LET ended == Plans(stack) - Plans(SubSeq(stack, 1, left)) IN
         /\ PLAN_DEPTH' = PLAN_DEPTH - ended
         /\ IF ended > 0 /\ PLAN_DEPTH' = 0
            THEN clear_cache ELSE Dangling(left) /\ UNCHANGED CACHE

\* Mutant of Finally: a hook that ends is counted as a planner.
FinallyOfEach(left) ==
    /\ PLAN_DEPTH' = PLAN_DEPTH - (Len(stack) - left)
    /\ IF PLAN_DEPTH' = 0 THEN clear_cache ELSE Dangling(left) /\ UNCHANGED CACHE

\* The `finally` of each planner invocation above the first `left` frames.
Finally(left) ==
    LET ended == Plans(stack) - Plans(SubSeq(stack, 1, left)) IN
    /\ PLAN_DEPTH' = PLAN_DEPTH - ended
    /\ IF ended > 0 /\ PLAN_DEPTH' = 0
       THEN clear_cache ELSE Dangling(left) /\ UNCHANGED CACHE

planner_hook_returns ==
    /\ Top = "plan"
    /\ stack' = Front(stack)
    /\ Finally(Len(stack) - 1)
    /\ UNCHANGED IN_HOOK

\* Mutant of pathlist_hook: a relation planned by the hook's own functions is
\* evaluated as well.
pathlist_hook_unguarded ==
    /\ Top = "plan" /\ Len(stack) < MaxStack
    /\ stack' = Append(stack, "load")
    /\ IN_HOOK' = TRUE
    /\ UNCHANGED <<PLAN_DEPTH, CACHE, FMGR_MEMO>>

\* The planner has the paths of a relation; inside another hook nothing is done.
pathlist_hook ==
    /\ Top = "plan" /\ Len(stack) < MaxStack
    /\ ~IN_HOOK
    /\ stack' = Append(stack, "load")
    /\ IN_HOOK' = TRUE
    /\ UNCHANGED <<PLAN_DEPTH, CACHE, FMGR_MEMO>>

load_summary(rel) ==
    /\ Top = "load"
    /\ CACHE' = CACHE \cup {rel}
    /\ stack' = Append(Front(stack), "eval")
    /\ UNCHANGED <<PLAN_DEPTH, IN_HOOK, FMGR_MEMO>>

\* A comparison or input function is looked up, in the memory of the planner
\* invocation below, and called.
fmgr_cached(p) ==
    /\ Top = "eval"
    /\ FMGR_MEMO' = [FMGR_MEMO EXCEPT ![p] = IF @ = Absent THEN Len(stack) - 1 ELSE @]
    /\ UNCHANGED <<stack, PLAN_DEPTH, IN_HOOK, CACHE>>

\* The relation is pruned or not; the planner goes on.
pathlist_hook_returns ==
    /\ Top \in {"load", "eval"}
    /\ stack' = Front(stack)
    /\ IN_HOOK' = FALSE
    /\ UNCHANGED <<PLAN_DEPTH, CACHE, FMGR_MEMO>>

\* The frame whose function may have an exception block, or 0: a hook in between
\* catches every error.
Catches(left) ==
    /\ left < Len(stack)
    /\ left > 0 => stack[left] # "load"
    /\ \A i \in Hooks : i <= left + 1

\* Mutant of catch_others: the error skips the statement that resets IN_HOOK.
catch_others_guard_left(left) == UNCHANGED IN_HOOK

catch_others(left) == IN_HOOK' = (IN_HOOK /\ left + 1 \notin Hooks)

\* An error ends the invocations above the one that catches it.
Raise(left) ==
    /\ stack # <<>> /\ Catches(left)
    /\ stack' = SubSeq(stack, 1, left)
    /\ Finally(left)
    /\ catch_others(left)

-----------------------------------------------------------------------------
Next ==
    \/ planner_hook
    \/ planner_hook_returns
    \/ pathlist_hook
    \/ \E rel \in Rel : load_summary(rel)
    \/ \E p \in Proc : fmgr_cached(p)
    \/ pathlist_hook_returns
    \/ \E left \in 0 .. MaxStack : Raise(left)

Spec == Init /\ [][Next]_vars

-----------------------------------------------------------------------------
\* Whatever was nested and wherever errors were caught, nothing of a plan is
\* left when the outermost invocation is over, and the next starts afresh.
CleanBetweenPlans ==
    /\ PLAN_DEPTH = Plans(stack)
    /\ stack = <<>> => ~IN_HOOK /\ CACHE = {} /\ FMGR_MEMO = NoMemo

\* One hook runs at a time, and pruning is not switched off after an error.
GuardHeldByHook == Cardinality(Hooks) = (IF IN_HOOK THEN 1 ELSE 0)

\* CACHE is never borrowed mutably while it is borrowed, which would panic.
NoConflictingBorrow == [][CACHE' # CACHE => ~Borrowed]_vars
=============================================================================
