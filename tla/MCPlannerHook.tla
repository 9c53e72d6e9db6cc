---------------------------- MODULE MCPlannerHook ----------------------------
(***************************************************************************)
(* Two partitions and two functions; up to nine invocations, planners and  *)
(* hooks, are nested in each other.                                        *)
(***************************************************************************)
EXTENDS PlannerHook, TLC

Symmetric == Permutations(Rel) \cup Permutations(Proc)
=============================================================================
