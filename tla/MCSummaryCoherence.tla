------------------------- MODULE MCSummaryCoherence -------------------------
(***************************************************************************)
(* Two sessions, each with a transaction that may hold one savepoint, and  *)
(* two keys.                                                               *)
(***************************************************************************)
EXTENDS SummaryCoherence, TLC

Symmetric == Permutations(Backend) \cup Permutations(Key)
=============================================================================
