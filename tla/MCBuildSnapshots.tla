-------------------------- MODULE MCBuildSnapshots --------------------------
(***************************************************************************)
(* Two readers, whose snapshots may be older and younger than a build.     *)
(***************************************************************************)
EXTENDS BuildSnapshots, TLC

MCSymmetry == Permutations(Reader) \cup Permutations(Key)
=============================================================================
