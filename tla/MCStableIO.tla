----------------------------- MODULE MCStableIO -----------------------------
(***************************************************************************)
(* Two pinned settings, one of which rounds.                               *)
(***************************************************************************)
EXTENDS StableIO
=============================================================================
