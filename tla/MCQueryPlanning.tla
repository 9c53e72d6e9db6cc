--------------------------- MODULE MCQueryPlanning ---------------------------
(***************************************************************************)
(* One session that queries and writes and one that writes, each with a    *)
(* transaction that may hold a savepoint, and one key that the summary     *)
(* covers or does not.                                                     *)
(***************************************************************************)
EXTENDS QueryPlanning
=============================================================================
