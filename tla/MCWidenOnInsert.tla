-------------------------- MODULE MCWidenOnInsert --------------------------
(***************************************************************************)
(* Two sessions, one column, values "a" < "b" < "c", where "c" takes so    *)
(* much room that a summary holding it twice loses its bounds.             *)
(***************************************************************************)
EXTENDS WidenOnInsert, TLC

MCValue == {"a", "b", "c"}
MCText == {"'a'", "'b'", "'c'"}
MCRank == [C |-> [a |-> 1, b |-> 2, c |-> 3]]
MCDatumToText == "a" :> "'a'" @@ "b" :> "'b'" @@ "c" :> "'c'"
MCTextToDatum == "'a'" :> "a" @@ "'b'" :> "b" @@ "'c'" :> "c"
MCTextLen == "'a'" :> 1 @@ "'b'" :> 1 @@ "'c'" :> 2
MCIndexCollation == [c \in Column |-> "C"]
MCInput == [Column -> MCValue \cup {Null}]

Sessions == Permutations(Backend)
=============================================================================
