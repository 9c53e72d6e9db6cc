------------------------- MODULE MCDuplicateColumns -------------------------
(***************************************************************************)
(* One text column, indexed under "C" (B < a < b) and "en" (a < b < B).    *)
(***************************************************************************)
EXTENDS DuplicateColumns, TLC

MCValue == {"a", "b", "B"}
MCText == {"'a'", "'b'", "'B'"}
MCRank == [C |-> [B |-> 1, a |-> 2, b |-> 3], en |-> [a |-> 1, b |-> 2, B |-> 3]]
MCDatumToText == "a" :> "'a'" @@ "b" :> "'b'" @@ "B" :> "'B'"
MCTextToDatum == "'a'" :> "a" @@ "'b'" :> "b" @@ "'B'" :> "B"
MCAttNums == <<1, 1>>
MCIndexCollation == <<"C", "en">>
MCInput == [{1} -> MCValue \cup {Null}]
=============================================================================
