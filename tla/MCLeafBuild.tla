---------------------------- MODULE MCLeafBuild ----------------------------
(***************************************************************************)
(* Two columns with bounds and one without.  The collations order the      *)
(* values differently; "a" and "a0" compare equal under either without     *)
(* being the same value; "raw" has no text form; "long" is too long for    *)
(* both columns to store it; the text of "b" is empty.                     *)
(***************************************************************************)
EXTENDS BlobFormat, TLC

MCValue == {"a", "a0", "b", "long", "raw"}
MCText == {"'a'", "'a0'", "'b'", "'long'"}

MCRank ==
    [C  |-> [a |-> 1, a0 |-> 1, b |-> 2, long |-> 3, raw |-> 4],
     en |-> [a |-> 2, a0 |-> 2, b |-> 1, long |-> 0, raw |-> 3]]

MCDatumToText ==
    "a" :> "'a'" @@ "a0" :> "'a0'" @@ "b" :> "'b'" @@ "long" :> "'long'" @@ "raw" :> None

\* Reading "'a0'" back gives "a": equal under every collation, not identical.
MCTextToDatum == "'a'" :> "a" @@ "'a0'" :> "a" @@ "'b'" :> "b" @@ "'long'" :> "long"

MCBytes ==
    "'a'" :> <<1>> @@ "'a0'" :> <<1, 0>> @@ "'b'" :> <<>> @@ "'long'" :> <<7, 0, 7, 0, 7, 0>>

MCTextLen == [t \in Text |-> Len(MCBytes[t])]

MCDescribed ==
    [c \in Column |-> [attnum |-> c + 8, overlap |-> c = 3, type_name |-> <<3>>, oid |-> 9]]

MCIndexCollation == [c \in Column |-> IF c = 1 THEN "C" ELSE "en"]

MCInput ==
    {<<"a", Null, "a">>, <<"a0", "a", Null>>, <<"b", "b", "b">>, <<"b", "long", Null>>,
     <<"long", "long", "a">>, <<Null, "a0", "a">>, <<Null, Null, Null>>,
     <<"raw", "b", "a">>, <<"a", "raw", "a">>}
=============================================================================
