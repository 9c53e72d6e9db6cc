-------------------------- MODULE MCExtentSummary --------------------------
(***************************************************************************)
(* Six points in a grid; an extent is a box.  One extent has no text and   *)
(* one does not fit the page.                                              *)
(***************************************************************************)
EXTENDS ExtentSummary

MCPoint == (1 .. 3) \X (1 .. 2)

Box(S) ==
    {p \in MCPoint : \E a, b, c, d \in S :
        a[1] <= p[1] /\ p[1] <= b[1] /\ c[2] <= p[2] /\ p[2] <= d[2]}

MCHull == [S \in SUBSET MCPoint |-> Box(S)]

MCShape ==
    {{}, {<<1, 1>>}, {<<2, 2>>}, {<<3, 1>>}, {<<1, 2>>, <<2, 1>>}, {<<1, 2>>, <<2, 2>>}}

MCUnrendered == {Box({<<1, 1>>, <<3, 1>>})}
MCTooLong == {MCPoint}
=============================================================================
