----------------------------- MODULE MCClauseTree -----------------------------
(***************************************************************************)
(* Two columns, three values and two orders that disagree, of which one is *)
(* in "C" that of another type.  The leaves are one of each shape the       *)
(* planner hands over: a column on either side, a cast, an operator of     *)
(* another order or of none, both kinds of arrays, NULL as a constant and  *)
(* as an array, a column that is not indexed.  "b" is also a composite     *)
(* value with one field NULL and one not.  A tree has up to three leaves.  *)
(***************************************************************************)
EXTENDS ClauseTree, TLC

MCRank == [C |-> [a |-> 1, b |-> 2, c |-> 3], en |-> [a |-> 2, b |-> 1, c |-> 3]]

MCDatumToText == [v \in Value |-> v]
MCTextToDatum == [t \in Text |-> t]
MCIndexCollation == [col \in Column |-> "C"]
MCTextLen == [t \in Text |-> 1]

MCOrderOf == [own |-> [C |-> "C", en |-> "en"], other |-> [C |-> "en", en |-> "C"]]

Op(strategy) == [strategy |-> strategy, cmpproc |-> "own"]
OtherOp(strategy) == [strategy |-> strategy, cmpproc |-> "other"]
Var(attnum) == [tag |-> "Var", attnum |-> attnum]
Const(value) == [tag |-> "Const", value |-> value]
Relabel(arg) == [tag |-> "RelabelType", arg |-> arg]
OpExpr(op, coll, left, right) ==
    [type |-> "OpExpr", op |-> op, inputcollid |-> coll, left |-> left, right |-> right]
Saop(useOr, left, elems) ==
    [type |-> "ScalarArrayOpExpr", op |-> Op(3), inputcollid |-> "C", useOr |-> useOr,
     left |-> left, elems |-> elems]
NullTest(is_null, argisrow, arg) ==
    [type |-> "NullTest", is_null |-> is_null, argisrow |-> argisrow, arg |-> arg]

MCLeaf ==
    {OpExpr(Op(5), "C", Var(1), Const("b")),
     OpExpr(Op(5), "C", Const("b"), Relabel(Var(1))),
     OpExpr(Op(2), "en", Relabel(Var(1)), Const("b")),
     OpExpr(OtherOp(2), "C", Relabel(Var(1)), Const("b")),
     OpExpr(Op(0), "C", Var(1), Const("a")),
     OpExpr(Op(4), "C", Var(2), Const(Null)),
     OpExpr(Op(3), "C", Var(3), Const("b")),
     Saop(TRUE, Var(2), {"b", Null}),
     Saop(TRUE, Var(2), Null),
     Saop(FALSE, Var(2), {"a", "b"}),
     NullTest(TRUE, FALSE, Var(1)),
     NullTest(FALSE, TRUE, Relabel(Var(2)))}

MCOpaque(expr, row) == row[2]

MCPartition ==
    {{}, {<<Null, Null>>}, {<<"c", "b">>, <<Null, "c">>}, {<<"a", "b">>, <<"b", "a">>}}
=============================================================================
