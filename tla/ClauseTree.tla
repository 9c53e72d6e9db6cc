------------------------------ MODULE ClauseTree ------------------------------
(***************************************************************************)
(* How the restriction clauses of a relation, as the planner hands them    *)
(* over, decide whether its partition is pruned (prune_hook.rs, from       *)
(* evaluate_relation down to the single qualifiers of ColumnSummary): the  *)
(* shapes that are understood, operands on either side, casts that cost    *)
(* nothing, AND, OR and NOT, and the memo of operators.  What a clause is  *)
(* worth is what the executor makes of it, in three-valued logic.          *)
(*                                                                         *)
(* An operator compares by a proc, which may order values otherwise than   *)
(* the column's type does under the same collation (text as bpchar).  An   *)
(* order is named by the collation under which the column's type has it.   *)
(*                                                                         *)
(* As in PostgreSQL, an expression is a set of nodes that point to their   *)
(* parts.  Here they are numbered, a part before what it is a part of.     *)
(*                                                                         *)
(* A partition is one that IndexSummary built from its rows.               *)
(***************************************************************************)
EXTENDS IndexSummary, SequencesExt

CONSTANTS
    Leaf,           \* clauses without AND, OR, NOT, as parsed
    Opaque(_, _),   \* what any other expression is in a row, to the executor
    CmpProc,        \* compare procs of the operators
    OrderOf,        \* OrderOf[proc][coll]: in what order it compares under coll
    HasNullField,   \* composite values of which some field is NULL,
    HasSetField,    \* and of which some field is not
    Partition,      \* sets of rows
    NoQual,         \* the clause is not understood
    MaxRelabels,    \* bound: casts around an operand
    DepthLimit,     \* how deep clause_proves_prune descends (32)
    MaxLeaves,      \* bound: leaves of a query
    MaxBools        \* bound: its ANDs, ORs and NOTs

Operator == [strategy : Strategies \cup {0}, cmpproc : CmpProc]

\* An operand without the casts that cost nothing: RelabelType nodes.
strip_relabel(arg) ==
    LET peeled[n \in 0 .. MaxRelabels] ==
            IF n = 0 THEN arg
            ELSE IF peeled[n - 1].tag = "RelabelType" THEN peeled[n - 1].arg
            ELSE peeled[n - 1]
    IN  peeled[MaxRelabels]

IsOperand(arg) ==
    LET bare == strip_relabel(arg)
    IN  bare.tag # "RelabelType" /\ (bare.tag = "Const" => bare.value \in Datum)

(***************************************************************************)
(* What the parser guarantees: constants of the right type, and clauses    *)
(* that are true, false or NULL.  An array may be NULL, as its elements.   *)
(***************************************************************************)
Truths == {"t", "f", "u"}

IsLeaf(leaf) ==
    CASE leaf.type = "OpExpr" ->
           /\ leaf.op \in Operator /\ leaf.inputcollid \in Collation
           /\ IsOperand(leaf.left) /\ IsOperand(leaf.right)
      [] leaf.type = "NullTest" ->
           leaf.is_null \in BOOLEAN /\ leaf.argisrow \in BOOLEAN /\ IsOperand(leaf.arg)
      [] leaf.type = "ScalarArrayOpExpr" ->
           /\ leaf.op \in Operator /\ leaf.inputcollid \in Collation
           /\ leaf.useOr \in BOOLEAN /\ IsOperand(leaf.left)
           /\ leaf.elems = Null \/ leaf.elems \subseteq Datum
      [] OTHER ->
           leaf.type # "BoolExpr" /\ \A row \in Row : Opaque(leaf, row) \in Truths

ASSUME TreeAssumption ==
    /\ \A leaf \in Leaf : IsLeaf(leaf)
    /\ OrderOf \in [CmpProc -> [Collation -> Collation]]
    /\ Partition \subseteq SUBSET Row /\ {} \in Partition
    /\ MaxRelabels \in Nat
    /\ DepthLimit \in Nat /\ MaxLeaves \in Nat /\ MaxBools \in Nat

VARIABLES
    nodes,          \* the expressions of the query
    restrictlist,   \* the clauses on the relation, by node
    planning,       \* they are complete, and the hook runs on each partition
    rows,           \* what the last one holds
    summary,        \* its summary
    OP_MEMO,        \* operators looked up in this plan
    pruned          \* what the hook decided

treeVars == <<nodes, restrictlist, planning, rows, summary, OP_MEMO, pruned>>

\* The summaries that a build over each partition may store.
Built == [p \in Partition |-> build_leaf_summary(p)]

CompareOp == [strategy : Strategies, cmpproc : CmpProc] \cup {NoQual}

Node ==
    Leaf \cup [type : {"BoolExpr"}, boolop : {"AND", "OR", "NOT"}, args : Seq(Nat)]

IsBool(i) == nodes[i].type = "BoolExpr"

TreeTypeOK ==
    /\ nodes \in Seq(Node)
    /\ \A i \in DOMAIN nodes : IsBool(i) => nodes[i].args \in Seq(1 .. i - 1)
    /\ restrictlist \in Seq(DOMAIN nodes)
    /\ planning \in BOOLEAN
    /\ rows \in Partition
    /\ summary \in Built[rows]
    /\ \A key \in DOMAIN OP_MEMO : OP_MEMO[key] \in CompareOp
    /\ pruned \in BOOLEAN

-----------------------------------------------------------------------------
(* Operators: one of the default btree family of its input type has a      *)
(* strategy and a proc of that family; another one (`<>`) has strategy 0.  *)

\* Mutant of commute_strategy: counted from zero.
commute_strategy_from_zero(s) == 5 - s

commute_strategy(s) == 6 - s

compare_op(op, commuted) ==
    IF op.strategy = 0 THEN NoQual
    ELSE [strategy |-> IF commuted THEN commute_strategy(op.strategy) ELSE op.strategy,
          cmpproc |-> op.cmpproc]

\* Mutant of MemoKey: the side of the column is forgotten.
MemoKeyOfOperator(op, commuted) == op

MemoKey(op, commuted) == <<op, commuted>>

compare_op_cached(op, commuted) ==
    IF MemoKey(op, commuted) \in DOMAIN OP_MEMO THEN OP_MEMO[MemoKey(op, commuted)]
    ELSE compare_op(op, commuted)

-----------------------------------------------------------------------------
(* Extraction: which column a leaf is about, and what it asks of it.       *)

Qual(attnum, clause) == [attnum |-> attnum, clause |-> clause]

Commuted(node) == strip_relabel(node.left).tag = "Const"

VarOf(node) == strip_relabel(IF Commuted(node) THEN node.right ELSE node.left)

ConstOf(node) == strip_relabel(IF Commuted(node) THEN node.left ELSE node.right)

\* A column and a constant that is not NULL.
IsComparison(node) ==
    /\ VarOf(node).tag = "Var" /\ ConstOf(node).tag = "Const"
    /\ VarOf(node).attnum > 0 /\ ConstOf(node).value # Null

extract_opexpr(node) ==
    LET var == VarOf(node)
        con == ConstOf(node)
        op == compare_op_cached(node.op, Commuted(node))
    IN  IF ~IsComparison(node) THEN NoQual
        ELSE IF op = NoQual THEN NoQual
        ELSE Qual(var.attnum, [kind |-> "compare", strategy |-> op.strategy,
                               collation |-> node.inputcollid,
                               order |-> OrderOf[op.cmpproc][node.inputcollid],
                               k |-> con.value])

extract_nulltest(node) ==
    LET var == strip_relabel(node.arg)
    IN  IF var.tag # "Var" THEN NoQual
        ELSE IF var.attnum <= 0 THEN NoQual
        ELSE Qual(var.attnum, [kind |-> "null", is_null |-> node.is_null])

\* A column and an array that is not NULL.
IsAnyTest(node) ==
    /\ node.useOr /\ strip_relabel(node.left).tag = "Var"
    /\ strip_relabel(node.left).attnum > 0 /\ node.elems # Null

\* `= ANY`: NULL elements are dropped.
extract_saop(node) ==
    LET op == compare_op_cached(node.op, FALSE)
    IN  IF ~IsAnyTest(node) THEN NoQual
        ELSE IF op = NoQual THEN NoQual
        ELSE IF op.strategy # 3 THEN NoQual
        ELSE Qual(strip_relabel(node.left).attnum,
                  [kind |-> "in_list", collation |-> node.inputcollid,
                   order |-> OrderOf[op.cmpproc][node.inputcollid],
                   elems |-> node.elems \ {Null}])

extract_qual(node) ==
    CASE node.type = "OpExpr" -> extract_opexpr(node)
      [] node.type = "NullTest" -> extract_nulltest(node)
      [] node.type = "ScalarArrayOpExpr" -> extract_saop(node)
      [] OTHER -> NoQual

LeafProvesPrune(node, s) ==
    LET qual == extract_qual(node)
    IN  qual # NoQual
        /\ qual.attnum \in Column
        /\ proves_prune(qual.clause, s[qual.attnum])

-----------------------------------------------------------------------------
\* clause_proves_prune(s)[depth][i]: at that depth, node i proves that there is
\* no match.
clause_proves_prune(s) ==
    LET proves[depth \in 0 .. DepthLimit + 1] ==
            [i \in DOMAIN nodes |->
                /\ depth <= DepthLimit
                /\ \/ ~IsBool(i) /\ LeafProvesPrune(nodes[i], s)
                   \/ /\ IsBool(i) /\ nodes[i].boolop = "AND"
                      /\ \E j \in DOMAIN nodes[i].args : proves[depth + 1][nodes[i].args[j]]
                   \/ /\ IsBool(i) /\ nodes[i].boolop = "OR" /\ nodes[i].args # <<>>
                      /\ \A j \in DOMAIN nodes[i].args : proves[depth + 1][nodes[i].args[j]]]
    IN  proves

\* The operators that are looked up, with the side on which the column is; an
\* AND or OR that is decided early leaves some for later.
Looked(node) ==
    CASE node.type = "OpExpr" /\ IsComparison(node) -> {<<node.op, Commuted(node)>>}
      [] node.type = "ScalarArrayOpExpr" /\ IsAnyTest(node) -> {<<node.op, FALSE>>}
      [] OTHER -> {}

-----------------------------------------------------------------------------
(* The executor: TRUE is "t", FALSE "f", NULL "u".                         *)

Truth(b) == IF b THEN "t" ELSE "f"

ArgValue(arg, row) ==
    LET bare == strip_relabel(arg)
    IN  CASE bare.tag = "Const" -> bare.value
          [] bare.tag = "Var" /\ bare.attnum \in Column -> row[bare.attnum]
          [] OTHER -> Opaque(bare, row)

OpTruth(op, inputcollid, a, b) ==
    IF a = Null \/ b = Null THEN "u"
    ELSE LET c == datum_cmp(OrderOf[op.cmpproc][inputcollid], a, b)
         IN  Truth(IF op.strategy = 0 THEN c # 0 ELSE Holds(op.strategy, c))

\* A composite value is also NULL, or not NULL, if all its fields are.
NullTruth(node, d) ==
    Truth(IF node.is_null THEN d = Null \/ (node.argisrow /\ d \notin HasSetField)
          ELSE d # Null /\ ~(node.argisrow /\ d \in HasNullField))

LeafTruth(node, row) ==
    CASE node.type = "OpExpr" ->
           OpTruth(node.op, node.inputcollid,
                   ArgValue(node.left, row), ArgValue(node.right, row))
      [] node.type = "NullTest" -> NullTruth(node, ArgValue(node.arg, row))
      [] node.type = "ScalarArrayOpExpr" ->
           LET left == ArgValue(node.left, row)
               found == {OpTruth(node.op, node.inputcollid, left, e) : e \in node.elems}
               decisive == Truth(node.useOr)
           IN  IF node.elems = Null THEN "u"
               ELSE IF decisive \in found THEN decisive
               ELSE IF "u" \in found THEN "u" ELSE Truth(~node.useOr)
      [] OTHER -> Opaque(node, row)

BoolTruth(boolop, args) ==
    CASE boolop = "AND" -> IF "f" \in args THEN "f" ELSE IF "u" \in args THEN "u" ELSE "t"
      [] boolop = "OR" -> IF "t" \in args THEN "t" ELSE IF "u" \in args THEN "u" ELSE "f"
      [] OTHER -> IF args = {"u"} THEN "u" ELSE Truth(args = {"f"})

\* Evaluated(row)[i]: what node i is in that row.
Evaluated(row) ==
    LET truth[i \in DOMAIN nodes] ==
            IF ~IsBool(i) THEN LeafTruth(nodes[i], row)
            ELSE BoolTruth(nodes[i].boolop,
                           {truth[nodes[i].args[j]] : j \in DOMAIN nodes[i].args})
    IN  truth

-----------------------------------------------------------------------------
TreeInit ==
    /\ nodes = <<>>
    /\ restrictlist = <<>>
    /\ planning = FALSE
    /\ rows = {}
    /\ summary \in Built[rows]
    /\ OP_MEMO = [key \in {} |-> NoQual]
    /\ pruned = FALSE

Bools == {i \in DOMAIN nodes : IsBool(i)}

\* The query has one more condition.
AddLeaf(leaf) ==
    /\ ~planning
    /\ Cardinality(DOMAIN nodes \ Bools) < MaxLeaves
    /\ nodes' = Append(nodes, leaf)
    /\ restrictlist' = Append(restrictlist, Len(nodes) + 1)
    /\ UNCHANGED <<planning, rows, summary, OP_MEMO, pruned>>

\* The last conditions are parts of one.
Combine(boolop, n) ==
    /\ ~planning
    /\ n \in DOMAIN restrictlist /\ (boolop = "NOT" <=> n = 1)
    /\ Cardinality(Bools) < MaxBools
    /\ LET kept == Len(restrictlist) - n
           args == SubSeq(restrictlist, kept + 1, Len(restrictlist))
       IN  /\ nodes' = Append(nodes, [type |-> "BoolExpr", boolop |-> boolop, args |-> args])
           /\ restrictlist' = Append(SubSeq(restrictlist, 1, kept), Len(nodes) + 1)
    /\ UNCHANGED <<planning, rows, summary, OP_MEMO, pruned>>

\* The hook on the next partition of the plan, which keeps the memo.
evaluate_relation ==
    /\ restrictlist # <<>>
    /\ planning' = TRUE
    /\ rows' \in Partition
    /\ summary' \in Built[rows']
    /\ pruned' = \E i \in DOMAIN restrictlist :
                    clause_proves_prune(summary')[0][restrictlist[i]]
    /\ LET looked == UNION {Looked(nodes[i]) : i \in DOMAIN nodes}
           keys == {MemoKey(l[1], l[2]) : l \in looked} \ DOMAIN OP_MEMO
       IN  OP_MEMO' = [key \in DOMAIN OP_MEMO \cup keys |->
                          IF key \in DOMAIN OP_MEMO THEN OP_MEMO[key]
                          ELSE LET l == CHOOSE l \in looked : MemoKey(l[1], l[2]) = key
                               IN  compare_op(l[1], l[2])]
    /\ UNCHANGED <<nodes, restrictlist>>

TreeNext ==
    \/ \E leaf \in Leaf : AddLeaf(leaf)
    \/ \E boolop \in {"AND", "OR", "NOT"}, n \in 1 .. MaxLeaves : Combine(boolop, n)
    \/ evaluate_relation

TreeSpec == TreeInit /\ [][TreeNext]_treeVars

-----------------------------------------------------------------------------
\* What proves_prune and extract_nulltest do not look at: the order in which an
\* operator compares under the collation of an index, and argisrow.
Misread(leaf) ==
    \/ /\ leaf.type \in {"OpExpr", "ScalarArrayOpExpr"}
       /\ leaf.inputcollid \in Range(IndexCollation)
       /\ OrderOf[leaf.op.cmpproc][leaf.inputcollid] # leaf.inputcollid
    \/ leaf.type = "NullTest" /\ leaf.is_null /\ leaf.argisrow

\* A pruned partition holds no row for which every clause is true, however the
\* clauses are combined and whatever order their operators were first seen in;
\* but for queries of which some part is misread.
PruneLosesNoRow ==
    (pruned /\ \A i \in DOMAIN nodes : ~Misread(nodes[i])) =>
        \A row \in rows : \E i \in DOMAIN restrictlist :
            Evaluated(row)[restrictlist[i]] # "t"
=============================================================================
