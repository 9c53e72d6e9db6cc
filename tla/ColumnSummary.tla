--------------------------- MODULE ColumnSummary ---------------------------
(***************************************************************************)
(* One column's summary (`ColSummary`): how a value is folded into it on   *)
(* insert, and when it proves that no row of the partition can match a     *)
(* clause.  Covering extents (`overlap` columns) are not in this module.   *)
(*                                                                         *)
(* A datum is a value of the column or SQL NULL.  The btree order of the   *)
(* column's type under a collation is given by an integer rank, so two     *)
(* values may compare equal without being the same value (1.0 and 1.00).   *)
(* Bounds are stored as text, and some values have none (datum_to_text     *)
(* returns None).                                                          *)
(***************************************************************************)
EXTENDS Integers

CONSTANTS
    Value,          \* non-null datums of the column, and constants of clauses
    Text,           \* text forms in which bounds are stored
    Collation,      \* collations a comparison may run under
    Rank,           \* Rank[coll][v]: the position of v in the order of coll
    DatumToText,    \* a value's text form, None if it has no UTF-8 one
    TextToDatum,    \* what the type's input function makes of a text form
    Null,           \* SQL NULL
    None            \* Option::None: a bound that is not there

(***************************************************************************)
(* What stable_io.rs provides while it runs `f`: a stored bound reads back *)
(* as a value that compares equal to the one written, under any collation. *)
(***************************************************************************)
ASSUME ColumnAssumption ==
    /\ Null \notin Value
    /\ None \notin Text \cup Value
    /\ Rank \in [Collation -> [Value -> Int]]
    /\ DatumToText \in [Value -> Text \cup {None}]
    /\ TextToDatum \in [Text -> Value]
    /\ \A v \in Value, c \in Collation :
           DatumToText[v] # None =>
               Rank[c][TextToDatum[DatumToText[v]]] = Rank[c][v]

Datum == Value \cup {Null}

Bound == Text \cup {None}

ColSummary ==
    [collation : Collation, min : Bound, max : Bound,
     has_nulls : BOOLEAN, all_nulls : BOOLEAN, unbounded : BOOLEAN]

HasBounds(col) == col.min # None /\ col.max # None

-----------------------------------------------------------------------------
(* Widening: index_am.rs, widen_column and widen_minmax.                   *)

datum_cmp(coll, a, b) == Rank[coll][a] - Rank[coll][b]

make_unbounded(col) ==
    [col EXCEPT !.unbounded = TRUE, !.min = None, !.max = None]

\* The value has a text form, and the column has both bounds or neither.
CanFold(col, v) ==
    /\ DatumToText[v] # None
    /\ col.min = None <=> col.max = None

widen_minmax(col, coll, v) ==
    LET new_text == DatumToText[v]
        below == ~HasBounds(col) \/ datum_cmp(coll, v, TextToDatum[col.min]) < 0
        above == ~HasBounds(col) \/ datum_cmp(coll, v, TextToDatum[col.max]) > 0
    IN  [col EXCEPT !.min = IF below THEN new_text ELSE @,
                    !.max = IF above THEN new_text ELSE @]

\* Mutant of widen_column: a value without a text form is left out.
widen_column_lossy(col, coll, d) ==
    LET seen == [col EXCEPT !.all_nulls = FALSE]
    IN  IF d = Null THEN [col EXCEPT !.has_nulls = TRUE]
        ELSE IF ~col.unbounded /\ CanFold(col, d) THEN widen_minmax(seen, coll, d)
        ELSE seen

widen_column(col, coll, d) ==
    LET seen == [col EXCEPT !.all_nulls = FALSE]
    IN  IF d = Null THEN [col EXCEPT !.has_nulls = TRUE]
        ELSE IF col.unbounded THEN seen
        ELSE IF CanFold(col, d) THEN widen_minmax(seen, coll, d)
        ELSE make_unbounded(seen)

-----------------------------------------------------------------------------
(* Pruning: prune_hook.rs, QualSpec::proves_prune.                         *)

Strategies == 1 .. 5      \* <  <=  =  >=  >

\* `order` is what the operator's compare proc makes of the collation.
QualSpec ==
    [kind : {"compare"}, strategy : Strategies,
     collation : Collation, order : Collation, k : Value]
    \cup [kind : {"in_list"}, collation : Collation, order : Collation, elems : SUBSET Value]
    \cup [kind : {"null"}, is_null : BOOLEAN]

\* Operators that compare as the column's own type does under that collation;
\* ClauseTree has the others.
Clause == {clause \in QualSpec : clause.kind # "null" => clause.order = clause.collation}

\* "col <strategy> K", for a column value whose comparison with K gave c.
Holds(strategy, c) ==
    \/ strategy = 1 /\ c < 0
    \/ strategy = 2 /\ c <= 0
    \/ strategy = 3 /\ c = 0
    \/ strategy = 4 /\ c >= 0
    \/ strategy = 5 /\ c > 0

parsed_bounds(col) == HasBounds(col) /\ ~col.unbounded

\* Mutant of eval_compare: "col <= K" is pruned when K is the minimum.
eval_compare_off_by_one(col, strategy, coll, k) ==
    /\ parsed_bounds(col)
    /\ strategy \in {1, 2}
    /\ datum_cmp(coll, TextToDatum[col.min], k) >= 0

eval_compare(col, strategy, coll, k) ==
    LET min_cmp == datum_cmp(coll, TextToDatum[col.min], k)
        max_cmp == datum_cmp(coll, TextToDatum[col.max], k)
    IN  /\ parsed_bounds(col)
        /\ \/ strategy = 1 /\ min_cmp >= 0
           \/ strategy = 2 /\ min_cmp > 0
           \/ strategy = 3 /\ (min_cmp > 0 \/ max_cmp < 0)
           \/ strategy = 4 /\ max_cmp < 0
           \/ strategy = 5 /\ max_cmp <= 0

eval_in_list(col, coll, elems) ==
    /\ parsed_bounds(col)
    /\ \A e \in elems :
           ~ /\ datum_cmp(coll, TextToDatum[col.min], e) <= 0
             /\ datum_cmp(coll, TextToDatum[col.max], e) >= 0

\* Mutant of proves_prune: bounds are used whatever the clause's collation.
proves_prune_any_collation(clause, col) ==
    /\ clause.kind = "compare"
    /\ eval_compare(col, clause.strategy, clause.order, clause.k)

proves_prune(clause, col) ==
    \/ /\ clause.kind = "null"
       /\ IF clause.is_null THEN ~col.has_nulls ELSE col.all_nulls
    \/ /\ clause.kind = "compare"
       /\ col.collation = clause.collation
       /\ eval_compare(col, clause.strategy, clause.order, clause.k)
    \/ /\ clause.kind = "in_list"
       /\ col.collation = clause.collation
       /\ eval_in_list(col, clause.order, clause.elems)

\* What the executor answers for a row holding d: a NULL matches no comparison.
Matches(clause, d) ==
    \/ clause.kind = "null" /\ (clause.is_null <=> d = Null)
    \/ /\ clause.kind = "compare" /\ d # Null
       /\ Holds(clause.strategy, datum_cmp(clause.order, d, clause.k))
    \/ /\ clause.kind = "in_list" /\ d # Null
       /\ \E e \in clause.elems : datum_cmp(clause.order, d, e) = 0

-----------------------------------------------------------------------------
(* What a summary promises about the rows it was widened with.             *)

Within(col, v) ==
    /\ HasBounds(col)
    /\ datum_cmp(col.collation, TextToDatum[col.min], v) <= 0
    /\ datum_cmp(col.collation, v, TextToDatum[col.max]) <= 0

Covers(col, d) ==
    IF d = Null THEN col.has_nulls
    ELSE ~col.all_nulls /\ (col.unbounded \/ Within(col, d))

\* Every datum `narrow` covers, `wide` covers as well.
CoversAllOf(wide, narrow) == \A d \in Datum : Covers(narrow, d) => Covers(wide, d)
=============================================================================
