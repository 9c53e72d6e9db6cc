---------------------------- MODULE IndexSummary ----------------------------
(***************************************************************************)
(* The summary of one partition (`IndexSummary`): one ColSummary for each  *)
(* indexed column.  A row is folded into every column's summary, and the   *)
(* result is made to fit the one page it is stored in.                     *)
(*                                                                         *)
(* Every indexed column is taken to be a different column of the table;    *)
(* module DuplicateColumns says what happens when one is indexed twice.    *)
(***************************************************************************)
EXTENDS ColumnSummary, Functions

CONSTANTS
    Column,             \* positions of the indexed columns
    IndexCollation,     \* the index's collation for each of them
    Supported,          \* the columns whose type has a btree order and is copyable
    TextLen,            \* length of a text form, without the prefix that tells it
    Room                \* bytes of the page left for bounds (max_blob_len)

ASSUME IndexAssumption ==
    /\ Column \subseteq Nat
    /\ IndexCollation \in [Column -> Collation]
    /\ Supported \subseteq Column
    /\ TextLen \in [Text -> Nat]
    /\ Room \in Int

Row == [Column -> Datum]

Summary ==
    {s \in [Column -> ColSummary] :
        \A c \in Column : s[c].collation = IndexCollation[c]}

\* Every value of the row is inside what the summary covers.
CoversRow(s, row) == \A c \in Column : Covers(s[c], row[c])

\* Everything `narrow` covers, `wide` covers as well.
WiderThan(wide, narrow) == \A c \in Column : CoversAllOf(wide[c], narrow[c])

-----------------------------------------------------------------------------
(* Fitting the page: index_storage.rs, encode_fitting.                     *)

bound_len(col) ==
    (IF col.min = None THEN 0 ELSE TextLen[col.min])
        + (IF col.max = None THEN 0 ELSE TextLen[col.max])

\* Each bound that is there takes two more bytes than its text, for its length:
\* an empty text does take room, although encode_fitting never drops it.
BoundBytes(col) ==
    (IF col.min = None THEN 0 ELSE TextLen[col.min] + 2)
        + (IF col.max = None THEN 0 ELSE TextLen[col.max] + 2)

Fits(s) == SumFunction([c \in Column |-> BoundBytes(s[c])]) <= Room

Dropped(s, drop) ==
    [c \in Column |-> IF c \in drop THEN make_unbounded(s[c]) ELSE s[c]]

\* Mutant of DroppedBefore: min_by_key, the column with the fewest bytes.
DroppedBeforeSmallest(s, c, d) ==
    \/ bound_len(s[c]) < bound_len(s[d])
    \/ bound_len(s[c]) = bound_len(s[d]) /\ c < d

\* max_by_key: the column with the most bytes, the last one of equals.
DroppedBefore(s, c, d) ==
    \/ bound_len(s[c]) > bound_len(s[d])
    \/ bound_len(s[c]) = bound_len(s[d]) /\ c > d

\* Mutant of DroppedColumns: the largest column is dropped, without looping.
DroppedColumnsOnce(s) ==
    {c \in Column : /\ ~Fits(s) /\ bound_len(s[c]) > 0
                    /\ \A d \in Column \ {c} : DroppedBefore(s, c, d)}

\* The columns the loop has dropped when it stops: no more than it takes to
\* fit, or every column with bounds if even that is not enough.
DroppedColumns(s) ==
    LET droppable == {c \in Column : bound_len(s[c]) > 0}
        prefixes == {drop \in SUBSET droppable :
                        \A c \in drop, d \in droppable \ drop : DroppedBefore(s, c, d)}
        enough == {drop \in prefixes : Fits(Dropped(s, drop))}
    IN  {c \in droppable : \A drop \in enough : c \in drop}

encode_fitting(s) == Dropped(s, DroppedColumns(s))

-----------------------------------------------------------------------------
(* Folding a row in: index_am.rs, widen_summary.                           *)

widen_summary(s, row) ==
    [c \in Column |-> widen_column(s[c], IndexCollation[c], row[c])]

\* What a successful widening stores.
Widened(s, row) == encode_fitting(widen_summary(s, row))

-----------------------------------------------------------------------------
(* What a build over `rows` may store: summary_build.rs.                   *)
(* Of values that compare equal the scan keeps the one it meets first.     *)

Least(c, values) ==
    {v \in values : \A w \in values : datum_cmp(IndexCollation[c], v, w) <= 0}

Greatest(c, values) ==
    {v \in values : \A w \in values : datum_cmp(IndexCollation[c], v, w) >= 0}

ValuesOf(c, rows) == {row[c] : row \in rows} \ {Null}

\* Both flags, with the bounds still to be filled in.
BuiltFlags(c, rows) ==
    [collation |-> IndexCollation[c], min |-> None, max |-> None,
     has_nulls |-> \E row \in rows : row[c] = Null,
     all_nulls |-> ValuesOf(c, rows) = {} /\ rows # {},
     unbounded |-> FALSE]

\* A bound that has no text form makes the column unbounded.
WithBounds(col, lo, hi) ==
    IF DatumToText[lo] = None \/ DatumToText[hi] = None THEN make_unbounded(col)
    ELSE [col EXCEPT !.min = DatumToText[lo], !.max = DatumToText[hi]]

BuiltColumns(c, rows) ==
    LET values == ValuesOf(c, rows)
        flags == BuiltFlags(c, rows)
    IN  IF c \notin Supported THEN {make_unbounded(flags)}
        ELSE IF values = {} THEN {flags}
        ELSE {WithBounds(flags, lo, hi) : lo \in Least(c, values), hi \in Greatest(c, values)}

build_leaf_summary(rows) ==
    {s \in [Column -> UNION {BuiltColumns(c, rows) : c \in Column}] :
        \A c \in Column : s[c] \in BuiltColumns(c, rows)}
=============================================================================
