------------------------ MODULE IndexSummary_proofs ------------------------
(***************************************************************************)
(* What widening and pruning guarantee for every type, every collation and *)
(* every way a bound may be stored; and what building, widening and        *)
(* fitting a whole summary guarantee, for any number of columns and any    *)
(* size of the page.                                                       *)
(***************************************************************************)
EXTENDS IndexSummary, WellFoundedInduction, TLAPS

(* A column, by ColumnSummary.                                             *)

(***************************************************************************)
(* Comparisons have the range and the order the rank gives them.           *)
(***************************************************************************)
LEMMA CmpInt ==
    ASSUME NEW coll \in Collation, NEW a \in Value, NEW b \in Value
    PROVE  /\ datum_cmp(coll, a, b) \in Int
           /\ Rank[coll][a] \in Int
           /\ datum_cmp(coll, a, b) < 0 <=> Rank[coll][a] < Rank[coll][b]
           /\ datum_cmp(coll, a, b) <= 0 <=> Rank[coll][a] <= Rank[coll][b]
           /\ datum_cmp(coll, a, b) = 0 <=> Rank[coll][a] = Rank[coll][b]
           /\ datum_cmp(coll, a, b) >= 0 <=> Rank[coll][a] >= Rank[coll][b]
           /\ datum_cmp(coll, a, b) > 0 <=> Rank[coll][a] > Rank[coll][b]
<1>1. Rank[coll][a] \in Int /\ Rank[coll][b] \in Int
      BY ColumnAssumption
<1> QED BY <1>1 DEF datum_cmp

(***************************************************************************)
(* Both bounds of a column that has them read back as values.              *)
(***************************************************************************)
LEMMA BoundsRead ==
    ASSUME NEW col \in ColSummary, HasBounds(col)
    PROVE  /\ col.min \in Text /\ col.max \in Text
           /\ TextToDatum[col.min] \in Value /\ TextToDatum[col.max] \in Value
BY ColumnAssumption DEF ColSummary, Bound, HasBounds

(***************************************************************************)
(* A stored value reads back equal to itself under every collation.        *)
(***************************************************************************)
LEMMA TextReadsBack ==
    ASSUME NEW coll \in Collation, NEW v \in Value, DatumToText[v] # None
    PROVE  /\ DatumToText[v] \in Text
           /\ TextToDatum[DatumToText[v]] \in Value
           /\ Rank[coll][TextToDatum[DatumToText[v]]] = Rank[coll][v]
BY ColumnAssumption

(***************************************************************************)
(* Dropping a column's bounds leaves a summary that covers what it covered *)
(* before (make_unbounded).                                                *)
(***************************************************************************)
LEMMA UnboundedKeeps ==
    ASSUME NEW col \in ColSummary
    PROVE  /\ make_unbounded(col) \in ColSummary
           /\ make_unbounded(col).collation = col.collation
           /\ CoversAllOf(make_unbounded(col), col)
BY DEF make_unbounded, ColSummary, Bound, CoversAllOf, Covers

(***************************************************************************)
(* widen_minmax keeps the type, the collation and the flags.               *)
(***************************************************************************)
LEMMA WidenMinmaxTyped ==
    ASSUME NEW col \in ColSummary, NEW coll \in Collation, NEW v \in Value,
           CanFold(col, v)
    PROVE  /\ widen_minmax(col, coll, v) \in ColSummary
           /\ widen_minmax(col, coll, v).collation = col.collation
           /\ widen_minmax(col, coll, v).has_nulls = col.has_nulls
           /\ widen_minmax(col, coll, v).all_nulls = col.all_nulls
           /\ widen_minmax(col, coll, v).unbounded = col.unbounded
           /\ HasBounds(widen_minmax(col, coll, v))
BY ColumnAssumption DEF widen_minmax, CanFold, HasBounds, ColSummary, Bound

(***************************************************************************)
(* The bounds widen_minmax writes enclose the value, and everything the    *)
(* old bounds enclosed.                                                    *)
(***************************************************************************)
LEMMA WidenMinmaxEncloses ==
    ASSUME NEW col \in ColSummary, NEW v \in Value, CanFold(col, v)
    PROVE  /\ Within(widen_minmax(col, col.collation, v), v)
           /\ \A w \in Value :
                  Within(col, w) => Within(widen_minmax(col, col.collation, v), w)
<1> DEFINE wide == widen_minmax(col, col.collation, v)
           coll == col.collation
           lo == Rank[coll][TextToDatum[col.min]]
           hi == Rank[coll][TextToDatum[col.max]]
<1>1. coll \in Collation
      BY DEF ColSummary
<1>2. HasBounds(wide) /\ wide.collation = coll /\ wide \in ColSummary
      BY <1>1, WidenMinmaxTyped
<1>3. ASSUME NEW w \in Value
      PROVE  Within(wide, w) <=>
                 /\ Rank[coll][TextToDatum[wide.min]] <= Rank[coll][w]
                 /\ Rank[coll][w] <= Rank[coll][TextToDatum[wide.max]]
  <2>1. TextToDatum[wide.min] \in Value /\ TextToDatum[wide.max] \in Value
        BY <1>2, BoundsRead
  <2> QED BY <1>1, <1>2, <2>1, CmpInt DEF Within
<1>4. CASE HasBounds(col)
  <2>1. lo \in Int /\ hi \in Int /\ Rank[coll][v] \in Int
        BY <1>1, <1>4, BoundsRead, CmpInt
  <2>2. ASSUME NEW w \in Value
        PROVE  Within(col, w) <=> (lo <= Rank[coll][w] /\ Rank[coll][w] <= hi)
    <3>1. TextToDatum[col.min] \in Value /\ TextToDatum[col.max] \in Value
          BY <1>4, BoundsRead
    <3> QED BY <1>1, <1>4, <3>1, CmpInt DEF Within
  <2>3. /\ wide.min = IF Rank[coll][v] < lo THEN DatumToText[v] ELSE col.min
        /\ wide.max = IF Rank[coll][v] > hi THEN DatumToText[v] ELSE col.max
        BY <1>1, <1>4, <2>1, BoundsRead, CmpInt DEF widen_minmax, ColSummary
  <2>4. /\ Rank[coll][TextToDatum[wide.min]] = IF Rank[coll][v] < lo THEN Rank[coll][v] ELSE lo
        /\ Rank[coll][TextToDatum[wide.max]] = IF Rank[coll][v] > hi THEN Rank[coll][v] ELSE hi
        BY <1>1, <2>3, TextReadsBack DEF CanFold
  <2>5. \A w \in Value : Rank[coll][w] \in Int
        BY <1>1, CmpInt
  <2> QED BY <1>3, <2>1, <2>2, <2>4, <2>5
<1>5. CASE ~HasBounds(col)
  <2>1. wide.min = DatumToText[v] /\ wide.max = DatumToText[v]
        BY <1>5 DEF widen_minmax, ColSummary
  <2>2. /\ Rank[coll][TextToDatum[wide.min]] = Rank[coll][v]
        /\ Rank[coll][TextToDatum[wide.max]] = Rank[coll][v]
        /\ Rank[coll][v] \in Int
        BY <1>1, <2>1, TextReadsBack, CmpInt DEF CanFold
  <2>3. \A w \in Value : ~Within(col, w)
        BY <1>5 DEF Within
  <2> QED BY <1>3, <2>2, <2>3
<1> QED BY <1>4, <1>5

(***************************************************************************)
(* widen_column stays a column summary under the same collation.           *)
(***************************************************************************)
THEOREM WidenColumnTyped ==
    ASSUME NEW col \in ColSummary, NEW coll \in Collation, NEW d \in Datum
    PROVE  /\ widen_column(col, coll, d) \in ColSummary
           /\ widen_column(col, coll, d).collation = col.collation
<1> DEFINE seen == [col EXCEPT !.all_nulls = FALSE]
<1>1. seen \in ColSummary /\ seen.collation = col.collation
      BY DEF ColSummary
<1>2. CASE d = Null \/ col.unbounded
      BY <1>1, <1>2 DEF widen_column, ColSummary
<1>3. CASE d # Null /\ ~col.unbounded /\ CanFold(col, d)
  <2>1. CanFold(seen, d) /\ d \in Value
        BY <1>3 DEF CanFold, ColSummary, Datum
  <2> QED BY <1>1, <1>3, <2>1, WidenMinmaxTyped DEF widen_column
<1>4. CASE d # Null /\ ~col.unbounded /\ ~CanFold(col, d)
      BY <1>1, <1>4, UnboundedKeeps DEF widen_column
<1> QED BY <1>2, <1>3, <1>4

(***************************************************************************)
(* "An insert the summary does not cover must not succeed" (am_insert):    *)
(* after widening, the column covers the value that was inserted.          *)
(***************************************************************************)
THEOREM WidenColumnCovers ==
    ASSUME NEW col \in ColSummary, NEW d \in Datum
    PROVE  Covers(widen_column(col, col.collation, d), d)
<1> DEFINE seen == [col EXCEPT !.all_nulls = FALSE]
<1>1. seen \in ColSummary /\ seen.collation = col.collation /\ col.collation \in Collation
      BY DEF ColSummary
<1>2. CASE d = Null
      BY <1>2 DEF widen_column, Covers, ColSummary
<1>3. CASE d # Null /\ col.unbounded
      BY <1>3 DEF widen_column, Covers, ColSummary
<1>4. CASE d # Null /\ ~col.unbounded /\ CanFold(col, d)
  <2>1. CanFold(seen, d) /\ d \in Value /\ ~seen.all_nulls
        BY <1>4 DEF CanFold, ColSummary, Datum
  <2> DEFINE wide == widen_minmax(seen, seen.collation, d)
  <2>2. wide.all_nulls = seen.all_nulls /\ Within(wide, d)
    <3> HIDE DEF seen
    <3> QED BY <1>1, <2>1, WidenMinmaxTyped, WidenMinmaxEncloses
  <2>3. widen_column(col, col.collation, d) = wide
        BY <1>1, <1>4 DEF widen_column, CanFold
  <2>4. Covers(wide, d)
        BY <1>4, <2>1, <2>2 DEF Covers
  <2> QED BY <2>3, <2>4
<1>5. CASE d # Null /\ ~col.unbounded /\ ~CanFold(col, d)
      BY <1>5 DEF widen_column, make_unbounded, Covers, ColSummary
<1> QED BY <1>2, <1>3, <1>4, <1>5

(***************************************************************************)
(* Widening never narrows: what was covered before stays covered, so a     *)
(* rolled-back insert leaves a summary that is too wide at worst.          *)
(***************************************************************************)
THEOREM WidenColumnKeeps ==
    ASSUME NEW col \in ColSummary, NEW d \in Datum
    PROVE  CoversAllOf(widen_column(col, col.collation, d), col)
<1> SUFFICES ASSUME NEW e \in Datum, Covers(col, e)
             PROVE  Covers(widen_column(col, col.collation, d), e)
    BY DEF CoversAllOf
<1> DEFINE seen == [col EXCEPT !.all_nulls = FALSE]
<1>1. seen \in ColSummary /\ seen.collation = col.collation /\ col.collation \in Collation
      BY DEF ColSummary
<1>2. Covers(seen, e)
      BY DEF Covers, Within, HasBounds, ColSummary
<1>3. CASE d = Null
      BY <1>3 DEF widen_column, Covers, Within, HasBounds, ColSummary
<1>4. CASE d # Null /\ col.unbounded
      BY <1>2, <1>4 DEF widen_column
<1>5. CASE d # Null /\ ~col.unbounded /\ CanFold(col, d)
  <2>1. CanFold(seen, d) /\ d \in Value /\ ~seen.all_nulls /\ ~seen.unbounded
        BY <1>5 DEF CanFold, ColSummary, Datum
  <2> DEFINE wide == widen_minmax(seen, seen.collation, d)
  <2>2. widen_column(col, col.collation, d) = wide
        BY <1>1, <1>5 DEF widen_column
  <2>3. /\ wide.has_nulls = seen.has_nulls
        /\ wide.all_nulls = seen.all_nulls
        /\ wide.unbounded = seen.unbounded
    <3> HIDE DEF seen
    <3> QED BY <1>1, <2>1, WidenMinmaxTyped
  <2>4. \A v \in Value : Within(seen, v) => Within(wide, v)
        BY <1>1, <2>1, WidenMinmaxEncloses
  <2>5. Covers(wide, e)
    <3> HIDE DEF seen, wide
    <3>1. CASE e = Null
          BY <1>2, <2>3, <3>1 DEF Covers
    <3>2. CASE e # Null
          BY <1>2, <2>1, <2>3, <2>4, <3>2 DEF Covers, Datum
    <3> QED BY <3>1, <3>2
  <2> QED BY <2>2, <2>5
<1>6. CASE d # Null /\ ~col.unbounded /\ ~CanFold(col, d)
      BY <1>1, <1>2, <1>6, UnboundedKeeps DEF widen_column, CoversAllOf
<1> QED BY <1>3, <1>4, <1>5, <1>6

(***************************************************************************)
(* Pruning is sound: when a summary proves that a clause matches nothing   *)
(* (QualSpec::proves_prune), no value the summary covers matches it.       *)
(***************************************************************************)
THEOREM PruneSound ==
    ASSUME NEW col \in ColSummary, NEW clause \in Clause, NEW d \in Datum,
           proves_prune(clause, col), Covers(col, d)
    PROVE  ~Matches(clause, d)
<1>1. CASE clause.kind = "null"
      BY <1>1 DEF Clause, QualSpec, Matches, Covers, proves_prune, ColSummary, Datum
<1>2. CASE d = Null /\ clause.kind # "null"
      BY <1>2 DEF Matches
<1>3. CASE d # Null /\ clause.kind # "null"
  <2> DEFINE coll == col.collation
             lo == Rank[coll][TextToDatum[col.min]]
             hi == Rank[coll][TextToDatum[col.max]]
  <2>1. HasBounds(col) /\ ~col.unbounded /\ clause.order = coll
        BY <1>3 DEF Clause, proves_prune, eval_compare, eval_in_list, parsed_bounds
  <2>2. d \in Value /\ coll \in Collation /\ Within(col, d)
        BY <1>3, <2>1 DEF Datum, ColSummary, Covers
  <2>3. /\ lo \in Int /\ hi \in Int /\ Rank[coll][d] \in Int
        /\ lo <= Rank[coll][d] /\ Rank[coll][d] <= hi
    <3>1. TextToDatum[col.min] \in Value /\ TextToDatum[col.max] \in Value
          BY <2>1, BoundsRead
    <3> QED BY <2>2, <3>1, CmpInt DEF Within
  <2>4. CASE clause.kind = "compare"
    <3>1. clause.k \in Value /\ clause.strategy \in 1 .. 5
          BY <2>4 DEF Clause, QualSpec, Strategies
    <3>2. Rank[coll][clause.k] \in Int
          BY <2>2, <3>1, CmpInt
    <3>3. TextToDatum[col.min] \in Value /\ TextToDatum[col.max] \in Value
          BY <2>1, BoundsRead
    <3>4. eval_compare(col, clause.strategy, coll, clause.k)
          BY <2>1, <2>4 DEF proves_prune
    <3>5. ~Holds(clause.strategy, datum_cmp(coll, d, clause.k))
      <4> DEFINE k == Rank[coll][clause.k]
                 x == Rank[coll][d]
      <4>1. \/ clause.strategy = 1 /\ lo >= k
            \/ clause.strategy = 2 /\ lo > k
            \/ clause.strategy = 3 /\ (lo > k \/ hi < k)
            \/ clause.strategy = 4 /\ hi < k
            \/ clause.strategy = 5 /\ hi <= k
            BY <2>2, <3>1, <3>3, <3>4, CmpInt DEF eval_compare
      <4>2. Holds(clause.strategy, datum_cmp(coll, d, clause.k)) =>
                \/ clause.strategy = 1 /\ x < k
                \/ clause.strategy = 2 /\ x <= k
                \/ clause.strategy = 3 /\ x = k
                \/ clause.strategy = 4 /\ x >= k
                \/ clause.strategy = 5 /\ x > k
            BY <2>2, <3>1, CmpInt DEF Holds
      <4>3. lo \in Int /\ hi \in Int /\ x \in Int /\ k \in Int /\ lo <= x /\ x <= hi
            BY <2>3, <3>2
      <4> HIDE DEF lo, hi, x, k
      <4> QED BY <4>1, <4>2, <4>3
    <3> QED BY <2>1, <2>4, <3>5 DEF Matches
  <2>5. CASE clause.kind = "in_list"
    <3>1. clause.elems \subseteq Value
          BY <2>5 DEF Clause, QualSpec
    <3>2. eval_in_list(col, coll, clause.elems)
          BY <2>1, <2>5 DEF proves_prune
    <3>3. ASSUME NEW e \in clause.elems PROVE datum_cmp(coll, d, e) # 0
      <4>1. /\ TextToDatum[col.min] \in Value /\ TextToDatum[col.max] \in Value
            /\ e \in Value /\ Rank[coll][e] \in Int
            /\ datum_cmp(coll, d, e) = 0 <=> Rank[coll][d] = Rank[coll][e]
            BY <2>1, <2>2, <3>1, BoundsRead, CmpInt
      <4>2. ~(lo <= Rank[coll][e] /\ hi >= Rank[coll][e])
            BY <2>2, <3>2, <4>1, CmpInt DEF eval_in_list
      <4> QED BY <2>3, <4>1, <4>2
    <3> QED BY <2>1, <2>5, <3>3 DEF Matches
  <2> QED BY <1>3, <2>4, <2>5 DEF Clause, QualSpec
<1> QED BY <1>1, <1>2, <1>3

-----------------------------------------------------------------------------
(* A whole summary.                                                        *)

(***************************************************************************)
(* The index has a collation for every column.                             *)
(***************************************************************************)
LEMMA SummaryColumn ==
    ASSUME NEW s \in Summary, NEW c \in Column
    PROVE  /\ s[c] \in ColSummary
           /\ s[c].collation = IndexCollation[c]
           /\ IndexCollation[c] \in Collation
BY IndexAssumption DEF Summary

(***************************************************************************)
(* A wider summary covers every row the narrower one covers.               *)
(***************************************************************************)
LEMMA WiderCoversRow ==
    ASSUME NEW wide, NEW narrow, NEW row \in Row,
           WiderThan(wide, narrow), CoversRow(narrow, row)
    PROVE  CoversRow(wide, row)
BY DEF WiderThan, CoversAllOf, CoversRow, Row

(***************************************************************************)
(* Nothing is lost along two widenings, or along none.                     *)
(***************************************************************************)
LEMMA WiderOrder ==
    /\ \A s : WiderThan(s, s)
    /\ \A s, t, u : WiderThan(u, t) /\ WiderThan(t, s) => WiderThan(u, s)
BY DEF WiderThan, CoversAllOf

(***************************************************************************)
(* "Less selective, never too narrow" (encode_fitting): whichever columns  *)
(* lose their bounds, what was covered stays covered.                      *)
(***************************************************************************)
THEOREM EncodeFittingKeeps ==
    ASSUME NEW s \in Summary
    PROVE  encode_fitting(s) \in Summary /\ WiderThan(encode_fitting(s), s)
<1> SUFFICES ASSUME NEW drop
             PROVE  Dropped(s, drop) \in Summary /\ WiderThan(Dropped(s, drop), s)
    BY DEF encode_fitting
<1>1. ASSUME NEW c \in Column
      PROVE  /\ Dropped(s, drop)[c] \in ColSummary
             /\ Dropped(s, drop)[c].collation = IndexCollation[c]
             /\ CoversAllOf(Dropped(s, drop)[c], s[c])
      BY SummaryColumn, UnboundedKeeps DEF Dropped, CoversAllOf
<1>2. Dropped(s, drop) = [c \in Column |-> Dropped(s, drop)[c]]
      BY DEF Dropped
<1> QED BY <1>1, <1>2 DEF Summary, WiderThan

(***************************************************************************)
(* Folding a row in gives a summary that covers the row and everything it  *)
(* covered before.                                                         *)
(***************************************************************************)
LEMMA WidenSummary ==
    ASSUME NEW s \in Summary, NEW row \in Row
    PROVE  /\ widen_summary(s, row) \in Summary
           /\ WiderThan(widen_summary(s, row), s)
           /\ CoversRow(widen_summary(s, row), row)
<1>1. ASSUME NEW c \in Column
      PROVE  /\ widen_summary(s, row)[c] \in ColSummary
             /\ widen_summary(s, row)[c].collation = IndexCollation[c]
             /\ CoversAllOf(widen_summary(s, row)[c], s[c])
             /\ Covers(widen_summary(s, row)[c], row[c])
  <2>1. row[c] \in Datum
        BY DEF Row
  <2>2. widen_summary(s, row)[c] = widen_column(s[c], s[c].collation, row[c])
        BY SummaryColumn DEF widen_summary
  <2> QED BY <2>1, <2>2, SummaryColumn, WidenColumnTyped, WidenColumnKeeps, WidenColumnCovers
<1>2. widen_summary(s, row) = [c \in Column |-> widen_summary(s, row)[c]]
      BY DEF widen_summary
<1> QED BY <1>1, <1>2 DEF Summary, WiderThan, CoversRow

(***************************************************************************)
(* The blob widen_on_insert stores covers the inserted row and everything  *)
(* the blob it read covered.                                               *)
(***************************************************************************)
THEOREM WidenedCovers ==
    ASSUME NEW s \in Summary, NEW row \in Row
    PROVE  /\ Widened(s, row) \in Summary
           /\ WiderThan(Widened(s, row), s)
           /\ CoversRow(Widened(s, row), row)
<1> DEFINE wide == widen_summary(s, row)
<1>1. wide \in Summary /\ WiderThan(wide, s) /\ CoversRow(wide, row)
      BY WidenSummary
<1>2. encode_fitting(wide) \in Summary /\ WiderThan(encode_fitting(wide), wide)
      BY <1>1, EncodeFittingKeeps
<1> HIDE DEF wide
<1>3. WiderThan(encode_fitting(wide), s) /\ CoversRow(encode_fitting(wide), row)
      BY <1>1, <1>2, WiderOrder, WiderCoversRow
<1> QED BY <1>2, <1>3 DEF Widened, wide

(***************************************************************************)
(* An insert that returns without writing was covered already.             *)
(***************************************************************************)
LEMMA UnchangedCovers ==
    ASSUME NEW s \in Summary, NEW row \in Row, widen_summary(s, row) = s
    PROVE  CoversRow(s, row)
BY WidenSummary

(***************************************************************************)
(* A built column covers every row the scan returned.                      *)
(***************************************************************************)
LEMMA BuiltColumnCovers ==
    ASSUME NEW c \in Column, NEW rows \in SUBSET Row, NEW col \in BuiltColumns(c, rows)
    PROVE  /\ col \in ColSummary
           /\ col.collation = IndexCollation[c]
           /\ \A row \in rows : Covers(col, row[c])
<1> DEFINE values == ValuesOf(c, rows)
           flags == BuiltFlags(c, rows)
           coll == IndexCollation[c]
<1>1. /\ flags \in ColSummary /\ flags.collation = coll /\ ~flags.unbounded
      /\ coll \in Collation
      /\ flags.has_nulls <=> \E row \in rows : row[c] = Null
      /\ flags.all_nulls <=> (values = {} /\ rows # {})
      BY IndexAssumption DEF BuiltFlags, ColSummary, Bound
<1>2. /\ values \subseteq Value
      /\ \A row \in rows : row[c] # Null => row[c] \in values
      BY DEF ValuesOf, Row, Datum
<1> HIDE DEF flags, values
<1>3. ASSUME NEW row \in rows
      PROVE  Covers(make_unbounded(flags), row[c])
      BY <1>1, <1>2 DEF Covers, make_unbounded, ColSummary
<1>4. make_unbounded(flags) \in ColSummary /\ make_unbounded(flags).collation = coll
      BY <1>1, UnboundedKeeps
<1>5. CASE c \notin Supported
      BY <1>3, <1>4, <1>5 DEF BuiltColumns, flags
<1>6. CASE c \in Supported /\ values = {}
  <2>1. col = flags
        BY <1>6 DEF BuiltColumns, flags, values
  <2> QED BY <1>1, <1>2, <1>6, <2>1 DEF Covers
<1>7. CASE c \in Supported /\ values # {}
  <2>1. PICK lo \in Least(c, values), hi \in Greatest(c, values) :
                 col = WithBounds(flags, lo, hi)
        BY <1>7 DEF BuiltColumns, flags, values
  <2>2. lo \in Value /\ hi \in Value
        BY <1>2 DEF Least, Greatest
  <2>3. CASE DatumToText[lo] = None \/ DatumToText[hi] = None
        BY <1>3, <1>4, <2>1, <2>3 DEF WithBounds
  <2>4. CASE DatumToText[lo] # None /\ DatumToText[hi] # None
    <3>1. col = [flags EXCEPT !.min = DatumToText[lo], !.max = DatumToText[hi]]
          BY <2>1, <2>4 DEF WithBounds
    <3>2. DatumToText[lo] \in Text /\ DatumToText[hi] \in Text /\ None \notin Text
          BY <2>2, <2>4, ColumnAssumption
    <3>3. /\ col \in ColSummary /\ col.collation = coll
          /\ col.has_nulls = flags.has_nulls /\ col.all_nulls = flags.all_nulls
          /\ col.min = DatumToText[lo] /\ col.max = DatumToText[hi] /\ HasBounds(col)
          BY <1>1, <3>1, <3>2 DEF ColSummary, Bound, HasBounds
    <3>4. ASSUME NEW v \in values PROVE Within(col, v)
      <4>1. datum_cmp(coll, lo, v) <= 0 /\ datum_cmp(coll, hi, v) >= 0
            BY DEF Least, Greatest
      <4>2. v \in Value
            BY <1>2
      <4>3. Rank[coll][lo] <= Rank[coll][v] /\ Rank[coll][hi] >= Rank[coll][v]
            BY <1>1, <2>2, <4>1, <4>2, CmpInt
      <4>4. /\ TextToDatum[col.min] \in Value /\ TextToDatum[col.max] \in Value
            /\ Rank[coll][TextToDatum[col.min]] = Rank[coll][lo]
            /\ Rank[coll][TextToDatum[col.max]] = Rank[coll][hi]
            BY <1>1, <2>2, <2>4, <3>3, TextReadsBack
      <4>5. Rank[coll][hi] \in Int /\ Rank[coll][v] \in Int
            BY <1>1, <2>2, <4>2, CmpInt
      <4>6. /\ datum_cmp(coll, TextToDatum[col.min], v) <= 0
            /\ datum_cmp(coll, v, TextToDatum[col.max]) <= 0
            BY <1>1, <4>2, <4>3, <4>4, <4>5, CmpInt
      <4> QED BY <3>3, <4>6 DEF Within
    <3>5. ASSUME NEW row \in rows PROVE Covers(col, row[c])
      <4>1. CASE row[c] = Null
            BY <1>1, <3>3, <4>1 DEF Covers
      <4>2. CASE row[c] # Null
            BY <1>1, <1>2, <1>7, <3>3, <3>4, <4>2 DEF Covers
      <4> QED BY <4>1, <4>2
    <3> QED BY <3>3, <3>5
  <2> QED BY <2>3, <2>4
<1> QED BY <1>5, <1>6, <1>7

(***************************************************************************)
(* What am_build stores covers every row the scan returned.                *)
(***************************************************************************)
THEOREM BuildCovers ==
    ASSUME NEW rows \in SUBSET Row, NEW s \in build_leaf_summary(rows)
    PROVE  /\ encode_fitting(s) \in Summary
           /\ \A row \in rows : CoversRow(encode_fitting(s), row)
<1>1. /\ s = [c \in Column |-> s[c]]
      /\ \A c \in Column : s[c] \in BuiltColumns(c, rows)
      BY DEF build_leaf_summary
<1>2. s \in Summary /\ \A row \in rows : CoversRow(s, row)
      BY <1>1, BuiltColumnCovers DEF Summary, CoversRow
<1> QED BY <1>2, EncodeFittingKeeps, WiderCoversRow

-----------------------------------------------------------------------------
(* Least numbers, and going up from zero: for what is defined recursively. *)

LEMMA HasLeast ==
    ASSUME NEW S \in SUBSET Nat, S # {}
    PROVE  \E t \in S : \A u \in S : t <= u
<1>1. PICK t \in S : \A u \in S : <<u, t>> \notin OpToRel(<, Nat)
      BY NatLessThanWellFounded, WFMin
<1>2. \A u \in S : ~(u < t)
      BY <1>1 DEF OpToRel
<1> QED BY <1>2

\* What holds at 0 and goes on from each number to the next holds up to n.
LEMMA CountUp ==
    ASSUME NEW n \in Nat, NEW Q, 0 \in Q, \A k \in 0 .. n : k # n /\ k \in Q => k + 1 \in Q
    PROVE  0 .. n \subseteq Q
<1> DEFINE missing == {k \in 0 .. n : k \notin Q}
<1> SUFFICES ASSUME missing # {} PROVE FALSE
    OBVIOUS
<1>1. missing \in SUBSET Nat
      OBVIOUS
<1>2. PICK k \in missing : \A m \in missing : k <= m
  <2> HIDE DEF missing
  <2> QED BY <1>1, HasLeast
<1>3. k \in 0 .. n /\ k \notin Q /\ k # 0
      OBVIOUS
<1>4. k - 1 \in 0 .. n /\ k - 1 # n /\ k - 1 \notin missing
      BY <1>2, <1>3
<1>5. k - 1 \in Q
      BY <1>4
<1>6. (k - 1) + 1 \in Q
      BY <1>4, <1>5
<1> QED BY <1>3, <1>6
=============================================================================
