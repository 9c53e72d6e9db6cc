--------------------------- MODULE LeafBuild_proofs ---------------------------
(***************************************************************************)
(* One partition's summary, for any rows, collations and types and any     *)
(* size of the page: a build stores exactly what the set of rows calls     *)
(* for, and neither it nor an insert makes the summary too narrow, or      *)
(* wider than it has to be.  The second half is about the bytes of the     *)
(* metapage (BlobFormat): what was stored is what is read.                 *)
(***************************************************************************)
EXTENDS BlobFormat, IndexSummary_proofs,
        FiniteSetTheorems, SequenceTheorems

\* The accumulator of a column, while the build scans.
Accumulates(c) ==
    LET values == ValuesOf(c, rows)
    IN  /\ acc[c].nulls > 0 <=> \E row \in rows : row[c] = Null
        /\ acc[c].nonnull > 0 <=> values # {}
        /\ (c \notin Supported \/ values = {}) => acc[c].min = None /\ acc[c].max = None
        /\ (c \in Supported /\ values # {}) =>
               acc[c].min \in Least(c, values) /\ acc[c].max \in Greatest(c, values)

\* A column has both bounds or neither; it has lost them to a value, and what
\* it has a value attains.
Selective(c, col, values) ==
    /\ col.min = None <=> col.max = None
    /\ col.unbounded => \E v \in values : DatumToText[v] = None
    /\ HasBounds(col) =>
           \A bound \in {col.min, col.max} :
               \E v \in values : datum_cmp(IndexCollation[c], v, TextToDatum[bound]) = 0

IInv ==
    /\ TypeOK
    /\ page = None => \A c \in Column : Accumulates(c)
    /\ CoversRows
    /\ Written => \A c \in Supported \ shed : Selective(c, page[c], ValuesOf(c, rows))

-----------------------------------------------------------------------------
(* The build.                                                              *)

LEMMA InitIInv == Init => IInv
<1> SUFFICES ASSUME Init PROVE IInv
    OBVIOUS
<1>1. /\ rows = {} /\ acc = plan_columns /\ page = None /\ shed = {} /\ page \notin Summary
      BY BuildAssumption DEF Init
<1>2. TypeOK
      BY <1>1 DEF TypeOK, plan_columns, Accumulated
<1>3. \A c \in Column : Accumulates(c)
  <2>1. \A c \in Column : ValuesOf(c, rows) = {}
        BY <1>1 DEF ValuesOf
  <2> QED BY <1>1, <2>1 DEF Accumulates, plan_columns
<1> QED BY <1>1, <1>2, <1>3 DEF IInv, CoversRows, Written

(***************************************************************************)
(* The values of a column, with one more row.                              *)
(***************************************************************************)
LEMMA OneMoreValue ==
    ASSUME NEW c \in Column, NEW seen \in SUBSET Row, NEW row \in Row
    PROVE  /\ ValuesOf(c, seen) \in SUBSET Value
           /\ row[c] = Null => ValuesOf(c, seen \cup {row}) = ValuesOf(c, seen)
           /\ row[c] # Null => /\ row[c] \in Value
                               /\ ValuesOf(c, seen \cup {row}) = ValuesOf(c, seen) \cup {row[c]}
<1>1. \A r \in Row : r[c] \in Value \cup {Null}
      BY DEF Row, Datum
<1> QED BY <1>1 DEF ValuesOf

(***************************************************************************)
(* The accumulator keeps a least and a greatest value; of values that      *)
(* compare equal it keeps the first.                                       *)
(***************************************************************************)
LEMMA AddAccumulates ==
    ASSUME TypeOK, NEW c \in Column, Accumulates(c), NEW row \in Input,
           rows' = rows \cup {row}, acc'[c] = add(c, row[c])
    PROVE  acc'[c] \in Accumulated /\ Accumulates(c)'
<1> DEFINE a == acc[c]
           d == row[c]
           coll == IndexCollation[c]
           values == ValuesOf(c, rows)
           more == ValuesOf(c, rows \cup {row})
<1>1. /\ a \in Accumulated /\ coll \in Collation /\ rows \subseteq Row /\ row \in Row
      BY BuildAssumption, IndexAssumption DEF TypeOK
<1>2. /\ values \in SUBSET Value
      /\ d = Null => more = values
      /\ d # Null => d \in Value /\ more = values \cup {d}
      BY <1>1, OneMoreValue
<1>3. ValuesOf(c, rows)' = more
      BY DEF ValuesOf
<1>4. /\ a.min \in Value \cup {None} /\ a.max \in Value \cup {None}
      /\ a.nonnull \in Nat /\ a.nulls \in Nat
      BY <1>1 DEF Accumulated
<1>5. /\ a.nulls > 0 <=> \E r \in rows : r[c] = Null
      /\ a.nonnull > 0 <=> values # {}
      /\ (c \notin Supported \/ values = {}) => a.min = None /\ a.max = None
      /\ (c \in Supported /\ values # {}) => a.min \in Least(c, values) /\ a.max \in Greatest(c, values)
      BY DEF Accumulates
<1>6. CASE d = Null
  <2>1. acc'[c] = [a EXCEPT !.nulls = @ + 1]
        BY <1>6 DEF add
  <2>2. /\ acc'[c] \in Accumulated /\ acc'[c].min = a.min /\ acc'[c].max = a.max
        /\ acc'[c].nonnull = a.nonnull /\ acc'[c].nulls > 0
        BY <1>1, <1>4, <2>1 DEF Accumulated
  <2>3. \E r \in rows' : r[c] = Null
        BY <1>6
  <2> HIDE DEF a, values, more
  <2> QED BY <1>2, <1>3, <1>5, <1>6, <2>2, <2>3 DEF Accumulates
<1>7. CASE d # Null
  <2>1. /\ (\E r \in rows' : r[c] = Null) <=> (\E r \in rows : r[c] = Null)
        /\ more # {} /\ d \in more
        BY <1>2, <1>7
  <2>2. CASE c \notin Supported
    <3>1. acc'[c] = [a EXCEPT !.nonnull = @ + 1]
          BY <1>7, <2>2 DEF add
    <3>2. /\ acc'[c] \in Accumulated /\ acc'[c].min = a.min /\ acc'[c].max = a.max
          /\ acc'[c].nonnull > 0 /\ acc'[c].nulls = a.nulls
          BY <1>1, <1>4, <3>1 DEF Accumulated
    <3> HIDE DEF a, values, more
    <3> QED BY <1>3, <1>5, <2>1, <2>2, <3>2 DEF Accumulates
  <2>3. CASE c \in Supported
    <3> DEFINE lo == IF a.min = None \/ datum_cmp(coll, d, a.min) < 0 THEN d ELSE a.min
               hi == IF a.min = None \/ datum_cmp(coll, d, a.max) > 0 THEN d ELSE a.max
    <3>1. acc'[c] = [a EXCEPT !.nonnull = a.nonnull + 1, !.min = lo, !.max = hi]
          BY <1>7, <2>3 DEF add
    <3>2. lo \in Value \cup {None} /\ hi \in Value \cup {None}
          BY <1>2, <1>4, <1>7
    <3>3. lo \in Least(c, more) /\ hi \in Greatest(c, more)
      <4>1. CASE values = {}
        <5>1. a.min = None /\ lo = d /\ hi = d /\ more = {d} /\ d \in Value
              BY <1>2, <1>5, <1>7, <4>1
        <5>2. datum_cmp(coll, d, d) = 0
              BY <1>1, <5>1, CmpInt
        <5> HIDE DEF lo, hi, more, d, coll
        <5>3. Least(c, {d}) = {d} /\ Greatest(c, {d}) = {d}
              BY <5>2 DEF Least, Greatest, coll
        <5> QED BY <5>1, <5>3
      <4>2. CASE values # {}
        <5>1. /\ a.min \in values /\ a.max \in values /\ a.min # None
              /\ \A w \in values : datum_cmp(coll, a.min, w) <= 0 /\ datum_cmp(coll, a.max, w) >= 0
              BY <1>2, <1>5, <2>3, <4>2, ColumnAssumption DEF Least, Greatest
        <5>2. a.min \in Value /\ a.max \in Value /\ d \in Value /\ more = values \cup {d}
              BY <1>2, <1>7, <5>1
        <5>3. \A w \in values : Rank[coll][a.min] <= Rank[coll][w] /\ Rank[coll][a.max] >= Rank[coll][w]
              BY <1>1, <1>2, <5>1, <5>2, CmpInt
        <5>4. /\ lo = IF Rank[coll][d] < Rank[coll][a.min] THEN d ELSE a.min
              /\ hi = IF Rank[coll][d] > Rank[coll][a.max] THEN d ELSE a.max
              BY <1>1, <5>1, <5>2, CmpInt
        <5>5. \A w \in more : Rank[coll][w] \in Int /\ w \in Value
              BY <1>1, <1>2, <5>2, CmpInt
        <5>6. lo \in more /\ hi \in more
              BY <5>1, <5>2
        <5> HIDE DEF lo, hi, values, more
        <5>7. \A w \in more : Rank[coll][lo] <= Rank[coll][w] /\ Rank[coll][hi] >= Rank[coll][w]
              BY <5>1, <5>2, <5>3, <5>4, <5>5
        <5>8. \A w \in more : datum_cmp(coll, lo, w) <= 0 /\ datum_cmp(coll, hi, w) >= 0
              BY <1>1, <5>5, <5>6, <5>7, CmpInt
        <5> QED BY <5>6, <5>8 DEF Least, Greatest
      <4> QED BY <4>1, <4>2
    <3> HIDE DEF a, lo, hi, values, more
    <3>4. /\ acc'[c] \in Accumulated /\ acc'[c].min = lo /\ acc'[c].max = hi
          /\ acc'[c].nonnull > 0 /\ acc'[c].nulls = a.nulls
      <4>1. a.nonnull + 1 \in Nat /\ a.nonnull + 1 > 0
            BY <1>4
      <4> QED BY <1>1, <3>1, <3>2, <4>1 DEF Accumulated
    <3> QED BY <1>3, <1>5, <2>1, <2>3, <3>3, <3>4 DEF Accumulates
  <2> QED BY <2>2, <2>3
<1> QED BY <1>6, <1>7

LEMMA ScanIInv ==
    ASSUME IInv, NEW row \in Input, build_callback(row)
    PROVE  IInv'
<1>1. /\ page = None /\ rows' = rows \cup {row} /\ page' = page /\ shed' = shed
      /\ acc' = [c \in Column |-> add(c, row[c])] /\ page' \notin Summary
      BY BuildAssumption DEF build_callback
<1>2. \A c \in Column : acc'[c] \in Accumulated /\ Accumulates(c)'
      BY <1>1, AddAccumulates DEF IInv
<1>3. TypeOK'
  <2>1. acc' \in [Column -> Accumulated]
        BY <1>1, <1>2
  <2> QED BY <1>1, <2>1 DEF IInv, TypeOK
<1> QED BY <1>1, <1>2, <1>3 DEF IInv, CoversRows, Written

\* A column summary is what its fields are.
LEMMA SameColumn ==
    ASSUME NEW x \in ColSummary, NEW y \in ColSummary,
           x.collation = y.collation, x.min = y.min, x.max = y.max,
           x.has_nulls = y.has_nulls, x.all_nulls = y.all_nulls, x.unbounded = y.unbounded
    PROVE  x = y
BY DEF ColSummary

(***************************************************************************)
(* What the accumulators of a column give is what a build over the rows is *)
(* specified to give: they met one of the least and of the greatest values *)
(* first.                                                                  *)
(***************************************************************************)
LEMMA FinishIsBuilt ==
    ASSUME TypeOK, NEW c \in Column, Accumulates(c)
    PROVE  FinishColumn(c) \in BuiltColumns(c, rows)
<1> DEFINE a == acc[c]
           values == ValuesOf(c, rows)
           flags == BuiltFlags(c, rows)
           coll == IndexCollation[c]
           lo == text(a.min)
           hi == text(a.max)
           out == [collation |-> coll, min |-> lo, max |-> hi, has_nulls |-> a.nulls > 0,
                   all_nulls |-> a.nonnull = 0 /\ a.nulls > 0, unbounded |-> c \notin Supported]
<1>1. /\ a.nulls \in Nat /\ a.nonnull \in Nat /\ rows \subseteq Row /\ coll \in Collation
      /\ a.min \in Value \cup {None} /\ a.max \in Value \cup {None}
      /\ a.nulls > 0 <=> \E row \in rows : row[c] = Null
      /\ a.nonnull > 0 <=> values # {}
      /\ (c \notin Supported \/ values = {}) => a.min = None /\ a.max = None
      /\ (c \in Supported /\ values # {}) => a.min \in Least(c, values) /\ a.max \in Greatest(c, values)
      BY BuildAssumption, IndexAssumption DEF TypeOK, Accumulated, Accumulates
<1>2. /\ flags \in ColSummary /\ flags.collation = coll /\ ~flags.unbounded
      /\ flags.min = None /\ flags.max = None
      /\ flags.has_nulls <=> \E row \in rows : row[c] = Null
      /\ flags.all_nulls <=> (values = {} /\ rows # {})
      BY <1>1 DEF BuiltFlags, ColSummary, Bound
<1>3. lo \in Bound /\ hi \in Bound
      BY <1>1, ColumnAssumption DEF text, Bound
<1>4. FinishColumn(c) = IF out.unbounded \/ (a.nonnull > 0 /\ (lo = None \/ hi = None))
                        THEN make_unbounded(out) ELSE out
      BY DEF FinishColumn
<1>5. /\ out \in ColSummary /\ out.collation = coll /\ out.min = lo /\ out.max = hi
      /\ out.has_nulls <=> a.nulls > 0
      /\ out.all_nulls <=> (a.nonnull = 0 /\ a.nulls > 0)
      /\ out.unbounded <=> c \notin Supported
  <2> DEFINE nullsSeen == a.nulls > 0
             onlyNulls == a.nonnull = 0 /\ a.nulls > 0
             noOrder == c \notin Supported
  <2>1. nullsSeen \in BOOLEAN /\ onlyNulls \in BOOLEAN /\ noOrder \in BOOLEAN
        OBVIOUS
  <2>2. out = [collation |-> coll, min |-> lo, max |-> hi, has_nulls |-> nullsSeen,
               all_nulls |-> onlyNulls, unbounded |-> noOrder]
        OBVIOUS
  <2>3. coll \in Collation
        BY <1>1
  <2> HIDE DEF out, lo, hi, coll, nullsSeen, onlyNulls, noOrder
  <2>4. /\ out \in ColSummary /\ out.collation = coll /\ out.min = lo /\ out.max = hi
        /\ out.has_nulls = nullsSeen /\ out.all_nulls = onlyNulls /\ out.unbounded = noOrder
        BY <1>3, <2>1, <2>2, <2>3 DEF ColSummary
  <2> QED BY <2>4 DEF nullsSeen, onlyNulls, noOrder
<1>6. values = {} => \A row \in rows : row[c] = Null
      BY DEF ValuesOf
<1> HIDE DEF a, values, flags, coll, lo, hi, out
<1>7. out.has_nulls = flags.has_nulls /\ out.all_nulls = flags.all_nulls
  <2>1. (out.has_nulls <=> flags.has_nulls) /\ (out.all_nulls <=> flags.all_nulls)
        BY <1>1, <1>2, <1>5, <1>6
  <2> QED BY <1>2, <1>5, <2>1 DEF ColSummary
<1>8. make_unbounded(out) = make_unbounded(flags)
  <2>1. \A x \in ColSummary :
            /\ make_unbounded(x) \in ColSummary
            /\ make_unbounded(x).collation = x.collation
            /\ make_unbounded(x).min = None /\ make_unbounded(x).max = None
            /\ make_unbounded(x).has_nulls = x.has_nulls
            /\ make_unbounded(x).all_nulls = x.all_nulls
            /\ make_unbounded(x).unbounded = TRUE
        BY DEF make_unbounded, ColSummary, Bound
  <2> DEFINE x == make_unbounded(out)
             y == make_unbounded(flags)
  <2>2. /\ x \in ColSummary /\ y \in ColSummary /\ x.collation = y.collation
        /\ x.min = y.min /\ x.max = y.max /\ x.has_nulls = y.has_nulls
        /\ x.all_nulls = y.all_nulls /\ x.unbounded = y.unbounded
        BY <1>2, <1>5, <1>7, <2>1
  <2> HIDE DEF x, y
  <2>3. x = y
        BY <2>2, SameColumn
  <2> QED BY <2>3 DEF x, y
<1>9. CASE c \notin Supported
      BY <1>4, <1>5, <1>8, <1>9 DEF BuiltColumns, flags
<1>10. CASE c \in Supported /\ values = {}
  <2>1. lo = None /\ hi = None
        BY <1>1, <1>10 DEF text, lo, hi
  <2>2. out = flags
        BY <1>2, <1>5, <1>7, <1>10, <2>1, SameColumn DEF ColSummary
  <2>3. FinishColumn(c) = out
        BY <1>1, <1>4, <1>5, <1>10
  <2> QED BY <1>10, <2>2, <2>3 DEF BuiltColumns, flags, values
<1>11. CASE c \in Supported /\ values # {}
  <2>1. /\ a.min \in Least(c, values) /\ a.max \in Greatest(c, values)
        /\ a.min \in values /\ a.max \in values /\ a.nonnull > 0
        BY <1>1, <1>11 DEF Least, Greatest
  <2>2. values \subseteq Value
        BY <1>1 DEF values, ValuesOf, Row, Datum
  <2>3. lo = DatumToText[a.min] /\ hi = DatumToText[a.max]
        BY <2>1, <2>2, ColumnAssumption DEF text, lo, hi
  <2>4. FinishColumn(c) = WithBounds(flags, a.min, a.max)
    <3>1. CASE lo = None \/ hi = None
          BY <1>4, <1>8, <2>1, <2>3, <3>1 DEF WithBounds
    <3>2. CASE ~(lo = None \/ hi = None)
      <4>1. FinishColumn(c) = out
            BY <1>4, <1>5, <1>11, <3>2
      <4>2. WithBounds(flags, a.min, a.max) = [flags EXCEPT !.min = lo, !.max = hi]
            BY <2>3, <3>2 DEF WithBounds
      <4> DEFINE bounded == [flags EXCEPT !.min = lo, !.max = hi]
      <4>3. /\ bounded \in ColSummary /\ bounded.min = lo /\ bounded.max = hi
            /\ bounded.collation = flags.collation /\ bounded.unbounded = flags.unbounded
            /\ bounded.has_nulls = flags.has_nulls /\ bounded.all_nulls = flags.all_nulls
            BY <1>2, <1>3 DEF ColSummary
      <4> HIDE DEF bounded
      <4>4. out.unbounded = flags.unbounded
            BY <1>2, <1>5, <1>11 DEF ColSummary
      <4>5. out = bounded
            BY <1>2, <1>5, <1>7, <4>3, <4>4, SameColumn
      <4> QED BY <4>1, <4>2, <4>5 DEF bounded
    <3> QED BY <3>1, <3>2
  <2> QED BY <1>11, <2>1, <2>4 DEF BuiltColumns, flags, values
<1> QED BY <1>9, <1>10, <1>11

LEMMA FinishBuilds ==
    ASSUME TypeOK, \A c \in Column : Accumulates(c)
    PROVE  finish \in build_leaf_summary(rows)
<1>1. \A c \in Column : finish[c] \in BuiltColumns(c, rows)
      BY FinishIsBuilt DEF finish
<1>2. finish \in [Column -> UNION {BuiltColumns(c, rows) : c \in Column}]
      BY <1>1 DEF finish
<1> QED BY <1>1, <1>2 DEF build_leaf_summary

(***************************************************************************)
(* A built column is no wider than its values make it.                     *)
(***************************************************************************)
LEMMA BuiltIsSelective ==
    ASSUME NEW c \in Supported, NEW seen \in SUBSET Row, NEW col \in BuiltColumns(c, seen)
    PROVE  Selective(c, col, ValuesOf(c, seen))
<1> DEFINE values == ValuesOf(c, seen)
           flags == BuiltFlags(c, seen)
           coll == IndexCollation[c]
<1>1. /\ c \in Column /\ coll \in Collation /\ values \subseteq Value
      /\ flags.min = None /\ flags.max = None /\ ~flags.unbounded
      BY IndexAssumption DEF BuiltFlags, ValuesOf, Row, Datum
<1>2. flags = [flags EXCEPT !.min = None] /\ flags \in ColSummary
      BY <1>1 DEF BuiltFlags, ColSummary, Bound
<1> HIDE DEF values, flags
<1>3. CASE values = {}
  <2>1. col = flags
        BY <1>3 DEF BuiltColumns, values, flags
  <2> QED BY <1>1, <2>1 DEF Selective, HasBounds
<1>4. CASE values # {}
  <2>1. PICK lo \in Least(c, values), hi \in Greatest(c, values) : col = WithBounds(flags, lo, hi)
        BY <1>4 DEF BuiltColumns, values, flags
  <2>2. lo \in values /\ hi \in values /\ lo \in Value /\ hi \in Value
        BY <1>1, <2>1 DEF Least, Greatest
  <2>3. CASE DatumToText[lo] = None \/ DatumToText[hi] = None
    <3>1. col = [flags EXCEPT !.unbounded = TRUE, !.min = None, !.max = None]
          BY <2>1, <2>3 DEF WithBounds, make_unbounded
    <3>2. col.min = None /\ col.max = None
          BY <1>2, <3>1 DEF ColSummary
    <3> QED BY <2>2, <2>3, <3>2 DEF Selective, HasBounds, values
  <2>4. CASE DatumToText[lo] # None /\ DatumToText[hi] # None
    <3>1. /\ col.min = DatumToText[lo] /\ col.max = DatumToText[hi] /\ ~col.unbounded
          BY <1>1, <1>2, <2>1, <2>4 DEF WithBounds, ColSummary
    <3>2. /\ datum_cmp(coll, lo, TextToDatum[col.min]) = 0
          /\ datum_cmp(coll, hi, TextToDatum[col.max]) = 0
          BY <1>1, <2>2, <2>4, <3>1, TextReadsBack, CmpInt
    <3> QED BY <2>2, <2>4, <3>1, <3>2 DEF Selective, HasBounds, values
  <2> QED BY <2>3, <2>4
<1> QED BY <1>3, <1>4

(***************************************************************************)
(* A column that fitting the page has not shed is as it was.               *)
(***************************************************************************)
LEMMA FittedColumn ==
    ASSUME NEW s \in Summary
    PROVE  /\ DroppedColumns(s) \subseteq Column
           /\ \A c \in Column \ DroppedColumns(s) : encode_fitting(s)[c] = s[c]
BY DEF DroppedColumns, encode_fitting, Dropped

LEMMA WriteIInv ==
    ASSUME IInv, write_summary
    PROVE  IInv'
<1>1. /\ page = None /\ rows' = rows /\ acc' = acc /\ shed' = DroppedColumns(finish)
      /\ page' = IF Fits(encode_fitting(finish)) THEN encode_fitting(finish) ELSE Failed
      BY DEF write_summary
<1>2. TypeOK /\ rows \in SUBSET Row /\ finish \in build_leaf_summary(rows)
      BY <1>1, FinishBuilds, BuildAssumption DEF IInv, TypeOK
<1>3. finish \in Summary /\ \A c \in Column : finish[c] \in BuiltColumns(c, rows)
  <2>1. /\ finish \in [Column -> UNION {BuiltColumns(c, rows) : c \in Column}]
        /\ \A c \in Column : finish[c] \in BuiltColumns(c, rows)
        BY <1>2 DEF build_leaf_summary
  <2>2. \A c \in Column : finish[c] \in ColSummary /\ finish[c].collation = IndexCollation[c]
        BY <1>2, <2>1, BuiltColumnCovers
  <2> QED BY <2>1, <2>2 DEF Summary
<1>4. encode_fitting(finish) \in Summary /\ \A row \in rows : CoversRow(encode_fitting(finish), row)
      BY <1>2, BuildCovers
<1>5. DroppedColumns(finish) \subseteq Column
      BY <1>3, FittedColumn
<1>6. TypeOK'
      BY <1>1, <1>2, <1>4, <1>5 DEF TypeOK
<1>7. CASE page' = Failed
  <2>1. page' \notin Summary
        BY <1>7, BuildAssumption
  <2>2. \A c \in Column : Accumulates(c)'
    <3>1. \A c \in Column : Accumulates(c)
          BY <1>1 DEF IInv
    <3> QED BY <1>1, <3>1 DEF Accumulates, ValuesOf
  <2> QED BY <1>6, <2>1, <2>2 DEF IInv, CoversRows, Written
<1>8. CASE page' = encode_fitting(finish)
  <2>1. CoversRows' /\ page' \in Summary /\ page' # None
        BY <1>1, <1>4, <1>8, BuildAssumption DEF CoversRows, Written
  <2>2. ASSUME NEW c \in Supported \ shed'
        PROVE  Selective(c, page'[c], ValuesOf(c, rows))
    <3>1. c \in Column \ DroppedColumns(finish) /\ c \in Supported
          BY <1>1, IndexAssumption
    <3>2. page'[c] = finish[c]
          BY <1>3, <1>8, <3>1, FittedColumn
    <3> QED BY <1>2, <1>3, <3>1, <3>2, BuiltIsSelective
  <2> QED BY <1>1, <1>6, <2>1, <2>2 DEF IInv
<1> QED BY <1>1, <1>7, <1>8

-----------------------------------------------------------------------------
(* Inserts.                                                                *)

(***************************************************************************)
(* A column keeps its bounds unless the value folded in has no text form,  *)
(* and the bounds move to that value or stay where they are attained.      *)
(***************************************************************************)
LEMMA WidenIsSelective ==
    ASSUME NEW c \in Supported, NEW col \in ColSummary, col.collation = IndexCollation[c],
           NEW values \in SUBSET Value, Selective(c, col, values), NEW d \in Datum,
           NEW more, more = IF d = Null THEN values ELSE values \cup {d}
    PROVE  Selective(c, widen_column(col, IndexCollation[c], d), more)
<1> DEFINE coll == IndexCollation[c]
           seen == [col EXCEPT !.all_nulls = FALSE]
           wide == widen_column(col, coll, d)
<1>1. /\ coll \in Collation /\ values \subseteq more
      /\ d # Null => d \in Value /\ d \in more
      BY IndexAssumption DEF Datum
<1>2. /\ seen \in ColSummary /\ seen.min = col.min /\ seen.max = col.max
      /\ seen.unbounded = col.unbounded
      BY DEF ColSummary
<1>3. CASE d = Null \/ col.unbounded
  <2>1. wide.min = col.min /\ wide.max = col.max /\ wide.unbounded = col.unbounded
        BY <1>2, <1>3 DEF widen_column, ColSummary
  <2> HIDE DEF wide
  <2>2. Selective(c, wide, more)
        BY <1>1, <2>1 DEF Selective, HasBounds
  <2> QED BY <2>2 DEF wide
<1>4. CASE d # Null /\ ~col.unbounded /\ CanFold(col, d)
  <2>1. CanFold(seen, d) /\ DatumToText[d] # None
        BY <1>2, <1>4 DEF CanFold
  <2>2. wide = widen_minmax(seen, coll, d)
        BY <1>4 DEF widen_column
  <2>3. HasBounds(wide) /\ ~wide.unbounded
    <3> HIDE DEF seen, coll
    <3>1. d \in Value /\ seen \in ColSummary /\ coll \in Collation
          BY <1>1, <1>2, <1>4
    <3>2. /\ HasBounds(widen_minmax(seen, coll, d))
          /\ widen_minmax(seen, coll, d).unbounded = seen.unbounded
          BY <2>1, <3>1, WidenMinmaxTyped
    <3> QED BY <1>2, <1>4, <2>2, <3>2
  <2>4. /\ wide.min = DatumToText[d] \/ (HasBounds(col) /\ wide.min = col.min)
        /\ wide.max = DatumToText[d] \/ (HasBounds(col) /\ wide.max = col.max)
        BY <1>2, <2>2 DEF widen_minmax, HasBounds, ColSummary
  <2>5. datum_cmp(coll, d, TextToDatum[DatumToText[d]]) = 0
        BY <1>1, <1>4, <2>1, TextReadsBack, CmpInt
  <2> HIDE DEF wide
  <2>6. Selective(c, wide, more)
        BY <1>1, <1>4, <2>3, <2>4, <2>5 DEF Selective, HasBounds
  <2> QED BY <2>6 DEF wide
<1>5. CASE d # Null /\ ~col.unbounded /\ ~CanFold(col, d)
  <2>1. DatumToText[d] = None
        BY <1>5 DEF CanFold, Selective
  <2>2. wide.min = None /\ wide.max = None
        BY <1>2, <1>5 DEF widen_column, make_unbounded, ColSummary
  <2> HIDE DEF wide
  <2>3. Selective(c, wide, more)
        BY <1>1, <1>5, <2>1, <2>2 DEF Selective, HasBounds
  <2> QED BY <2>3 DEF wide
<1> QED BY <1>3, <1>4, <1>5

LEMMA InsertIInv ==
    ASSUME IInv, NEW row \in Input, widen_on_insert(row)
    PROVE  IInv'
<1> DEFINE widened == widen_summary(page, row)
           fitted == encode_fitting(widened)
<1>1. /\ TypeOK /\ page \in Summary /\ page # None /\ acc' = acc
      /\ row \in Row /\ rows \in SUBSET Row
      /\ \A r \in rows : CoversRow(page, r)
      /\ \A c \in Supported \ shed : Selective(c, page[c], ValuesOf(c, rows))
      BY BuildAssumption DEF IInv, TypeOK, CoversRows, Written, widen_on_insert
<1>2. /\ widened \in Summary
      /\ fitted \in Summary /\ WiderThan(fitted, page) /\ CoversRow(fitted, row)
      BY <1>1, WidenSummary, WidenedCovers DEF Widened
<1>3. ASSUME NEW c \in Supported \ shed
      PROVE  Selective(c, widened[c], ValuesOf(c, rows \cup {row}))
  <2>1. c \in Column /\ c \in Supported
        BY IndexAssumption
  <2>2. /\ page[c] \in ColSummary /\ page[c].collation = IndexCollation[c] /\ row[c] \in Datum
        /\ ValuesOf(c, rows) \in SUBSET Value /\ Selective(c, page[c], ValuesOf(c, rows))
        BY <1>1, <2>1, SummaryColumn, OneMoreValue DEF Row
  <2>3. ValuesOf(c, rows \cup {row})
            = IF row[c] = Null THEN ValuesOf(c, rows) ELSE ValuesOf(c, rows) \cup {row[c]}
        BY <1>1, <2>1, OneMoreValue
  <2>4. widened[c] = widen_column(page[c], IndexCollation[c], row[c])
        BY <2>1 DEF widen_summary
  <2> DEFINE col == page[c]
             d == row[c]
             values == ValuesOf(c, rows)
             more == ValuesOf(c, rows \cup {row})
  <2> HIDE DEF widened, col, d, values, more
  <2>5. Selective(c, widen_column(col, IndexCollation[c], d), more)
    <3>1. /\ col \in ColSummary /\ col.collation = IndexCollation[c] /\ d \in Datum
          /\ values \in SUBSET Value /\ Selective(c, col, values)
          BY <2>2 DEF col, d, values
    <3>2. more = IF d = Null THEN values ELSE values \cup {d}
          BY <2>3 DEF d, values, more
    <3> QED BY <2>1, <3>1, <3>2, WidenIsSelective
  <2> QED BY <2>4, <2>5 DEF col, d, more
<1>4. \/ widened = page /\ rows' = rows \cup {row} /\ page' = page /\ shed' = shed
      \/ /\ rows' = rows \cup {row} /\ page' = fitted
         /\ shed' = shed \cup DroppedColumns(widened)
      \/ rows' = rows /\ page' = page /\ shed' = shed
      BY DEF widen_on_insert
<1>5. widened = page => CoversRow(page, row)
      BY <1>1, UnchangedCovers
<1>6. DroppedColumns(widened) \subseteq Column
      /\ \A c \in Column \ DroppedColumns(widened) : fitted[c] = widened[c]
      BY <1>2, FittedColumn
<1> HIDE DEF widened, fitted
<1>7. \A r \in rows : CoversRow(fitted, r)
      BY <1>1, <1>2, WiderCoversRow
<1>8. CASE /\ widened = page /\ rows' = rows \cup {row} /\ page' = page /\ shed' = shed
  <2>1. TypeOK' /\ CoversRows'
        BY <1>1, <1>5, <1>8 DEF TypeOK, CoversRows, Written
  <2>2. \A c \in Supported \ shed' : Selective(c, page'[c], ValuesOf(c, rows)')
        BY <1>3, <1>8 DEF ValuesOf
  <2> QED BY <1>1, <1>8, <2>1, <2>2 DEF IInv
<1>9. CASE /\ rows' = rows \cup {row} /\ page' = fitted
           /\ shed' = shed \cup DroppedColumns(widened)
  <2>1. page' # None
        BY <1>2, <1>9, BuildAssumption
  <2>2. TypeOK' /\ CoversRows'
        BY <1>1, <1>2, <1>6, <1>7, <1>9 DEF TypeOK, CoversRows, Written
  <2>3. ASSUME NEW c \in Supported \ shed'
        PROVE  Selective(c, page'[c], ValuesOf(c, rows)')
    <3>1. c \in Supported \ shed /\ c \in Column \ DroppedColumns(widened)
          BY <1>9, IndexAssumption
    <3>2. page'[c] = widened[c]
          BY <1>6, <1>9, <3>1
    <3>3. Selective(c, widened[c], ValuesOf(c, rows \cup {row}))
          BY <1>3, <3>1
    <3>4. ValuesOf(c, rows)' = ValuesOf(c, rows \cup {row})
          BY <1>9 DEF ValuesOf
    <3> QED BY <3>2, <3>3, <3>4
  <2> QED BY <2>1, <2>2, <2>3 DEF IInv
<1>10. CASE /\ rows' = rows /\ page' = page /\ shed' = shed
  <2>1. TypeOK' /\ CoversRows'
        BY <1>1, <1>10 DEF TypeOK, CoversRows, Written
  <2>2. \A c \in Supported \ shed' : Selective(c, page'[c], ValuesOf(c, rows)')
        BY <1>1, <1>10 DEF ValuesOf
  <2> QED BY <1>1, <1>10, <2>1, <2>2 DEF IInv
<1> QED BY <1>4, <1>8, <1>9, <1>10

-----------------------------------------------------------------------------
LEMMA StepIInv == IInv /\ [Next]_vars => IInv'
<1> SUFFICES ASSUME IInv, [Next]_vars PROVE IInv'
    OBVIOUS
<1>1. CASE UNCHANGED vars
  <2>1. \A c \in Column : Accumulates(c)' <=> Accumulates(c)
        BY <1>1 DEF Accumulates, ValuesOf, vars
  <2>2. \A c \in Column : ValuesOf(c, rows)' = ValuesOf(c, rows)
        BY <1>1 DEF ValuesOf, vars
  <2>3. Supported \subseteq Column
        BY IndexAssumption
  <2> QED BY <1>1, <2>1, <2>2, <2>3 DEF vars, IInv, TypeOK, CoversRows, Written
<1>2. ASSUME NEW row \in Input, build_callback(row) PROVE IInv'
      BY <1>2, ScanIInv
<1>3. ASSUME NEW row \in Input, widen_on_insert(row) PROVE IInv'
      BY <1>3, InsertIInv
<1>4. CASE write_summary
      BY <1>4, WriteIInv
<1> QED BY <1>1, <1>2, <1>3, <1>4 DEF Next

LEMMA AlwaysIInv == Spec => []IInv
BY InitIInv, StepIInv, PTL DEF Spec

(***************************************************************************)
(* The accumulators, the page and the history have their types.            *)
(***************************************************************************)
THEOREM BuildTypeCorrect == Spec => []TypeOK
<1>1. IInv => TypeOK
      BY DEF IInv
<1> QED BY <1>1, AlwaysIInv, PTL

(***************************************************************************)
(* "Never too narrow": in whatever order rows were scanned by am_build and *)
(* inserted by am_insert, the stored summary covers all of them.           *)
(***************************************************************************)
THEOREM StoredAlwaysCovers == Spec => []CoversRows
<1>1. IInv => CoversRows
      BY DEF IInv
<1> QED BY <1>1, AlwaysIInv, PTL

(***************************************************************************)
(* No partition is pruned that holds a row the clause selects.             *)
(***************************************************************************)
THEOREM BuildLosesNoRow == Spec => []PruneLosesNoRow
<1>1. IInv => PruneLosesNoRow
  <2> SUFFICES ASSUME IInv, Written, NEW c \in Column, NEW clause \in Clause,
                      proves_prune(clause, page[c]), NEW row \in rows
               PROVE  ~Matches(clause, row[c])
      BY DEF PruneLosesNoRow
  <2>1. page[c] \in ColSummary /\ row[c] \in Datum /\ Covers(page[c], row[c])
        BY BuildAssumption, SummaryColumn DEF IInv, TypeOK, CoversRows, Written, CoversRow, Row
  <2> QED BY <2>1, PruneSound
<1> QED BY <1>1, AlwaysIInv, PTL

(***************************************************************************)
(* A summary is no wider than its rows, the text forms of their values and *)
(* the room on the page make it.                                           *)
(***************************************************************************)
THEOREM AlwaysSelective == Spec => []StaysSelective
<1>1. IInv => StaysSelective
  <2> SUFFICES ASSUME IInv, Written, NEW c \in Supported \ shed
               PROVE  /\ page[c].unbounded =>
                            \E row \in rows : row[c] # Null /\ DatumToText[row[c]] = None
                      /\ HasBounds(page[c]) =>
                            \A bound \in {page[c].min, page[c].max} :
                                \E row \in rows :
                                    /\ row[c] # Null
                                    /\ datum_cmp(IndexCollation[c], row[c], TextToDatum[bound]) = 0
      BY DEF StaysSelective
  <2>1. Selective(c, page[c], ValuesOf(c, rows))
        BY DEF IInv
  <2>2. \A v \in ValuesOf(c, rows) : \E row \in rows : row[c] = v /\ row[c] # Null
        BY DEF ValuesOf
  <2> QED BY <2>1, <2>2 DEF Selective
<1> QED BY <1>1, AlwaysIInv, PTL

(***************************************************************************)
(* The accumulators of ColumnBuild give what a build over the set of rows  *)
(* is specified to give, in whatever order the scan met them.              *)
(***************************************************************************)
THEOREM AlwaysBuildsExactly == Spec => BuildIsExact
<1> DEFINE Exact == write_summary /\ page' # Failed =>
                        \E s \in build_leaf_summary(rows) : page' = encode_fitting(s)
<1>1. IInv => Exact
  <2> SUFFICES ASSUME IInv, write_summary, page' # Failed
               PROVE  \E s \in build_leaf_summary(rows) : page' = encode_fitting(s)
      OBVIOUS
  <2>1. finish \in build_leaf_summary(rows)
        BY FinishBuilds DEF IInv, write_summary
  <2>2. page' = encode_fitting(finish)
        BY DEF write_summary
  <2> QED BY <2>1, <2>2
<1>2. Spec => [][Exact]_vars
  <2> HIDE DEF Exact
  <2>1. IInv /\ [Next]_vars => [Exact]_vars
        BY <1>1
  <2> QED BY <2>1, AlwaysIInv, PTL DEF Spec
<1> QED BY <1>2 DEF BuildIsExact
-----------------------------------------------------------------------------
(* The room that the bounds take is a sum over the columns.                *)

OneOf(S) == CHOOSE x \in S : TRUE

\* g sums f over every subset of S, taking one element after the other.
Sums(g, f, S) ==
    g = [T \in SUBSET S |-> IF T = {} THEN 0 ELSE f[OneOf(T)] + g[T \ {OneOf(T)}]]

LEMMA SumIsChosen ==
    ASSUME NEW S, NEW f, DOMAIN f = S
    PROVE  SumFunction(f) = (CHOOSE g : Sums(g, f, S))[S]
BY DEF SumFunction, SumFunctionOnSet, FoldFunctionOnSet, MapThenFoldSet, Sums, OneOf

LEMMA OneLess ==
    ASSUME NEW S, IsFiniteSet(S), NEW T \in SUBSET S
    PROVE  /\ Cardinality(T) \in Nat /\ Cardinality(T) <= Cardinality(S)
           /\ T # {} => /\ OneOf(T) \in T /\ OneOf(T) \in S /\ T \ {OneOf(T)} \in SUBSET S
                        /\ Cardinality(T \ {OneOf(T)}) = Cardinality(T) - 1
           /\ T = {} <=> Cardinality(T) = 0
<1>1. /\ IsFiniteSet(T) /\ Cardinality(T) <= Cardinality(S) /\ Cardinality(T) \in Nat
      /\ T = {} <=> Cardinality(T) = 0
      BY FS_Subset, FS_CardinalityType, FS_EmptySet
<1>2. T # {} => OneOf(T) \in T
      BY DEF OneOf
<1> QED BY <1>1, <1>2, FS_RemoveElement

(***************************************************************************)
(* There is such a g: if there were none on the sets of up to n elements,  *)
(* there would be none on smaller ones.                                    *)
(***************************************************************************)
LEMMA SumExists ==
    ASSUME NEW S, IsFiniteSet(S), NEW f \in [S -> Nat]
    PROVE  \E g : Sums(g, f, S)
<1> DEFINE Small(n) == {T \in SUBSET S : Cardinality(T) <= n}
           Next1(g, T) == IF T = {} THEN 0 ELSE f[OneOf(T)] + g[T \ {OneOf(T)}]
           Upto(n) == \E g \in [Small(n) -> Nat] : \A T \in Small(n) : g[T] = Next1(g, T)
           bad == {n \in Nat : ~Upto(n)}
<1>1. ASSUME NEW n \in Nat, n = 0 \/ Upto(n - 1)
      PROVE  Upto(n)
  <2>1. CASE n = 0
    <3>1. Small(n) = {{}}
      <4>1. ASSUME NEW T \in SUBSET S
            PROVE  Cardinality(T) <= n <=> T = {}
        <5>1. Cardinality(T) \in Nat /\ (T = {} <=> Cardinality(T) = 0)
              BY OneLess
        <5> QED BY <2>1, <5>1
      <4> QED BY <4>1
    <3> DEFINE g == [T \in Small(n) |-> 0]
    <3>2. g \in [Small(n) -> Nat]
          OBVIOUS
    <3>3. \A T \in Small(n) : g[T] = Next1(g, T)
          BY <3>1
    <3> QED BY <3>2, <3>3
  <2>2. CASE n # 0
    <3>1. n - 1 \in Nat
          BY <2>2
    <3>2. PICK g \in [Small(n - 1) -> Nat] : \A T \in Small(n - 1) : g[T] = Next1(g, T)
          BY <1>1, <2>2
    <3> DEFINE h == [T \in Small(n) |-> Next1(g, T)]
    <3>3. \A T \in Small(n) : T # {} => /\ T \ {OneOf(T)} \in Small(n - 1)
                                        /\ T \ {OneOf(T)} \in Small(n)
                                        /\ f[OneOf(T)] \in Nat
      <4> SUFFICES ASSUME NEW T \in SUBSET S, Cardinality(T) <= n, T # {}
                   PROVE  /\ T \ {OneOf(T)} \in Small(n - 1) /\ T \ {OneOf(T)} \in Small(n)
                          /\ f[OneOf(T)] \in Nat
          OBVIOUS
      <4>1. /\ OneOf(T) \in S /\ T \ {OneOf(T)} \in SUBSET S /\ Cardinality(T) \in Nat
            /\ Cardinality(T \ {OneOf(T)}) = Cardinality(T) - 1
            BY OneLess
      <4> QED BY <4>1
    <3>4. h \in [Small(n) -> Nat]
      <4>1. \A T \in Small(n) : Next1(g, T) \in Nat
        <5> HIDE DEF Small
        <5> QED BY <3>2, <3>3
      <4> QED BY <4>1
    <3>5. \A T \in Small(n - 1) : T \in Small(n) /\ h[T] = g[T]
      <4>1. \A T \in Small(n - 1) : T \in Small(n)
        <5> SUFFICES ASSUME NEW T \in SUBSET S, Cardinality(T) <= n - 1
                     PROVE  Cardinality(T) <= n
            OBVIOUS
        <5>1. Cardinality(T) \in Nat
              BY OneLess
        <5> QED BY <5>1
      <4> HIDE DEF Small
      <4> QED BY <3>2, <4>1
    <3>6. \A T \in Small(n) : h[T] = Next1(h, T)
      <4> HIDE DEF Small
      <4> QED BY <3>3, <3>5
    <3> HIDE DEF h
    <3> QED BY <3>4, <3>6
  <2> QED BY <2>1, <2>2
<1>2. bad = {}
  <2> SUFFICES ASSUME bad # {} PROVE FALSE
      OBVIOUS
  <2>1. PICK n \in bad : \A m \in bad : n <= m
    <3>1. bad \in SUBSET Nat
          OBVIOUS
    <3> HIDE DEF bad
    <3> QED BY <3>1, HasLeast
  <2> HIDE DEF Upto
  <2>2. n \in Nat /\ ~Upto(n)
        OBVIOUS
  <2>3. n = 0 \/ (n - 1 \in Nat /\ n - 1 \notin bad)
        BY <2>1, <2>2
  <2>4. n = 0 \/ Upto(n - 1)
        BY <2>3
  <2> QED BY <1>1, <2>2, <2>4
<1>3. Upto(Cardinality(S))
  <2> HIDE DEF Upto
  <2> QED BY <1>2, FS_CardinalityType
<1>4. Small(Cardinality(S)) = SUBSET S
      BY OneLess
<1>5. PICK g \in [SUBSET S -> Nat] : \A T \in SUBSET S : g[T] = Next1(g, T)
      BY <1>3, <1>4
<1>6. g = [T \in SUBSET S |-> Next1(g, T)]
  <2> HIDE DEF Next1
  <2> QED BY <1>5
<1> QED BY <1>6 DEF Sums
LEMMA SumFacts ==
    ASSUME NEW S, IsFiniteSet(S), NEW f \in [S -> Nat]
    PROVE  /\ SumFunction(f) \in Nat
           /\ (\A x \in S : f[x] = 0) => SumFunction(f) = 0
           /\ (\A x \in S : f[x] <= 4) => SumFunction(f) <= 4 * Cardinality(S)
<1> DEFINE g == CHOOSE g : Sums(g, f, S)
           none == \A x \in S : f[x] = 0
           few == \A x \in S : f[x] <= 4
           Right(T) == /\ g[T] \in Nat /\ (none => g[T] = 0)
                       /\ few => g[T] <= 4 * Cardinality(T)
           sizes == {n \in Nat : \E T \in SUBSET S : Cardinality(T) = n /\ ~Right(T)}
<1>1. SumFunction(f) = g[S]
      BY SumIsChosen
<1>2. Sums(g, f, S)
      BY SumExists
<1> HIDE DEF g
<1>3. \A T \in SUBSET S : g[T] = IF T = {} THEN 0 ELSE f[OneOf(T)] + g[T \ {OneOf(T)}]
      BY <1>2 DEF Sums
<1>4. sizes = {}
  <2> SUFFICES ASSUME sizes # {} PROVE FALSE
      OBVIOUS
  <2>1. PICK n \in sizes : \A m \in sizes : n <= m
    <3>1. sizes \in SUBSET Nat
          OBVIOUS
    <3> HIDE DEF sizes
    <3> QED BY <3>1, HasLeast
  <2> HIDE DEF Right
  <2>2. PICK T \in SUBSET S : Cardinality(T) = n /\ ~Right(T)
        OBVIOUS
  <2>3. T # {}
    <3> SUFFICES ASSUME T = {} PROVE FALSE
        OBVIOUS
    <3>1. g[T] = 0 /\ Cardinality(T) = 0
          BY <1>3, FS_EmptySet
    <3> QED BY <2>2, <3>1 DEF Right
  <2>4. /\ OneOf(T) \in S /\ T \ {OneOf(T)} \in SUBSET S
        /\ Cardinality(T \ {OneOf(T)}) = n - 1 /\ n - 1 \in Nat /\ n \in Nat
        BY <2>2, <2>3, OneLess
  <2>5. n - 1 \notin sizes
    <3> HIDE DEF sizes
    <3> QED BY <2>1, <2>4
  <2>6. Right(T \ {OneOf(T)})
        BY <2>4, <2>5
  <2>7. g[T] = f[OneOf(T)] + g[T \ {OneOf(T)}] /\ f[OneOf(T)] \in Nat
        BY <1>3, <2>3, <2>4
  <2>8. g[T] \in Nat /\ (none => g[T] = 0)
        BY <2>4, <2>6, <2>7 DEF Right
  <2>9. ASSUME few PROVE g[T] <= 4 * Cardinality(T)
    <3>1. f[OneOf(T)] <= 4
          BY <2>4, <2>9
    <3>2. g[T \ {OneOf(T)}] \in Nat /\ g[T \ {OneOf(T)}] <= 4 * (n - 1)
          BY <2>4, <2>6, <2>9 DEF Right
    <3>3. Cardinality(T) = n
          BY <2>2
    <3> HIDE DEF few, OneOf
    <3> QED BY <2>4, <2>7, <3>1, <3>2, <3>3
  <2> QED BY <2>2, <2>8, <2>9 DEF Right
<1>5. Right(S)
  <2>1. Cardinality(S) \in Nat
        BY FS_CardinalityType
  <2>2. Cardinality(S) \notin sizes
        BY <1>4
  <2> HIDE DEF Right
  <2> QED BY <2>1, <2>2
<1> QED BY <1>1, <1>5

-----------------------------------------------------------------------------
(* Fitting the page.                                                       *)

LEMMA BoundLength ==
    ASSUME NEW col \in ColSummary
    PROVE  /\ bound_len(col) \in Nat /\ bound_len(make_unbounded(col)) = 0
           /\ BoundBytes(col) \in Nat
           /\ bound_len(col) = 0 => BoundBytes(col) <= 4
           /\ bound_len(col) = 0 /\ (\A t \in Text : TextLen[t] > 0) => BoundBytes(col) = 0
<1>1. col.min \in Text \cup {None} /\ col.max \in Text \cup {None}
      BY DEF ColSummary, Bound
<1>2. \A t \in Text : TextLen[t] \in Nat
      BY IndexAssumption
<1>3. make_unbounded(col).min = None /\ make_unbounded(col).max = None
      BY DEF make_unbounded, ColSummary
<1>4. bound_len(col) \in Nat /\ bound_len(make_unbounded(col)) = 0
      BY <1>1, <1>2, <1>3 DEF bound_len
<1>5. BoundBytes(col) \in Nat /\ (bound_len(col) = 0 => BoundBytes(col) <= 4)
      BY <1>1, <1>2 DEF bound_len, BoundBytes
<1>6. ASSUME bound_len(col) = 0, \A t \in Text : TextLen[t] > 0 PROVE BoundBytes(col) = 0
  <2>1. col.min = None /\ col.max = None
        BY <1>1, <1>2, <1>6 DEF bound_len
  <2> QED BY <2>1 DEF BoundBytes
<1> QED BY <1>4, <1>5, <1>6

\* A summary that fits leaves no debt: the page has room for one without bounds.
LEMMA FitsLeavesRoom ==
    ASSUME NEW s \in Summary, Fits(s)
    PROVE  Room >= 0
<1> DEFINE len == [c \in Column |-> BoundBytes(s[c])]
<1>1. len \in [Column -> Nat]
      BY SummaryColumn, BoundLength
<1>2. SumFunction(len) \in Nat
  <2> HIDE DEF len
  <2> QED BY <1>1, SumFacts, BuildAssumption
<1>3. SumFunction(len) <= Room
      BY DEF Fits
<1> HIDE DEF len
<1> QED BY <1>2, <1>3, IndexAssumption

\* A bound without bytes still has its length to store, and encode_fitting does
\* not drop it: either there is none, or the page has room for one twice a column.
EmptyTextsFit ==
    (\A t \in Text : TextLen[t] > 0) \/ 4 * Cardinality(Column) <= Room

LEMMA NothingToDropFits ==
    ASSUME NEW s \in Summary, \A c \in Column : bound_len(s[c]) = 0,
           Room >= 0, EmptyTextsFit
    PROVE  Fits(s)
<1> DEFINE len == [c \in Column |-> BoundBytes(s[c])]
<1>1. len \in [Column -> Nat] /\ \A c \in Column : len[c] <= 4
      BY SummaryColumn, BoundLength
<1>2. CASE \A t \in Text : TextLen[t] > 0
  <2>1. \A c \in Column : len[c] = 0
        BY <1>2, SummaryColumn, BoundLength
  <2>2. SumFunction(len) = 0
    <3> HIDE DEF len
    <3> QED BY <1>1, <2>1, SumFacts, BuildAssumption
  <2> QED BY <2>2 DEF Fits
<1>3. CASE 4 * Cardinality(Column) <= Room
  <2>1. /\ SumFunction(len) \in Nat /\ SumFunction(len) <= 4 * Cardinality(Column)
        /\ Cardinality(Column) \in Nat
    <3> HIDE DEF len
    <3> QED BY <1>1, SumFacts, BuildAssumption, FS_CardinalityType
  <2>2. SumFunction(len) <= Room
    <3> HIDE DEF len
    <3> QED BY <1>3, <2>1, IndexAssumption
  <2> QED BY <2>2 DEF Fits
<1> QED BY <1>2, <1>3 DEF EmptyTextsFit

\* The columns that have bounds to drop, and those that are gone at some point of
\* the loop: the first of them in the order in which it takes them.
Droppable(s) == {c \in Column : bound_len(s[c]) > 0}

Leading(s) ==
    {drop \in SUBSET Droppable(s) :
        \A c \in drop, d \in Droppable(s) \ drop : DroppedBefore(s, c, d)}

(***************************************************************************)
(* What encode_fitting drops is the least that is enough.  The sets of     *)
(* columns that the loop may have dropped are a chain, so that the least   *)
(* of those that are enough is in all others.                              *)
(***************************************************************************)
LEMMA LeastDropped ==
    ASSUME NEW s \in Summary, NEW some \in Leading(s), Fits(Dropped(s, some))
    PROVE  DroppedColumns(s) \in Leading(s) /\ Fits(encode_fitting(s))
<1> DEFINE enough == {drop \in Leading(s) : Fits(Dropped(s, drop))}
           sizes == {Cardinality(drop) : drop \in enough}
<1>1. DroppedColumns(s) = {c \in Droppable(s) : \A drop \in enough : c \in drop}
      BY DEF DroppedColumns, Droppable, Leading
<1>2. \A c \in Column : bound_len(s[c]) \in Nat
      BY SummaryColumn, BoundLength
<1>3. \A drop \in SUBSET Droppable(s) : IsFiniteSet(drop) /\ Cardinality(drop) \in Nat
      BY BuildAssumption, FS_Subset, FS_CardinalityType DEF Droppable
<1>4. \A drop \in enough : drop \in SUBSET Droppable(s)
      BY DEF Leading
<1>5. PICK least \in enough : \A drop \in enough : Cardinality(least) <= Cardinality(drop)
  <2>1. sizes \in SUBSET Nat /\ sizes # {}
        BY <1>3, <1>4
  <2>2. PICK n \in sizes : \A m \in sizes : n <= m
    <3> HIDE DEF sizes
    <3> QED BY <2>1, HasLeast
  <2> QED BY <2>2
<1>6. least \in Leading(s) /\ Fits(Dropped(s, least))
      OBVIOUS
<1>7. ASSUME NEW drop \in enough
      PROVE  least \subseteq drop
  <2> SUFFICES ASSUME NEW c \in least, c \notin drop PROVE FALSE
      OBVIOUS
  <2>1. drop \in Leading(s)
        OBVIOUS
  <2>2. ASSUME NEW d \in drop, d \notin least PROVE FALSE
    <3>1. DroppedBefore(s, c, d) /\ DroppedBefore(s, d, c)
          BY <1>6, <2>1, <2>2 DEF Leading
    <3>2. c \in Nat /\ d \in Nat /\ bound_len(s[c]) \in Nat /\ bound_len(s[d]) \in Nat
          BY <1>2, <1>6, <2>1, IndexAssumption DEF Leading, Droppable
    <3> QED BY <3>1, <3>2 DEF DroppedBefore
  <2>3. drop \subseteq least \ {c}
        BY <2>2
  <2>4. /\ IsFiniteSet(least) /\ Cardinality(least) \in Nat
        /\ IsFiniteSet(least \ {c}) /\ Cardinality(least \ {c}) = Cardinality(least) - 1
        BY <1>3, <1>4, FS_RemoveElement
  <2>5. Cardinality(drop) <= Cardinality(least) - 1 /\ Cardinality(drop) \in Nat
    <3>1. drop \in SUBSET Droppable(s)
          BY <1>4
    <3> HIDE DEF enough
    <3> QED BY <1>3, <2>3, <2>4, <3>1, FS_Subset
  <2>6. Cardinality(least) <= Cardinality(drop)
        BY <1>5
  <2> QED BY <2>4, <2>5, <2>6
<1>8. DroppedColumns(s) = least
  <2>1. least \subseteq Droppable(s)
        BY <1>6 DEF Leading
  <2> HIDE DEF enough
  <2> QED BY <1>1, <1>7, <2>1
<1> QED BY <1>6, <1>8 DEF encode_fitting

\* All columns with bounds are gone when there is nothing left to drop.
LEMMA AllDroppable ==
    ASSUME NEW s \in Summary
    PROVE  Droppable(s) \in Leading(s)
BY DEF Leading

(***************************************************************************)
(* encode_fitting gets every summary onto a page that has room for what it *)
(* cannot drop.                                                            *)
(***************************************************************************)
THEOREM EncodeFittingFits ==
    ASSUME NEW s \in Summary, Room >= 0, EmptyTextsFit
    PROVE  Fits(encode_fitting(s))
<1> DEFINE bare == Dropped(s, Droppable(s))
<1>1. bare \in Summary
  <2>1. bare = [c \in Column |-> bare[c]]
        BY DEF Dropped
  <2>2. \A c \in Column : bare[c] \in ColSummary /\ bare[c].collation = IndexCollation[c]
        BY SummaryColumn, UnboundedKeeps DEF Dropped
  <2> QED BY <2>1, <2>2 DEF Summary
<1>2. \A c \in Column : bound_len(bare[c]) = 0
  <2>1. \A c \in Column : bound_len(s[c]) \in Nat /\ bound_len(make_unbounded(s[c])) = 0
        BY SummaryColumn, BoundLength
  <2> QED BY <2>1 DEF Dropped, Droppable
<1>3. Fits(bare)
  <2> HIDE DEF bare
  <2> QED BY <1>1, <1>2, NothingToDropFits
<1> QED BY <1>3, AllDroppable, LeastDropped

\* What has been stored fits.
PageFits == Written => Fits(page)

\* What the build or an insert has stored fits: both test it.
LEMMA AlwaysPageFits == Spec => []PageFits
<1>1. Init => PageFits
      BY BuildAssumption DEF Init, PageFits, Written
<1>2. PageFits /\ [Next]_vars => PageFits'
  <2> SUFFICES ASSUME PageFits, [Next]_vars PROVE PageFits'
      OBVIOUS
  <2>1. ASSUME NEW row \in Input, build_callback(row) PROVE PageFits'
        BY <2>1, BuildAssumption DEF build_callback, PageFits, Written
  <2>2. ASSUME NEW row \in Input, widen_on_insert(row) PROVE PageFits'
        BY <2>2 DEF widen_on_insert, PageFits, Written
  <2>3. CASE write_summary
        BY <2>3, BuildAssumption DEF write_summary, PageFits, Written
  <2>4. CASE UNCHANGED vars
        BY <2>4 DEF vars, PageFits, Written
  <2> QED BY <2>1, <2>2, <2>3, <2>4 DEF Next
<1> QED BY <1>1, <1>2, PTL DEF Spec

(***************************************************************************)
(* Once CREATE INDEX has succeeded no insert fails for want of room, as    *)
(* long as texts without bytes have room as well.                          *)
(***************************************************************************)
THEOREM InsertsAlwaysFit ==
    ASSUME EmptyTextsFit
    PROVE  Spec => []InsertAlwaysFits
<1>1. PageFits => InsertAlwaysFits
  <2> SUFFICES ASSUME PageFits, Written, NEW row \in Input PROVE Fits(Widened(page, row))
      BY DEF InsertAlwaysFits
  <2>1. page \in Summary /\ Room >= 0
        BY FitsLeavesRoom DEF PageFits, Written
  <2>2. widen_summary(page, row) \in Summary
        BY <2>1, WidenSummary, BuildAssumption
  <2> QED BY <2>1, <2>2, EncodeFittingFits DEF Widened
<1> QED BY <1>1, AlwaysPageFits, PTL

-----------------------------------------------------------------------------
(* Nothing is dropped that there is room for.                              *)

\* Sums of functions that differ at one place differ by as much.
LEMMA SumShift ==
    ASSUME NEW S, IsFiniteSet(S), NEW x \in S, NEW f \in [S -> Nat], NEW h \in [S -> Nat],
           \A y \in S : y # x => f[y] = h[y]
    PROVE  SumFunction(f) + h[x] = SumFunction(h) + f[x]
<1> DEFINE F == CHOOSE g : Sums(g, f, S)
           H == CHOOSE g : Sums(g, h, S)
           Right(T) == /\ F[T] \in Nat /\ H[T] \in Nat
                       /\ x \notin T => F[T] = H[T]
                       /\ x \in T => F[T] + h[x] = H[T] + f[x]
           sizes == {n \in Nat : \E T \in SUBSET S : Cardinality(T) = n /\ ~Right(T)}
<1>1. SumFunction(f) = F[S] /\ SumFunction(h) = H[S]
      BY SumIsChosen
<1>2. Sums(F, f, S) /\ Sums(H, h, S)
      BY SumExists
<1> HIDE DEF F, H
<1>3. \A T \in SUBSET S : /\ F[T] = IF T = {} THEN 0 ELSE f[OneOf(T)] + F[T \ {OneOf(T)}]
                          /\ H[T] = IF T = {} THEN 0 ELSE h[OneOf(T)] + H[T \ {OneOf(T)}]
      BY <1>2 DEF Sums
<1>4. sizes = {}
  <2> SUFFICES ASSUME sizes # {} PROVE FALSE
      OBVIOUS
  <2>1. PICK n \in sizes : \A m \in sizes : n <= m
    <3>1. sizes \in SUBSET Nat
          OBVIOUS
    <3> HIDE DEF sizes
    <3> QED BY <3>1, HasLeast
  <2> HIDE DEF Right
  <2>2. PICK T \in SUBSET S : Cardinality(T) = n /\ ~Right(T)
        OBVIOUS
  <2>3. T # {}
    <3> SUFFICES ASSUME T = {} PROVE FALSE
        OBVIOUS
    <3>1. F[T] = 0 /\ H[T] = 0
          BY <1>3
    <3> QED BY <2>2, <3>1 DEF Right
  <2> DEFINE o == OneOf(T)
             U == T \ {o}
  <2>4. /\ o \in T /\ o \in S /\ U \in SUBSET S
        /\ Cardinality(U) = n - 1 /\ n - 1 \in Nat /\ n \in Nat
        BY <2>2, <2>3, OneLess
  <2>5. n - 1 \notin sizes
    <3> HIDE DEF sizes, o, U
    <3> QED BY <2>1, <2>4
  <2>6. Right(U)
        BY <2>4, <2>5
  <2>7. /\ F[T] = f[o] + F[U] /\ f[o] \in Nat /\ f[x] \in Nat
        /\ H[T] = h[o] + H[U] /\ h[o] \in Nat /\ h[x] \in Nat
        BY <1>3, <2>3, <2>4
  <2>8. /\ F[U] \in Nat /\ H[U] \in Nat
        /\ x \notin U => F[U] = H[U]
        /\ x \in U => F[U] + h[x] = H[U] + f[x]
        BY <2>6 DEF Right
  <2>9. CASE o = x
    <3>1. x \in T /\ x \notin U
          BY <2>4, <2>9
    <3> HIDE DEF o, U
    <3>2. F[T] + h[x] = H[T] + f[x] /\ F[T] \in Nat /\ H[T] \in Nat
          BY <2>7, <2>8, <2>9, <3>1
    <3> QED BY <2>2, <3>1, <3>2 DEF Right
  <2>10. CASE o # x
    <3>1. (x \in T <=> x \in U) /\ f[o] = h[o]
          BY <2>4, <2>10
    <3> HIDE DEF o, U
    <3>2. CASE x \in U
      <4>1. F[T] + h[x] = H[T] + f[x] /\ F[T] \in Nat /\ H[T] \in Nat
            BY <2>7, <2>8, <3>1, <3>2
      <4> QED BY <2>2, <3>1, <3>2, <4>1 DEF Right
    <3>3. CASE x \notin U
      <4>1. F[T] = H[T] /\ F[T] \in Nat /\ H[T] \in Nat
            BY <2>7, <2>8, <3>1, <3>3
      <4> QED BY <2>2, <3>1, <3>3, <4>1 DEF Right
    <3> QED BY <3>2, <3>3
  <2> QED BY <2>9, <2>10
<1>5. Right(S)
  <2>1. Cardinality(S) \in Nat /\ Cardinality(S) \notin sizes
        BY <1>4, FS_CardinalityType
  <2> HIDE DEF Right
  <2> QED BY <2>1
<1> QED BY <1>1, <1>5

\* The loop has dropped one of the shortest last, and had not enough without it.
LEMMA LastDropped ==
    ASSUME NEW s \in Summary, NEW drop \in Leading(s), drop # {}
    PROVE  \E m \in drop : /\ drop \ {m} \in Leading(s)
                           /\ \A c \in drop : bound_len(s[m]) <= bound_len(s[c])
<1> DEFINE lengths == {bound_len(s[c]) : c \in drop}
           shortest == {c \in drop : \A d \in drop : bound_len(s[c]) <= bound_len(s[d])}
<1>1. \A c \in drop : c \in Column /\ c \in Nat /\ bound_len(s[c]) \in Nat
      BY SummaryColumn, BoundLength, IndexAssumption DEF Leading, Droppable
<1>2. PICK n \in lengths : \A k \in lengths : n <= k
  <2>1. lengths \in SUBSET Nat /\ lengths # {}
        BY <1>1
  <2> HIDE DEF lengths
  <2> QED BY <2>1, HasLeast
<1>3. PICK m \in shortest : \A c \in shortest : m <= c
  <2>1. shortest \in SUBSET Nat /\ shortest # {}
        BY <1>1, <1>2
  <2> HIDE DEF shortest
  <2> QED BY <2>1, HasLeast
<1>4. ASSUME NEW c \in drop \ {m}, NEW d \in Droppable(s) \ (drop \ {m})
      PROVE  DroppedBefore(s, c, d)
  <2>1. CASE d \notin drop
        BY <2>1 DEF Leading
  <2>2. CASE d = m
    <3>1. bound_len(s[m]) <= bound_len(s[c])
          OBVIOUS
    <3>2. bound_len(s[m]) = bound_len(s[c]) => c \in shortest
          OBVIOUS
    <3>3. bound_len(s[m]) = bound_len(s[c]) => m <= c
          BY <1>3, <3>2
    <3>4. m \in Nat /\ c \in Nat /\ bound_len(s[m]) \in Nat /\ bound_len(s[c]) \in Nat
          BY <1>1
    <3> HIDE DEF shortest
    <3> QED BY <2>2, <3>1, <3>3, <3>4 DEF DroppedBefore
  <2> QED BY <2>1, <2>2
<1>5. drop \ {m} \in Leading(s)
      BY <1>4 DEF Leading
<1> QED BY <1>5

\* A column has both bounds or neither: a length says how many bytes they take.
Paired(s) == \A c \in Column : s[c].min = None <=> s[c].max = None

LEMMA PutBackIsTooLarge ==
    ASSUME NEW s \in Summary, Paired(s), Fits(encode_fitting(s)), NEW c \in DroppedColumns(s)
    PROVE  ~Fits(Dropped(s, DroppedColumns(s) \ {c}))
<1> DEFINE D == DroppedColumns(s)
           Bytes1(drop) == [k \in Column |-> BoundBytes(Dropped(s, drop)[k])]
<1>1. D \in Leading(s)
  <2>1. CASE \E drop \in Leading(s) : Fits(Dropped(s, drop))
        BY <2>1, LeastDropped
  <2>2. CASE ~\E drop \in Leading(s) : Fits(Dropped(s, drop))
    <3>1. D = Droppable(s)
          BY <2>2 DEF DroppedColumns, Droppable, Leading
    <3> QED BY <3>1, AllDroppable
  <2> QED BY <2>1, <2>2
<1>2. PICK m \in D : /\ D \ {m} \in Leading(s)
                     /\ \A k \in D : bound_len(s[m]) <= bound_len(s[k])
      BY <1>1, LastDropped
<1>3. ~Fits(Dropped(s, D \ {m}))
  <2>1. ASSUME NEW drop \in Leading(s), Fits(Dropped(s, drop)) PROVE D \subseteq drop
        BY <2>1 DEF DroppedColumns, Leading, Droppable
  <2> HIDE DEF D
  <2> QED BY <1>2, <2>1
<1>4. c \in D /\ c \in Column /\ m \in Column /\ D \subseteq Column
      BY <1>1, <1>2 DEF Leading, Droppable
<1>5. /\ \A k \in Column : BoundBytes(s[k]) \in Nat
      /\ \A k \in Column : BoundBytes(make_unbounded(s[k])) = 0
  <2>1. ASSUME NEW k \in Column
        PROVE  BoundBytes(s[k]) \in Nat /\ BoundBytes(make_unbounded(s[k])) = 0
    <3>1. s[k] \in ColSummary
          BY SummaryColumn
    <3>2. make_unbounded(s[k]).min = None /\ make_unbounded(s[k]).max = None
          BY <3>1 DEF make_unbounded, ColSummary
    <3> QED BY <3>1, <3>2, BoundLength DEF BoundBytes
  <2> QED BY <2>1
<1>6. ASSUME NEW k \in D
      PROVE  BoundBytes(s[k]) = bound_len(s[k]) + 4 /\ bound_len(s[k]) \in Nat
  <2>1. s[k] \in ColSummary /\ bound_len(s[k]) > 0 /\ bound_len(s[k]) \in Nat
        BY <1>1, SummaryColumn, BoundLength DEF Leading, Droppable
  <2>2. s[k].min \in Text \cup {None} /\ s[k].max \in Text \cup {None}
        BY <2>1 DEF ColSummary, Bound
  <2>3. \A t \in Text : TextLen[t] \in Nat
        BY IndexAssumption
  <2>4. s[k].min = None <=> s[k].max = None
        BY <1>4 DEF Paired
  <2>5. s[k].min # None /\ s[k].max # None
        BY <2>1, <2>4 DEF bound_len
  <2> QED BY <2>1, <2>2, <2>3, <2>5 DEF bound_len, BoundBytes
<1>7. ASSUME NEW k \in D
      PROVE  /\ SumFunction(Bytes1(D \ {k})) = SumFunction(Bytes1(D)) + BoundBytes(s[k])
             /\ SumFunction(Bytes1(D)) \in Nat
  <2>1. Bytes1(D) \in [Column -> Nat] /\ Bytes1(D \ {k}) \in [Column -> Nat]
        BY <1>5 DEF Dropped
  <2>2. k \in Column /\ Bytes1(D)[k] = 0 /\ Bytes1(D \ {k})[k] = BoundBytes(s[k])
        BY <1>4, <1>5 DEF Dropped
  <2>3. \A y \in Column : y # k => Bytes1(D)[y] = Bytes1(D \ {k})[y]
        BY DEF Dropped
  <2> DEFINE less == Bytes1(D)
             more == Bytes1(D \ {k})
  <2>4. SumFunction(less) + more[k] = SumFunction(more) + less[k]
    <3>1. IsFiniteSet(Column)
          BY BuildAssumption
    <3>2. /\ less \in [Column -> Nat] /\ more \in [Column -> Nat] /\ k \in Column
          /\ \A y \in Column : y # k => less[y] = more[y]
          BY <2>1, <2>2, <2>3
    <3> HIDE DEF less, more, Bytes1, D
    <3> QED BY <3>1, <3>2, SumShift
  <2> HIDE DEF Bytes1, D
  <2>5. SumFunction(Bytes1(D)) \in Nat /\ SumFunction(Bytes1(D \ {k})) \in Nat
        BY <2>1, BuildAssumption, SumFacts
  <2>6. BoundBytes(s[k]) \in Nat
        BY <1>5, <2>2
  <2> QED BY <2>2, <2>4, <2>5, <2>6
<1>8. /\ ~(SumFunction(Bytes1(D \ {m})) <= Room)
      /\ Fits(Dropped(s, D \ {c})) <=> SumFunction(Bytes1(D \ {c})) <= Room
      BY <1>3 DEF Fits
<1>9. BoundBytes(s[m]) <= BoundBytes(s[c])
  <2> HIDE DEF D
  <2>1. bound_len(s[m]) <= bound_len(s[c])
        BY <1>2, <1>4
  <2>2. BoundBytes(s[m]) = bound_len(s[m]) + 4 /\ bound_len(s[m]) \in Nat
        BY <1>2, <1>6
  <2>3. BoundBytes(s[c]) = bound_len(s[c]) + 4 /\ bound_len(s[c]) \in Nat
        BY <1>4, <1>6
  <2> QED BY <2>1, <2>2, <2>3
<1>10. ~(SumFunction(Bytes1(D \ {c})) <= Room)
  <2>1. BoundBytes(s[c]) \in Nat /\ BoundBytes(s[m]) \in Nat /\ Room \in Int
        BY <1>4, <1>5, IndexAssumption
  <2> HIDE DEF Bytes1, D
  <2>2. SumFunction(Bytes1(D \ {c})) = SumFunction(Bytes1(D)) + BoundBytes(s[c])
        BY <1>4, <1>7
  <2>3. /\ SumFunction(Bytes1(D \ {m})) = SumFunction(Bytes1(D)) + BoundBytes(s[m])
        /\ SumFunction(Bytes1(D)) \in Nat
        BY <1>2, <1>7
  <2> QED BY <1>8, <1>9, <2>1, <2>2, <2>3
<1> QED BY <1>8, <1>10

\* What was built or widened has both bounds of a column or neither.
LEMMA BuiltIsPaired ==
    ASSUME NEW R \in SUBSET Row, NEW s \in build_leaf_summary(R)
    PROVE  Paired(s)
<1> SUFFICES ASSUME NEW c \in Column PROVE s[c].min = None <=> s[c].max = None
    BY DEF Paired
<1>1. s[c] \in BuiltColumns(c, R)
      BY DEF build_leaf_summary
<1> DEFINE flags == BuiltFlags(c, R)
<1>2. flags.min = None /\ flags.max = None
      BY DEF BuiltFlags
<1>3. \A lo, hi : WithBounds(flags, lo, hi).min = None <=> WithBounds(flags, lo, hi).max = None
      BY DEF WithBounds, make_unbounded, BuiltFlags
<1>4. make_unbounded(flags).min = None /\ make_unbounded(flags).max = None
      BY DEF make_unbounded, BuiltFlags
<1> QED BY <1>1, <1>2, <1>3, <1>4 DEF BuiltColumns

LEMMA WidenedIsPaired ==
    ASSUME NEW s \in Summary, NEW row \in Row, Paired(s)
    PROVE  Paired(widen_summary(s, row))
<1> SUFFICES ASSUME NEW c \in Column
             PROVE  widen_summary(s, row)[c].min = None <=> widen_summary(s, row)[c].max = None
    BY DEF Paired
<1>1. s[c] \in ColSummary /\ (s[c].min = None <=> s[c].max = None)
      BY SummaryColumn DEF Paired
<1>2. widen_summary(s, row)[c] = widen_column(s[c], IndexCollation[c], row[c])
      BY DEF widen_summary
<1> QED BY <1>1, <1>2 DEF widen_column, widen_minmax, CanFold, HasBounds, make_unbounded, ColSummary

LEMMA FittedIsPaired ==
    ASSUME NEW s \in Summary, Paired(s)
    PROVE  Paired(encode_fitting(s))
<1> SUFFICES ASSUME NEW c \in Column
             PROVE  encode_fitting(s)[c].min = None <=> encode_fitting(s)[c].max = None
    BY DEF Paired
<1>1. s[c] \in ColSummary /\ (s[c].min = None <=> s[c].max = None)
      BY SummaryColumn DEF Paired
<1>2. make_unbounded(s[c]).min = None /\ make_unbounded(s[c]).max = None
      BY <1>1 DEF make_unbounded, ColSummary
<1> QED BY <1>1, <1>2 DEF encode_fitting, Dropped

\* The summary that is about to be fitted onto the page.
LEMMA FinishIsPaired ==
    ASSUME IInv, write_summary
    PROVE  finish \in Summary /\ Paired(finish)
<1>1. rows \in SUBSET Row /\ finish \in build_leaf_summary(rows)
      BY FinishBuilds, BuildAssumption DEF IInv, TypeOK, write_summary
<1>2. finish \in Summary
  <2>1. /\ finish \in [Column -> UNION {BuiltColumns(c, rows) : c \in Column}]
        /\ \A c \in Column : finish[c] \in BuiltColumns(c, rows)
        BY <1>1 DEF build_leaf_summary
  <2>2. \A c \in Column : finish[c] \in ColSummary /\ finish[c].collation = IndexCollation[c]
        BY <1>1, <2>1, BuiltColumnCovers
  <2> QED BY <2>1, <2>2 DEF Summary
<1> QED BY <1>1, <1>2, BuiltIsPaired

PagePaired == Written => Paired(page)

LEMMA AlwaysPagePaired == Spec => []PagePaired
<1>1. Init => PagePaired
      BY BuildAssumption DEF Init, PagePaired, Written
<1>2. IInv /\ PagePaired /\ [Next]_vars => PagePaired'
  <2> SUFFICES ASSUME IInv, PagePaired, [Next]_vars PROVE PagePaired'
      OBVIOUS
  <2>1. CASE page' = page
        BY <2>1 DEF PagePaired, Written, Paired
  <2>2. ASSUME NEW row \in Input, widen_on_insert(row), page' # page PROVE PagePaired'
    <3>1. page \in Summary /\ row \in Row /\ Paired(page)
          BY <2>2, BuildAssumption DEF widen_on_insert, PagePaired, Written
    <3>2. page' = encode_fitting(widen_summary(page, row))
          BY <2>2 DEF widen_on_insert
    <3>3. Paired(encode_fitting(widen_summary(page, row)))
          BY <3>1, WidenSummary, WidenedIsPaired, FittedIsPaired
    <3>4. Paired(page')
          BY <3>2, <3>3
    <3> QED BY <3>4 DEF PagePaired, Paired
  <2>3. CASE write_summary
    <3>1. page' = encode_fitting(finish) \/ page' = Failed
          BY <2>3 DEF write_summary
    <3>2. Paired(encode_fitting(finish))
          BY <2>3, FinishIsPaired, FittedIsPaired
    <3>3. page' \in Summary => Paired(page')
          BY <3>1, <3>2, BuildAssumption
    <3> QED BY <3>3 DEF PagePaired, Written, Paired
  <2> QED BY <2>1, <2>2, <2>3 DEF Next, vars, build_callback
<1> QED BY <1>1, <1>2, AlwaysIInv, PTL DEF Spec

LEMMA FittedHasNoRoom ==
    ASSUME NEW full \in Summary, Paired(full), Fits(encode_fitting(full)),
           page' = encode_fitting(full)
    PROVE  NoRoomFor(full)
<1> SUFFICES ASSUME NEW c \in Column, page'[c] # full[c]
             PROVE  ~Fits([page' EXCEPT ![c] = full[c]])
    BY DEF NoRoomFor
<1>1. DroppedColumns(full) \subseteq Column
      BY FittedColumn
<1>2. c \in DroppedColumns(full)
      BY FittedColumn
<1>3. [page' EXCEPT ![c] = full[c]] = Dropped(full, DroppedColumns(full) \ {c})
      BY <1>1, <1>2 DEF encode_fitting, Dropped
<1> QED BY <1>2, <1>3, PutBackIsTooLarge

(***************************************************************************)
(* Neither a build nor an insert gives up bounds that the page had room    *)
(* for: encode_fitting drops the longest first and stops when it fits.     *)
(***************************************************************************)
THEOREM NothingGivenUpInVain == Spec => GivesUpNoMoreThanNeeded
<1> DEFINE Needed ==
        /\ write_summary /\ page' # Failed => NoRoomFor(finish)
        /\ \A row \in Input :
               widen_on_insert(row) /\ page' # page => NoRoomFor(widen_summary(page, row))
<1>1. ASSUME IInv, PagePaired PROVE Needed
  <2>1. ASSUME write_summary, page' # Failed PROVE NoRoomFor(finish)
    <3>1. page' = encode_fitting(finish) /\ Fits(encode_fitting(finish))
          BY <2>1 DEF write_summary
    <3> QED BY <1>1, <2>1, <3>1, FinishIsPaired, FittedHasNoRoom
  <2>2. ASSUME NEW row \in Input, widen_on_insert(row), page' # page
        PROVE  NoRoomFor(widen_summary(page, row))
    <3>1. page \in Summary /\ row \in Row /\ Paired(page)
          BY <1>1, <2>2, BuildAssumption DEF widen_on_insert, PagePaired, Written
    <3>2. /\ page' = encode_fitting(widen_summary(page, row))
          /\ Fits(encode_fitting(widen_summary(page, row)))
          BY <2>2 DEF widen_on_insert
    <3> QED BY <3>1, <3>2, WidenSummary, WidenedIsPaired, FittedHasNoRoom
  <2> QED BY <2>1, <2>2
<1>2. Spec => [][Needed]_vars
  <2> HIDE DEF Needed
  <2>1. IInv /\ PagePaired /\ [Next]_vars => [Needed]_vars
        BY <1>1
  <2> QED BY <2>1, AlwaysIInv, AlwaysPagePaired, PTL DEF Spec
<1> QED BY <1>2 DEF GivesUpNoMoreThanNeeded

-----------------------------------------------------------------------------
(* Bytes: sequences put together and taken apart.                          *)

\* Both parts of a sequence that was put together.
LEMMA PartsOfConcat ==
    ASSUME NEW S, NEW s \in Seq(S), NEW t \in Seq(S)
    PROVE  /\ s \o t \in Seq(S) /\ Len(s \o t) = Len(s) + Len(t)
           /\ Len(s) \in Nat /\ Len(t) \in Nat
           /\ SubSeq(s \o t, 1, Len(s)) = s
           /\ SubSeq(s \o t, Len(s) + 1, Len(s \o t)) = t
<1> DEFINE both == s \o t
<1>1. /\ both \in Seq(S) /\ Len(both) = Len(s) + Len(t)
      /\ \A i \in 1 .. Len(s) + Len(t) : both[i] = IF i <= Len(s) THEN s[i] ELSE t[i - Len(s)]
      BY ConcatProperties
<1>2. /\ Len(s) \in Nat /\ Len(t) \in Nat
      /\ \A i \in 1 .. Len(s) : s[i] \in S
      /\ \A i \in 1 .. Len(t) : t[i] \in S
      BY LenProperties, ElementOfSeq
<1> HIDE DEF both
<1>3. SubSeq(both, 1, Len(s)) = s
  <2>1. \A i \in 1 .. Len(s) : both[i] = s[i]
        BY <1>1, <1>2
  <2>2. \A i \in 1 .. Len(s) : both[i] \in S
        BY <1>2, <2>1
  <2>3. /\ SubSeq(both, 1, Len(s)) \in Seq(S)
        /\ Len(SubSeq(both, 1, Len(s))) = Len(s)
        /\ \A i \in 1 .. Len(s) : SubSeq(both, 1, Len(s))[i] = both[i]
        BY <1>2, <2>2, SubSeqProperties, SMTT(30)
  <2> QED BY <1>2, <2>1, <2>3, SeqEqual
<1>4. SubSeq(both, Len(s) + 1, Len(both)) = t
  <2>1. \A i \in 1 .. Len(t) : both[Len(s) + i] = t[i]
        BY <1>1, <1>2
  <2>2. \A i \in Len(s) + 1 .. Len(both) : both[i] \in S
        BY <1>1, <1>2
  <2> DEFINE sub == SubSeq(both, Len(s) + 1, Len(both))
  <2>3. /\ sub \in Seq(S)
        /\ Len(sub) = IF Len(s) + 1 <= Len(both) THEN Len(both) - (Len(s) + 1) + 1 ELSE 0
        /\ \A i \in 1 .. Len(both) - (Len(s) + 1) + 1 : sub[i] = both[Len(s) + 1 + i - 1]
    <3>1. Len(s) + 1 \in Int /\ Len(both) \in Int
          BY <1>1, <1>2
    <3> QED BY <2>2, <3>1, SubSeqProperties
  <2> HIDE DEF sub
  <2>4. Len(both) - (Len(s) + 1) + 1 = Len(t)
        BY <1>1, <1>2
  <2>5. Len(sub) = Len(t)
        BY <1>1, <1>2, <2>3, <2>4
  <2>6. ASSUME NEW i \in 1 .. Len(t) PROVE sub[i] = t[i]
    <3>1. sub[i] = both[Len(s) + 1 + i - 1]
          BY <2>3, <2>4
    <3>2. Len(s) + 1 + i - 1 = Len(s) + i
          BY <1>2
    <3> QED BY <2>1, <3>1, <3>2
  <2>7. sub = t
        BY <2>3, <2>5, <2>6, SeqEqual
  <2> QED BY <2>7 DEF sub
<1> QED BY <1>1, <1>2, <1>3, <1>4 DEF both

-----------------------------------------------------------------------------
(* Each put_ function is undone by its reader, whatever follows its bytes. *)

\* Two bytes written together are one after the other.
LEMMA PairIsConcat ==
    ASSUME NEW S, NEW x \in S, NEW y \in S
    PROVE  <<x, y>> = <<x>> \o <<y>>
<1>1. /\ <<x>> \in Seq(S) /\ <<y>> \in Seq(S) /\ <<x, y>> \in Seq(S)
      /\ Len(<<x>>) = 1 /\ Len(<<y>>) = 1 /\ Len(<<x, y>>) = 2
      OBVIOUS
<1>2. Len(<<x>> \o <<y>>) = 2 /\ <<x>> \o <<y>> \in Seq(S)
      BY <1>1, ConcatProperties
<1>3. (<<x>> \o <<y>>)[1] = x /\ (<<x>> \o <<y>>)[2] = y
      BY <1>1, ConcatProperties
<1>4. <<x, y>>[1] = x /\ <<x, y>>[2] = y /\ \A i \in 1 .. 2 : i = 1 \/ i = 2
      OBVIOUS
<1> QED BY <1>1, <1>2, <1>3, <1>4, SeqEqual

\* put_u8, and u8 of the Reader.
LEMMA ByteRead ==
    ASSUME NEW b \in Byte, NEW s \in Seq(Byte)
    PROVE  <<b>> \in Seq(Byte) /\ Len(<<b>>) = 1 /\ u8_at(<<b>> \o s) = Read(b, s)
<1>1. <<b>> \in Seq(Byte) /\ Len(<<b>>) = 1
      OBVIOUS
<1>2. /\ <<b>> \o s \in Seq(Byte) /\ Len(<<b>> \o s) = 1 + Len(s) /\ Len(s) \in Nat
      /\ SubSeq(<<b>> \o s, 2, Len(<<b>> \o s)) = s
      BY <1>1, PartsOfConcat
<1>3. (<<b>> \o s)[1] = b
      BY <1>1, <1>2, ConcatProperties
<1>4. <<b>> \o s # <<>>
      BY <1>2
<1>5. Tail(<<b>> \o s) = s
      BY <1>2, <1>4, TailIsSubSeq
<1> QED BY <1>1, <1>3, <1>4, <1>5 DEF u8_at

\* The two bytes of a number are its digits.
LEMMA DigitsOf ==
    ASSUME NEW n \in 0 .. Radix * Radix - 1
    PROVE  /\ n % Radix \in Byte /\ (n \div Radix) % Radix \in Byte
           /\ (n % Radix) + Radix * ((n \div Radix) % Radix) = n
<1> DEFINE q == n \div Radix
           r == n % Radix
<1>1. Radix \in Nat /\ Radix > 7
      BY FormatAssumption
<1>2. n \in Nat /\ n < Radix * Radix
      BY <1>1
<1>3. r \in 0 .. Radix - 1 /\ q \in Nat /\ n = Radix * q + r
      BY <1>1, <1>2
<1> HIDE DEF q, r
<1>4. q < Radix
  <2> SUFFICES ASSUME q >= Radix PROVE FALSE
      BY <1>1, <1>3
  <2>1. Radix * q >= Radix * Radix
        BY <1>1, <1>3
  <2> QED BY <1>1, <1>2, <1>3, <2>1
<1>5. q % Radix = q
      BY <1>1, <1>3, <1>4
<1> QED BY <1>1, <1>3, <1>4, <1>5 DEF q, r, Byte

\* A number takes two bytes.
LEMMA NumberSize ==
    ASSUME NEW n \in Nat
    PROVE  u16(n) \in Seq(Byte) /\ Len(u16(n)) = 2
<1> DEFINE low == n % Radix
           high == (n \div Radix) % Radix
<1>1. low \in Byte /\ high \in Byte
      BY FormatAssumption DEF Byte
<1>2. u16(n) = <<low, high>>
      BY DEF u16
<1> HIDE DEF low, high
<1> QED BY <1>1, <1>2

\* put_u16, and u16 of the Reader.
LEMMA NumberRead ==
    ASSUME NEW n \in 0 .. Radix * Radix - 1, NEW s \in Seq(Byte)
    PROVE  u16_at(u16(n) \o s) = Read(n, s)
<1> DEFINE low == n % Radix
           high == (n \div Radix) % Radix
<1>1. low \in Byte /\ high \in Byte /\ low + Radix * high = n
      BY DigitsOf
<1>2. u16(n) = <<low, high>>
      BY DEF u16
<1> HIDE DEF low, high
<1>3. <<low, high>> \in Seq(Byte) /\ Len(<<low, high>>) = 2
      BY <1>1
<1> DEFINE buf == <<low, high>> \o s
<1>4. /\ Len(buf) = 2 + Len(s) /\ Len(s) \in Nat /\ SubSeq(buf, 3, Len(buf)) = s
      BY <1>3, PartsOfConcat
<1>5. buf[1] = low /\ buf[2] = high
      BY <1>3, <1>4, ConcatProperties
<1> HIDE DEF buf
<1>6. u16_at(buf) = Read(n, s)
  <2>1. ~(Len(buf) < 2)
        BY <1>4
  <2>2. buf[1] + Radix * buf[2] = n
        BY <1>1, <1>5
  <2> QED BY <1>4, <2>1, <2>2 DEF u16_at
<1> QED BY <1>2, <1>6 DEF buf

\* A string takes two bytes more than it has.
LEMMA StringSize ==
    ASSUME NEW t \in Seq(Byte)
    PROVE  put_str(t) \in Seq(Byte) /\ Len(put_str(t)) = Len(t) + 2
<1> DEFINE size == u16(Len(t))
<1>1. Len(t) \in Nat /\ size \in Seq(Byte) /\ Len(size) = 2
      BY LenProperties, NumberSize
<1>2. put_str(t) = size \o t
      BY DEF put_str
<1> HIDE DEF size
<1>3. size \o t \in Seq(Byte) /\ Len(size \o t) = Len(size) + Len(t)
      BY <1>1, PartsOfConcat
<1> QED BY <1>1, <1>2, <1>3

\* put_str, and str of the Reader, as long as two bytes can tell the length.
LEMMA StringRead ==
    ASSUME NEW t \in Seq(Byte), Len(t) < Radix * Radix, NEW s \in Seq(Byte)
    PROVE  str_at(put_str(t) \o s) = Read(t, s)
<1>1. Len(t) \in 0 .. Radix * Radix - 1
      BY LenProperties, FormatAssumption
<1> DEFINE size == u16(Len(t))
           rest == t \o s
           len == u16_at(put_str(t) \o s)
<1>2. size \in Seq(Byte)
      BY <1>1, NumberSize
<1>3. /\ rest \in Seq(Byte) /\ Len(rest) = Len(t) + Len(s) /\ Len(s) \in Nat
      /\ SubSeq(rest, 1, Len(t)) = t /\ SubSeq(rest, Len(t) + 1, Len(rest)) = s
      BY PartsOfConcat
<1>4. put_str(t) \o s = size \o rest
  <2>1. put_str(t) = size \o t
        BY DEF put_str
  <2> HIDE DEF size
  <2> QED BY <1>2, <2>1, ConcatAssociative
<1> HIDE DEF rest
<1>5. len = Read(Len(t), rest)
      BY <1>1, <1>3, <1>4, NumberRead
<1>6. len.ok = TRUE /\ len.val = Len(t) /\ len.rest = rest
      BY <1>5 DEF Read
<1>7. ~(Len(rest) < Len(t))
      BY <1>1, <1>3
<1>8. str_at(put_str(t) \o s)
          = IF ~len.ok \/ Len(len.rest) < len.val THEN PastEnd
            ELSE Read(SubSeq(len.rest, 1, len.val),
                      SubSeq(len.rest, len.val + 1, Len(len.rest)))
      BY DEF str_at
<1> HIDE DEF len
<1>9. ~(~len.ok \/ Len(len.rest) < len.val)
      BY <1>6, <1>7
<1> QED BY <1>3, <1>6, <1>8, <1>9

\* What put_opt_str takes.
OptLen(t) == IF t = None THEN 1 ELSE Len(t) + 3

\* What put_opt_str writes is a string of bytes.
LEMMA OptionSize ==
    ASSUME NEW t \in Seq(Byte) \cup {None}
    PROVE  put_opt_str(t) \in Seq(Byte) /\ Len(put_opt_str(t)) = OptLen(t) /\ OptLen(t) \in Nat
<1>1. 0 \in Byte /\ 1 \in Byte /\ <<>> \in Seq(Byte)
      BY FormatAssumption DEF Byte
<1>2. /\ <<0>> \in Seq(Byte) /\ Len(<<0>>) = 1
      /\ <<1>> \in Seq(Byte) /\ Len(<<1>>) = 1
      BY <1>1, ByteRead
<1>3. CASE t = None
      BY <1>2, <1>3 DEF put_opt_str, OptLen
<1>4. CASE t # None
  <2>1. t \in Seq(Byte) /\ put_str(t) \in Seq(Byte) /\ Len(put_str(t)) = Len(t) + 2
        BY <1>4, StringSize
  <2>2. Len(t) \in Nat /\ OptLen(t) = Len(t) + 3
        BY <1>4, <2>1, LenProperties DEF OptLen
  <2>3. put_opt_str(t) = <<1>> \o put_str(t)
        BY <1>4 DEF put_opt_str
  <2>4. /\ put_opt_str(t) \in Seq(Byte) /\ Len(put_opt_str(t)) = 1 + Len(put_str(t))
        BY <1>2, <2>1, <2>3, ConcatProperties
  <2> QED BY <2>1, <2>2, <2>4
<1> QED BY <1>3, <1>4

\* put_opt_str, and opt_str of the Reader.
LEMMA OptionRead ==
    ASSUME NEW t \in Seq(Byte) \cup {None}, t # None => Len(t) < Radix * Radix,
           NEW s \in Seq(Byte)
    PROVE  opt_str_at(put_opt_str(t) \o s) = Read(t, s)
<1>1. 0 \in Byte /\ 1 \in Byte
      BY FormatAssumption DEF Byte
<1>2. CASE t = None
  <2> DEFINE tag == u8_at(<<0>> \o s)
  <2>1. put_opt_str(t) = <<0>>
        BY <1>2 DEF put_opt_str
  <2>2. tag = Read(0, s)
        BY <1>1, ByteRead
  <2>3. tag.ok = TRUE /\ tag.val = 0 /\ tag.rest = s
        BY <2>2 DEF Read
  <2>4. opt_str_at(<<0>> \o s) = Read(None, s)
        BY <2>3 DEF opt_str_at
  <2> QED BY <1>2, <2>1, <2>4
<1>3. CASE t # None
  <2>1. t \in Seq(Byte) /\ put_str(t) \in Seq(Byte) /\ str_at(put_str(t) \o s) = Read(t, s)
        BY <1>3, StringSize, StringRead
  <2>2. put_opt_str(t) = <<1>> \o put_str(t)
        BY <1>3 DEF put_opt_str
  <2>3. <<1>> \in Seq(Byte)
        BY <1>1, ByteRead
  <2>4. put_opt_str(t) \o s = <<1>> \o (put_str(t) \o s)
        BY <2>1, <2>2, <2>3, ConcatAssociative
  <2>5. u8_at(put_opt_str(t) \o s) = Read(1, put_str(t) \o s)
        BY <1>1, <2>1, <2>4, ByteRead, ConcatProperties
  <2> QED BY <2>1, <2>5 DEF opt_str_at, Read
<1> QED BY <1>2, <1>3

\* The bit of the overlap byte.
LEMMA FlagRead ==
    ASSUME NEW set \in BOOLEAN
    PROVE  Flag(set, 1) \in 0 .. 1 /\ (Flag(set, 1) # 0 <=> set)
<1>1. CASE set = TRUE
      BY <1>1 DEF Flag
<1>2. CASE set = FALSE
      BY <1>2 DEF Flag
<1> QED BY <1>1, <1>2

\* What Flags put together, ColumnAt takes apart.
LEMMA FlagsRead ==
    ASSUME NEW h \in BOOLEAN, NEW a \in BOOLEAN, NEW u \in BOOLEAN,
           NEW n, n = Flag(h, 1) + Flag(a, 2) + Flag(u, 4)
    PROVE  /\ n \in 0 .. 7
           /\ ((n \div 1) % 2 = 1 <=> h)
           /\ ((n \div 2) % 2 = 1 <=> a)
           /\ ((n \div 4) % 2 = 1 <=> u)
<1>1. /\ (h = TRUE \/ h = FALSE) /\ (a = TRUE \/ a = FALSE) /\ (u = TRUE \/ u = FALSE)
      OBVIOUS
<1>2. CASE h = FALSE /\ a = FALSE /\ u = FALSE
  <2>1. n = 0
        BY <1>2 DEF Flag
  <2>2. /\ (n \div 1) % 2 # 1 /\ (n \div 2) % 2 # 1 /\ (n \div 4) % 2 # 1
        /\ n \in 0 .. 7
        BY <2>1
  <2> QED BY <1>2, <2>2, Zenon
<1>3. CASE h = TRUE /\ a = FALSE /\ u = FALSE
  <2>1. n = 1
        BY <1>3 DEF Flag
  <2>2. /\ (n \div 1) % 2 = 1 /\ (n \div 2) % 2 # 1 /\ (n \div 4) % 2 # 1
        /\ n \in 0 .. 7
        BY <2>1
  <2> QED BY <1>3, <2>2, Zenon
<1>4. CASE h = FALSE /\ a = TRUE /\ u = FALSE
  <2>1. n = 2
        BY <1>4 DEF Flag
  <2>2. /\ (n \div 1) % 2 # 1 /\ (n \div 2) % 2 = 1 /\ (n \div 4) % 2 # 1
        /\ n \in 0 .. 7
        BY <2>1
  <2> QED BY <1>4, <2>2, Zenon
<1>5. CASE h = TRUE /\ a = TRUE /\ u = FALSE
  <2>1. n = 3
        BY <1>5 DEF Flag
  <2>2. /\ (n \div 1) % 2 = 1 /\ (n \div 2) % 2 = 1 /\ (n \div 4) % 2 # 1
        /\ n \in 0 .. 7
        BY <2>1
  <2> QED BY <1>5, <2>2, Zenon
<1>6. CASE h = FALSE /\ a = FALSE /\ u = TRUE
  <2>1. n = 4
        BY <1>6 DEF Flag
  <2>2. /\ (n \div 1) % 2 # 1 /\ (n \div 2) % 2 # 1 /\ (n \div 4) % 2 = 1
        /\ n \in 0 .. 7
        BY <2>1
  <2> QED BY <1>6, <2>2, Zenon
<1>7. CASE h = TRUE /\ a = FALSE /\ u = TRUE
  <2>1. n = 5
        BY <1>7 DEF Flag
  <2>2. /\ (n \div 1) % 2 = 1 /\ (n \div 2) % 2 # 1 /\ (n \div 4) % 2 = 1
        /\ n \in 0 .. 7
        BY <2>1
  <2> QED BY <1>7, <2>2, Zenon
<1>8. CASE h = FALSE /\ a = TRUE /\ u = TRUE
  <2>1. n = 6
        BY <1>8 DEF Flag
  <2>2. /\ (n \div 1) % 2 # 1 /\ (n \div 2) % 2 = 1 /\ (n \div 4) % 2 = 1
        /\ n \in 0 .. 7
        BY <2>1
  <2> QED BY <1>8, <2>2, Zenon
<1>9. CASE h = TRUE /\ a = TRUE /\ u = TRUE
  <2>1. n = 7
        BY <1>9 DEF Flag
  <2>2. /\ (n \div 1) % 2 = 1 /\ (n \div 2) % 2 = 1 /\ (n \div 4) % 2 = 1
        /\ n \in 0 .. 7
        BY <2>1
  <2> QED BY <1>9, <2>2, Zenon
<1> QED BY <1>1, <1>2, <1>3, <1>4, <1>5, <1>6, <1>7, <1>8, <1>9

\* A column whose bytes are being written, and the strings that u16 can measure.
PlainColumn ==
    [attnum : 0 .. Radix * Radix - 1, overlap : BOOLEAN, type_name : Seq(Byte),
     collation : 0 .. Radix * Radix - 1,
     min : Seq(Byte) \cup {None}, max : Seq(Byte) \cup {None},
     has_nulls : BOOLEAN, all_nulls : BOOLEAN, unbounded : BOOLEAN]

Measured(col) ==
    /\ Len(col.type_name) < Radix * Radix
    /\ col.min # None => Len(col.min) < Radix * Radix
    /\ col.max # None => Len(col.max) < Radix * Radix

Associates(x, y, z) == (x \o y) \o z = x \o (y \o z)

\* It does not matter which of three sequences are put together first.
LEMMA AlwaysAssociates ==
    ASSUME NEW S
    PROVE  \A x, y, z \in Seq(S) : Associates(x, y, z)
<1> TAKE x, y, z \in Seq(S)
<1> QED BY ConcatAssociative DEF Associates

AssociateRight(a, b, c, d, e, f, g) ==
    (a \o b \o c \o d \o e \o f) \o g = a \o (b \o (c \o (d \o (e \o (f \o g)))))

\* Nor which of seven.
LEMMA ConcatRight ==
    ASSUME NEW S, NEW a \in Seq(S), NEW b \in Seq(S), NEW c \in Seq(S), NEW d \in Seq(S),
           NEW e \in Seq(S), NEW f \in Seq(S), NEW g \in Seq(S)
    PROVE  AssociateRight(a, b, c, d, e, f, g)
<1>1. /\ a \o b \in Seq(S) /\ a \o b \o c \in Seq(S) /\ a \o b \o c \o d \in Seq(S)
      /\ a \o b \o c \o d \o e \in Seq(S)
      BY ConcatProperties, Zenon
<1>2. /\ f \o g \in Seq(S) /\ e \o (f \o g) \in Seq(S) /\ d \o (e \o (f \o g)) \in Seq(S)
      /\ c \o (d \o (e \o (f \o g))) \in Seq(S)
      BY ConcatProperties, Zenon
<1>3. Associates(a \o b \o c \o d \o e, f, g)
      BY <1>1, AlwaysAssociates, Zenon
<1>4. Associates(a \o b \o c \o d, e, f \o g)
      BY <1>1, <1>2, AlwaysAssociates, Zenon
<1>5. Associates(a \o b \o c, d, e \o (f \o g))
      BY <1>1, <1>2, AlwaysAssociates, Zenon
<1>6. Associates(a \o b, c, d \o (e \o (f \o g)))
      BY <1>1, <1>2, AlwaysAssociates, Zenon
<1>7. Associates(a, b, c \o (d \o (e \o (f \o g))))
      BY <1>2, AlwaysAssociates, Zenon
<1> QED BY <1>3, <1>4, <1>5, <1>6, <1>7 DEF Associates, AssociateRight

\* The parts that ColumnBytes puts together.
LEMMA ColumnParts ==
    ASSUME NEW col \in PlainColumn
    PROVE  /\ Flag(col.overlap, 1) \in Byte /\ (Flag(col.overlap, 1) # 0 <=> col.overlap)
           /\ Flags(col) \in Byte
           /\ ((Flags(col) \div 1) % 2 = 1 <=> col.has_nulls)
           /\ ((Flags(col) \div 2) % 2 = 1 <=> col.all_nulls)
           /\ ((Flags(col) \div 4) % 2 = 1 <=> col.unbounded)
           /\ u16(col.attnum) \in Seq(Byte) /\ Len(u16(col.attnum)) = 2
           /\ <<Flag(col.overlap, 1), Flags(col)>> \in Seq(Byte)
           /\ Len(<<Flag(col.overlap, 1), Flags(col)>>) = 2
           /\ u16(col.collation) \in Seq(Byte) /\ Len(u16(col.collation)) = 2
           /\ put_str(col.type_name) \in Seq(Byte)
           /\ Len(put_str(col.type_name)) = Len(col.type_name) + 2
           /\ put_opt_str(col.min) \in Seq(Byte) /\ Len(put_opt_str(col.min)) = OptLen(col.min)
           /\ put_opt_str(col.max) \in Seq(Byte) /\ Len(put_opt_str(col.max)) = OptLen(col.max)
<1> DEFINE o == Flag(col.overlap, 1)
           n == Flags(col)
           a == u16(col.attnum)
           b == <<o, n>>
           c == u16(col.collation)
           d == put_str(col.type_name)
           e == put_opt_str(col.min)
           f == put_opt_str(col.max)
<1>1. /\ col.attnum \in 0 .. Radix * Radix - 1 /\ col.collation \in 0 .. Radix * Radix - 1
      /\ col.overlap \in BOOLEAN /\ col.has_nulls \in BOOLEAN
      /\ col.all_nulls \in BOOLEAN /\ col.unbounded \in BOOLEAN
      /\ col.type_name \in Seq(Byte)
      /\ col.min \in Seq(Byte) \cup {None} /\ col.max \in Seq(Byte) \cup {None}
      BY DEF PlainColumn
<1>2. n = Flag(col.has_nulls, 1) + Flag(col.all_nulls, 2) + Flag(col.unbounded, 4)
      BY DEF Flags
<1>3. /\ n \in 0 .. 7
      /\ (n \div 1) % 2 = 1 <=> col.has_nulls
      /\ (n \div 2) % 2 = 1 <=> col.all_nulls
      /\ (n \div 4) % 2 = 1 <=> col.unbounded
  <2> DEFINE h == col.has_nulls
             an == col.all_nulls
             u == col.unbounded
  <2>1. h \in BOOLEAN /\ an \in BOOLEAN /\ u \in BOOLEAN
        BY <1>1
  <2>2. n = Flag(h, 1) + Flag(an, 2) + Flag(u, 4)
        BY <1>2
  <2> HIDE DEF n, h, an, u
  <2>3. /\ n \in 0 .. 7
        /\ (n \div 1) % 2 = 1 <=> h
        /\ (n \div 2) % 2 = 1 <=> an
        /\ (n \div 4) % 2 = 1 <=> u
        BY <2>1, <2>2, FlagsRead, Zenon
  <2> QED BY <2>3 DEF h, an, u
<1>4. o \in 0 .. 1 /\ (o # 0 <=> col.overlap)
      BY <1>1, FlagRead
<1>5. o \in Byte /\ n \in Byte
  <2> HIDE DEF n, o
  <2> QED BY <1>3, <1>4, FormatAssumption DEF Byte
<1>6. /\ a \in Seq(Byte) /\ Len(a) = 2 /\ c \in Seq(Byte) /\ Len(c) = 2
      /\ d \in Seq(Byte) /\ Len(d) = Len(col.type_name) + 2
      /\ e \in Seq(Byte) /\ Len(e) = OptLen(col.min)
      /\ f \in Seq(Byte) /\ Len(f) = OptLen(col.max)
  <2>1. a \in Seq(Byte) /\ Len(a) = 2 /\ c \in Seq(Byte) /\ Len(c) = 2
        BY <1>1, FormatAssumption, NumberSize
  <2>2. d \in Seq(Byte) /\ Len(d) = Len(col.type_name) + 2
        BY <1>1, StringSize
  <2>3. e \in Seq(Byte) /\ Len(e) = OptLen(col.min)
        BY <1>1, OptionSize
  <2>4. f \in Seq(Byte) /\ Len(f) = OptLen(col.max)
        BY <1>1, OptionSize
  <2> QED BY <2>1, <2>2, <2>3, <2>4
<1>7. b \in Seq(Byte) /\ Len(b) = 2
  <2> HIDE DEF n, o
  <2> QED BY <1>5
<1> QED BY <1>3, <1>4, <1>5, <1>6, <1>7, Zenon

\* How many bytes a column takes.
LEMMA ColumnSize ==
    ASSUME NEW col \in PlainColumn
    PROVE  /\ ColumnBytes(col) \in Seq(Byte)
           /\ Len(ColumnBytes(col)) = 8 + Len(col.type_name) + OptLen(col.min) + OptLen(col.max)
           /\ Len(col.type_name) \in Nat /\ OptLen(col.min) \in Nat /\ OptLen(col.max) \in Nat
<1> DEFINE o == Flag(col.overlap, 1)
           n == Flags(col)
           a == u16(col.attnum)
           b == <<o, n>>
           c == u16(col.collation)
           d == put_str(col.type_name)
           e == put_opt_str(col.min)
           f == put_opt_str(col.max)
<1>1. /\ col.type_name \in Seq(Byte)
      /\ col.min \in Seq(Byte) \cup {None} /\ col.max \in Seq(Byte) \cup {None}
      BY DEF PlainColumn
<1>2. /\ a \in Seq(Byte) /\ Len(a) = 2 /\ c \in Seq(Byte) /\ Len(c) = 2
      /\ d \in Seq(Byte) /\ Len(d) = Len(col.type_name) + 2
      /\ e \in Seq(Byte) /\ Len(e) = OptLen(col.min)
      /\ f \in Seq(Byte) /\ Len(f) = OptLen(col.max)
      BY ColumnParts, Zenon
<1>3. b \in Seq(Byte) /\ Len(b) = 2
      BY ColumnParts, Zenon
<1>4. ColumnBytes(col) = a \o b \o c \o d \o e \o f
      BY DEF ColumnBytes
<1>5. /\ ColumnBytes(col) \in Seq(Byte)
      /\ Len(ColumnBytes(col)) = Len(a) + Len(b) + Len(c) + Len(d) + Len(e) + Len(f)
  <2> HIDE DEF a, b, c, d, e, f
  <2>1. /\ a \o b \in Seq(Byte) /\ a \o b \o c \in Seq(Byte) /\ a \o b \o c \o d \in Seq(Byte)
        /\ a \o b \o c \o d \o e \in Seq(Byte) /\ a \o b \o c \o d \o e \o f \in Seq(Byte)
        BY <1>2, <1>3, ConcatProperties, Zenon
  <2>2. Len(a \o b) = Len(a) + Len(b)
        BY <1>2, <1>3, ConcatProperties, Zenon
  <2>3. Len(a \o b \o c) = Len(a \o b) + Len(c)
        BY <1>2, <1>3, <2>1, ConcatProperties, Zenon
  <2>4. Len(a \o b \o c \o d) = Len(a \o b \o c) + Len(d)
        BY <1>2, <1>3, <2>1, ConcatProperties, Zenon
  <2>5. Len(a \o b \o c \o d \o e) = Len(a \o b \o c \o d) + Len(e)
        BY <1>2, <1>3, <2>1, ConcatProperties, Zenon
  <2>6. Len(a \o b \o c \o d \o e \o f) = Len(a \o b \o c \o d \o e) + Len(f)
        BY <1>2, <1>3, <2>1, ConcatProperties, Zenon
  <2> QED BY <1>4, <2>1, <2>2, <2>3, <2>4, <2>5, <2>6, Zenon
<1>6. Len(ColumnBytes(col)) = 8 + Len(col.type_name) + OptLen(col.min) + OptLen(col.max)
  <2>1. Len(col.type_name) \in Nat /\ OptLen(col.min) \in Nat /\ OptLen(col.max) \in Nat
        BY <1>1, LenProperties, OptionSize
  <2> HIDE DEF a, b, c, d, e, f
  <2> QED BY <1>2, <1>3, <1>5, <2>1
<1>7. Len(col.type_name) \in Nat /\ OptLen(col.min) \in Nat /\ OptLen(col.max) \in Nat
       BY <1>1, LenProperties, OptionSize
<1> QED BY <1>5, <1>6, <1>7

(***************************************************************************)
(* A column is read back from the bytes that were written for it, whatever *)
(* follows them.                                                           *)
(***************************************************************************)
LEMMA ColumnRead ==
    ASSUME NEW col \in PlainColumn, Measured(col), NEW s \in Seq(Byte)
    PROVE  ColumnAt(ColumnBytes(col) \o s) = Read(col, s)
<1> DEFINE o == Flag(col.overlap, 1)
           n == Flags(col)
           a == u16(col.attnum)
           b == <<o, n>>
           c == u16(col.collation)
           d == put_str(col.type_name)
           e == put_opt_str(col.min)
           f == put_opt_str(col.max)
           s3 == c \o (d \o (e \o (f \o s)))
<1>1. /\ col.attnum \in 0 .. Radix * Radix - 1 /\ col.collation \in 0 .. Radix * Radix - 1
      /\ col.overlap \in BOOLEAN /\ col.has_nulls \in BOOLEAN
      /\ col.all_nulls \in BOOLEAN /\ col.unbounded \in BOOLEAN
      /\ col.type_name \in Seq(Byte) /\ Len(col.type_name) < Radix * Radix
      /\ col.min \in Seq(Byte) \cup {None} /\ (col.min # None => Len(col.min) < Radix * Radix)
      /\ col.max \in Seq(Byte) \cup {None} /\ (col.max # None => Len(col.max) < Radix * Radix)
      BY DEF PlainColumn, Measured
<1>2. /\ (n \div 1) % 2 = 1 <=> col.has_nulls
      /\ (n \div 2) % 2 = 1 <=> col.all_nulls
      /\ (n \div 4) % 2 = 1 <=> col.unbounded
      BY ColumnParts
<1>3. o # 0 <=> col.overlap
      BY ColumnParts
<1>4. o \in Byte /\ n \in Byte
      BY ColumnParts, Zenon
<1>5. /\ a \in Seq(Byte) /\ Len(a) = 2 /\ c \in Seq(Byte) /\ Len(c) = 2
      /\ d \in Seq(Byte) /\ Len(d) = Len(col.type_name) + 2
      /\ e \in Seq(Byte) /\ Len(e) = OptLen(col.min)
      /\ f \in Seq(Byte) /\ Len(f) = OptLen(col.max)
      BY ColumnParts, Zenon
<1>6. b \in Seq(Byte) /\ Len(b) = 2
      BY ColumnParts, Zenon
<1>7. ColumnBytes(col) = a \o b \o c \o d \o e \o f
      BY DEF ColumnBytes
<1>8. ColumnBytes(col) \o s = a \o (<<o>> \o (<<n>> \o s3))
  <2>1. ColumnBytes(col) \o s = a \o (b \o s3)
    <3> HIDE DEF a, b, c, d, e, f
    <3>1. AssociateRight(a, b, c, d, e, f, s)
          BY <1>5, <1>6, ConcatRight, Zenon
    <3> QED BY <1>7, <3>1, Zenon DEF AssociateRight
  <2>2. s3 \in Seq(Byte)
    <3> HIDE DEF a, b, c, d, e, f
    <3> QED BY <1>5, ConcatProperties, Zenon
  <2>3. b \o s3 = <<o>> \o (<<n>> \o s3)
    <3> HIDE DEF n, o, s3
    <3>1. <<o>> \in Seq(Byte) /\ <<n>> \in Seq(Byte)
          BY <1>4, ByteRead
    <3>2. b = <<o>> \o <<n>>
          BY <1>4, PairIsConcat
    <3>3. Associates(<<o>>, <<n>>, s3)
          BY <2>2, <3>1, AlwaysAssociates, Zenon
    <3> QED BY <3>2, <3>3, Zenon DEF Associates
  <2> QED BY <2>1, <2>3
<1> DEFINE s6 == f \o s
           s5 == e \o s6
           s4 == d \o s5
           s2 == <<n>> \o s3
           s1 == <<o>> \o s2
           buf == a \o s1
<1>9. /\ s6 \in Seq(Byte) /\ s5 \in Seq(Byte) /\ s4 \in Seq(Byte) /\ s3 \in Seq(Byte)
       /\ s2 \in Seq(Byte) /\ s1 \in Seq(Byte)
  <2>1. <<o>> \in Seq(Byte) /\ <<n>> \in Seq(Byte)
        BY <1>4, ByteRead
  <2> HIDE DEF o, n, a, b, c, d, e, f
  <2>2. s6 \in Seq(Byte)
        BY <1>5, ConcatProperties, Zenon
  <2>3. s5 \in Seq(Byte)
    <3> HIDE DEF s6
    <3> QED BY <1>5, <2>2, ConcatProperties, Zenon
  <2>4. s4 \in Seq(Byte)
    <3> HIDE DEF s5
    <3> QED BY <1>5, <2>3, ConcatProperties, Zenon
  <2>5. c \o s4 \in Seq(Byte)
    <3> HIDE DEF s4
    <3> QED BY <1>5, <2>4, ConcatProperties, Zenon
  <2>6. s3 \in Seq(Byte)
        BY <2>5
  <2>7. s2 \in Seq(Byte)
    <3> HIDE DEF s3
    <3> QED BY <2>1, <2>6, ConcatProperties, Zenon
  <2>8. s1 \in Seq(Byte)
    <3> HIDE DEF s2
    <3> QED BY <2>1, <2>7, ConcatProperties, Zenon
  <2> QED BY <2>2, <2>3, <2>4, <2>6, <2>7, <2>8
<1>10. s3 = c \o s4
       OBVIOUS
<1>11. u16_at(buf) = Read(col.attnum, s1)
  <2> HIDE DEF s1
  <2> QED BY <1>1, <1>9, NumberRead
<1>12. u8_at(s1) = Read(o, s2)
  <2> HIDE DEF s2, o
  <2> QED BY <1>4, <1>9, ByteRead
<1>13. u8_at(s2) = Read(n, s3)
  <2> HIDE DEF s3, n
  <2> QED BY <1>4, <1>9, ByteRead
<1>14. u16_at(s3) = Read(col.collation, s4)
  <2> HIDE DEF s3, s4
  <2> QED BY <1>1, <1>9, <1>10, NumberRead
<1>15. str_at(s4) = Read(col.type_name, s5)
  <2> HIDE DEF s5
  <2> QED BY <1>1, <1>9, StringRead
<1>16. opt_str_at(s5) = Read(col.min, s6)
  <2> HIDE DEF s6
  <2> QED BY <1>1, <1>9, OptionRead
<1>17. opt_str_at(s6) = Read(col.max, s)
       BY <1>1, OptionRead
<1>18. ColumnAt(buf) = Read(col, s)
  <2> HIDE DEF s1, s2, s3, s4, s5, s6, buf
  <2> DEFINE read == [attnum |-> col.attnum, overlap |-> o # 0,
                      has_nulls |-> (n \div 1) % 2 = 1, all_nulls |-> (n \div 2) % 2 = 1,
                      unbounded |-> (n \div 4) % 2 = 1,
                      collation |-> col.collation, type_name |-> col.type_name,
                      min |-> col.min, max |-> col.max]
  <2>1. \A val, rest : /\ Read(val, rest).ok = TRUE /\ Read(val, rest).val = val
                       /\ Read(val, rest).rest = rest
        BY DEF Read
  <2>2. ColumnAt(buf) = Read(read, s)
    <3> DEFINE attnum == u16_at(buf)
               overlap == u8_at(attnum.rest)
               flags == u8_at(overlap.rest)
               collation == u16_at(flags.rest)
               type_name == str_at(collation.rest)
               min == opt_str_at(type_name.rest)
               max == opt_str_at(min.rest)
    <3>1. ColumnAt(buf) =
              IF ~max.ok THEN PastEnd
              ELSE Read([attnum |-> attnum.val, overlap |-> overlap.val # 0,
                         has_nulls |-> (flags.val \div 1) % 2 = 1,
                         all_nulls |-> (flags.val \div 2) % 2 = 1,
                         unbounded |-> (flags.val \div 4) % 2 = 1,
                         collation |-> collation.val, type_name |-> type_name.val,
                         min |-> min.val, max |-> max.val],
                        max.rest)
          BY DEF ColumnAt
    <3>2. attnum.val = col.attnum /\ attnum.rest = s1
          BY <1>11, <2>1
    <3> HIDE DEF attnum, o, n
    <3>3. overlap.val = o /\ overlap.rest = s2
          BY <1>12, <2>1, <3>2
    <3> HIDE DEF overlap
    <3>4. flags.val = n /\ flags.rest = s3
          BY <1>13, <2>1, <3>3
    <3> HIDE DEF flags
    <3>5. collation.val = col.collation /\ collation.rest = s4
          BY <1>14, <2>1, <3>4
    <3> HIDE DEF collation
    <3>6. type_name.val = col.type_name /\ type_name.rest = s5
          BY <1>15, <2>1, <3>5
    <3> HIDE DEF type_name
    <3>7. min.val = col.min /\ min.rest = s6
          BY <1>16, <2>1, <3>6
    <3> HIDE DEF min
    <3>8. max.ok = TRUE /\ max.val = col.max /\ max.rest = s
          BY <1>17, <2>1, <3>7
    <3> HIDE DEF max
    <3> QED BY <3>1, <3>2, <3>3, <3>4, <3>5, <3>6, <3>7, <3>8, Zenon
  <2>3. read = col
    <3> HIDE DEF o, n
    <3>1. /\ (o # 0) = col.overlap /\ ((n \div 1) % 2 = 1) = col.has_nulls
          /\ ((n \div 2) % 2 = 1) = col.all_nulls /\ ((n \div 4) % 2 = 1) = col.unbounded
          BY <1>1, <1>2, <1>3, Zenon
    <3>2. col = [attnum |-> col.attnum, overlap |-> col.overlap,
                 has_nulls |-> col.has_nulls, all_nulls |-> col.all_nulls,
                 unbounded |-> col.unbounded,
                 collation |-> col.collation, type_name |-> col.type_name,
                 min |-> col.min, max |-> col.max]
          BY DEF PlainColumn
    <3> QED BY <3>1, <3>2, Zenon
  <2> QED BY <2>2, <2>3
<1>19. ColumnBytes(col) \o s = buf
       BY <1>8
<1> QED BY <1>18, <1>19

-----------------------------------------------------------------------------
(* Columns one after the other.                                            *)

\* g puts together the first of seqs, and then one after the other.
Flattens(g, seqs, n) ==
    g = [i \in 1 .. n |-> IF i = 1 THEN seqs[i] ELSE g[i - 1] \o seqs[i]]

\* There is such a function, whatever the sequences.
LEMMA FlattenExists ==
    ASSUME NEW n \in Nat, NEW seqs
    PROVE  \E g : Flattens(g, seqs, n)
<1> DEFINE Q == {k \in Nat : \E g : Flattens(g, seqs, k)}
<1>1. 0 \in Q
  <2> DEFINE g == [i \in 1 .. 0 |-> 0]
  <2>1. g = [i \in 1 .. 0 |-> IF i = 1 THEN seqs[i] ELSE g[i - 1] \o seqs[i]]
        OBVIOUS
  <2> QED BY <2>1 DEF Flattens
<1>2. ASSUME NEW k \in 0 .. n, k \in Q
      PROVE  k + 1 \in Q
  <2>1. PICK g : Flattens(g, seqs, k)
        BY <1>2
  <2> DEFINE Step(f, i) == IF i = 1 THEN seqs[i] ELSE f[i - 1] \o seqs[i]
             h == [i \in 1 .. k + 1 |-> Step(g, i)]
  <2>2. ASSUME NEW i \in 1 .. k PROVE h[i] = g[i]
    <3>1. \A j \in 1 .. k : g[j] = IF j = 1 THEN seqs[j] ELSE g[j - 1] \o seqs[j]
          BY <2>1 DEF Flattens
    <3>2. h[i] = Step(g, i)
          OBVIOUS
    <3> QED BY <3>1, <3>2
  <2>3. ASSUME NEW i \in 1 .. k + 1 PROVE Step(g, i) = Step(h, i)
    <3>1. i = 1 \/ i - 1 \in 1 .. k
          OBVIOUS
    <3>2. i = 1 \/ h[i - 1] = g[i - 1]
          BY <2>2, <3>1
    <3> HIDE DEF h
    <3> QED BY <3>2
  <2>4. h = [i \in 1 .. k + 1 |-> Step(h, i)]
    <3>1. \A i \in 1 .. k + 1 : h[i] = Step(g, i)
          OBVIOUS
    <3>2. \A i \in 1 .. k + 1 : h[i] = Step(h, i)
      <4> HIDE DEF h, Step
      <4> QED BY <2>3, <3>1
    <3>3. h = [i \in 1 .. k + 1 |-> h[i]]
          OBVIOUS
    <3> HIDE DEF h
    <3> QED BY <3>2, <3>3
  <2>5. Flattens(h, seqs, k + 1)
        BY <2>4 DEF Flattens
  <2> QED BY <2>5
<1>3. 0 .. n \subseteq Q
  <2> HIDE DEF Q
  <2> QED BY <1>1, <1>2, CountUp
<1> QED BY <1>3

\* flat[i] is the first i of seqs put together.
PutTogether(flat, S, seqs, n) ==
    /\ flat \in [0 .. n -> Seq(S)]
    /\ flat[0] = <<>> /\ flat[n] = FlattenSeq(seqs)
    /\ \A i \in 1 .. n : flat[i] = flat[i - 1] \o seqs[i]

(***************************************************************************)
(* FlattenSeq puts its sequences together one by one.                      *)
(***************************************************************************)
LEMMA FlattenSteps ==
    ASSUME NEW S, NEW n \in Nat, NEW seqs \in [1 .. n -> Seq(S)]
    PROVE  \E flat : PutTogether(flat, S, seqs, n)
<1>1. Len(seqs) = n
      OBVIOUS
<1>2. CASE n = 0
  <2>1. seqs = <<>>
        BY <1>2
  <2>2. FlattenSeq(seqs) = <<>>
        BY <1>1, <1>2, <2>1 DEF FlattenSeq
  <2> DEFINE flat == [i \in 0 .. n |-> <<>>]
  <2>3. flat \in [0 .. n -> Seq(S)] /\ flat[0] = <<>> /\ flat[n] = <<>>
        OBVIOUS
  <2>4. \A i \in 1 .. n : FALSE
        BY <1>2
  <2> HIDE DEF flat
  <2> QED BY <2>2, <2>3, <2>4 DEF PutTogether
<1>3. CASE n # 0
  <2> DEFINE g == CHOOSE g : Flattens(g, seqs, n)
  <2>1. FlattenSeq(seqs) = g[n]
        BY <1>1, <1>3 DEF FlattenSeq, Flattens
  <2>2. Flattens(g, seqs, n)
        BY FlattenExists
  <2> HIDE DEF g
  <2>3. \A i \in 1 .. n : g[i] = IF i = 1 THEN seqs[i] ELSE g[i - 1] \o seqs[i]
        BY <2>2 DEF Flattens
  <2> DEFINE flat == [i \in 0 .. n |-> IF i = 0 THEN <<>> ELSE g[i]]
             Q == {k \in Nat : k <= n => flat[k] \in Seq(S)}
  <2>4. flat[0] = <<>> /\ flat[n] = g[n] /\ DOMAIN flat = 0 .. n
        BY <1>3
  <2>5. \A i \in 1 .. n : seqs[i] \in Seq(S)
        OBVIOUS
  <2>6. ASSUME NEW i \in 1 .. n PROVE flat[i] = IF i = 1 THEN seqs[i] ELSE flat[i - 1] \o seqs[i]
    <3>1. flat[i] = g[i] /\ (i # 1 => flat[i - 1] = g[i - 1])
          OBVIOUS
    <3> HIDE DEF flat
    <3> QED BY <2>3, <3>1
  <2>7. <<>> \in Seq(S)
        OBVIOUS
  <2>71. flat = [i \in 0 .. n |-> flat[i]]
        OBVIOUS
  <2> HIDE DEF flat
  <2>8. ASSUME NEW i \in 1 .. n PROVE flat[i] = flat[i - 1] \o seqs[i]
    <3>1. CASE i = 1
      <4>1. flat[i] = seqs[i] /\ flat[i - 1] = <<>> /\ seqs[i] \in Seq(S)
            BY <2>4, <2>5, <2>6, <3>1
      <4> QED BY <4>1, ConcatEmptySeq
    <3>2. CASE i # 1
          BY <2>6, <3>2
    <3> QED BY <3>1, <3>2
  <2>9. 0 .. n \subseteq Q
    <3>1. 0 \in Q
          BY <2>4, <2>7
    <3>2. ASSUME NEW k \in 0 .. n, k # n, k \in Q PROVE k + 1 \in Q
      <4>1. k + 1 \in 1 .. n /\ (k + 1) - 1 = k
            BY <3>2
      <4>2. flat[k + 1] = flat[k] \o seqs[k + 1]
            BY <2>8, <4>1
      <4>3. flat[k] \in Seq(S) /\ seqs[k + 1] \in Seq(S)
            BY <2>5, <3>2, <4>1
      <4>4. flat[k + 1] \in Seq(S)
            BY <4>2, <4>3, ConcatProperties
      <4> QED BY <4>4
    <3> HIDE DEF Q
    <3> QED BY <3>1, <3>2, CountUp
  <2>10. flat \in [0 .. n -> Seq(S)]
        BY <2>9, <2>71
  <2> QED BY <2>1, <2>4, <2>8, <2>10 DEF PutTogether
<1> QED BY <1>2, <1>3

\* Each of n columns is read from what the one before it left.
ReadsOn(g, first, n) ==
    g = [i \in 0 .. n |-> IF i = 0 THEN first ELSE ColumnAt(g[i - 1].rest)]

\* There is such a function, whatever the bytes.
LEMMA ReadsOnExists ==
    ASSUME NEW n \in Nat, NEW first
    PROVE  \E g : ReadsOn(g, first, n)
<1> DEFINE Q == {k \in Nat : \E g : ReadsOn(g, first, k)}
<1>1. 0 \in Q
  <2> DEFINE g == [i \in 0 .. 0 |-> first]
  <2>1. \A i \in 0 .. 0 : g[i] = IF i = 0 THEN first ELSE ColumnAt(g[i - 1].rest)
        OBVIOUS
  <2>2. g = [i \in 0 .. 0 |-> g[i]]
        OBVIOUS
  <2> HIDE DEF g
  <2>3. g = [i \in 0 .. 0 |-> IF i = 0 THEN first ELSE ColumnAt(g[i - 1].rest)]
        BY <2>1, <2>2
  <2> QED BY <2>3 DEF ReadsOn
<1>2. ASSUME NEW k \in 0 .. n, k \in Q
      PROVE  k + 1 \in Q
  <2>1. PICK g : ReadsOn(g, first, k)
        BY <1>2
  <2> DEFINE Step(f, i) == IF i = 0 THEN first ELSE ColumnAt(f[i - 1].rest)
             h == [i \in 0 .. k + 1 |-> Step(g, i)]
  <2>2. ASSUME NEW i \in 0 .. k PROVE h[i] = g[i]
    <3>1. \A j \in 0 .. k : g[j] = IF j = 0 THEN first ELSE ColumnAt(g[j - 1].rest)
          BY <2>1 DEF ReadsOn
    <3>2. h[i] = Step(g, i)
          OBVIOUS
    <3> QED BY <3>1, <3>2
  <2>3. ASSUME NEW i \in 0 .. k + 1 PROVE Step(g, i) = Step(h, i)
    <3>1. i = 0 \/ i - 1 \in 0 .. k
          OBVIOUS
    <3>2. i = 0 \/ h[i - 1] = g[i - 1]
          BY <2>2, <3>1
    <3> HIDE DEF h
    <3> QED BY <3>2
  <2>4. h = [i \in 0 .. k + 1 |-> Step(h, i)]
    <3>1. \A i \in 0 .. k + 1 : h[i] = Step(g, i)
          OBVIOUS
    <3>2. \A i \in 0 .. k + 1 : h[i] = Step(h, i)
      <4> HIDE DEF h, Step
      <4> QED BY <2>3, <3>1
    <3>3. h = [i \in 0 .. k + 1 |-> h[i]]
          OBVIOUS
    <3> HIDE DEF h
    <3> QED BY <3>2, <3>3
  <2>5. ReadsOn(h, first, k + 1)
        BY <2>4 DEF ReadsOn
  <2> QED BY <2>5
<1>3. 0 .. n \subseteq Q
  <2> HIDE DEF Q
  <2> QED BY <1>1, <1>2, CountUp
<1> QED BY <1>3

-----------------------------------------------------------------------------
(* How many bytes a summary takes.                                         *)

\* The columns of a summary can be written.
LEMMA PlainColumnOf ==
    ASSUME NEW s \in Summary, NEW c \in Column
    PROVE  ColumnOf(s, c) \in PlainColumn
<1>1. s[c] \in ColSummary
      BY SummaryColumn
<1>2. /\ s[c].min \in Text \cup {None} /\ s[c].max \in Text \cup {None}
      /\ s[c].has_nulls \in BOOLEAN /\ s[c].all_nulls \in BOOLEAN /\ s[c].unbounded \in BOOLEAN
      BY <1>1 DEF ColSummary, Bound
<1>3. /\ Described[c].attnum \in 0 .. Radix * Radix - 1 /\ Described[c].overlap \in BOOLEAN
      /\ Described[c].type_name \in Seq(Byte) /\ Described[c].oid \in 0 .. Radix * Radix - 1
      BY FormatAssumption
<1>4. \A t \in Text : Bytes[t] \in Seq(Byte)
      BY FormatAssumption
<1>5. /\ (IF s[c].min = None THEN None ELSE Bytes[s[c].min]) \in Seq(Byte) \cup {None}
      /\ (IF s[c].max = None THEN None ELSE Bytes[s[c].max]) \in Seq(Byte) \cup {None}
      BY <1>2, <1>4
<1> QED BY <1>2, <1>3, <1>5 DEF ColumnOf, PlainColumn

\* A column takes the bytes of its bounds, and others whatever its bounds.
LEMMA SizeOfColumn ==
    ASSUME NEW s \in Summary, NEW c \in Column
    PROVE  /\ ColumnBytes(ColumnOf(s, c)) \in Seq(Byte)
           /\ Len(ColumnBytes(ColumnOf(s, c)))
                  = 10 + Len(Described[c].type_name) + BoundBytes(s[c])
           /\ Len(Described[c].type_name) \in Nat
           /\ BoundBytes(s[c]) \in Nat
<1> DEFINE col == ColumnOf(s, c)
<1>1. s[c] \in ColSummary
      BY SummaryColumn
<1>2. s[c].min \in Text \cup {None} /\ s[c].max \in Text \cup {None}
      BY <1>1 DEF ColSummary, Bound
<1>3. /\ col.type_name = Described[c].type_name
      /\ col.min = IF s[c].min = None THEN None ELSE Bytes[s[c].min]
      /\ col.max = IF s[c].max = None THEN None ELSE Bytes[s[c].max]
      BY DEF ColumnOf
<1>4. col \in PlainColumn
      BY PlainColumnOf
<1> HIDE DEF col
<1>5. /\ ColumnBytes(col) \in Seq(Byte)
      /\ Len(ColumnBytes(col)) = 8 + Len(col.type_name) + OptLen(col.min) + OptLen(col.max)
      /\ Len(col.type_name) \in Nat
      BY <1>4, ColumnSize
<1>6. /\ \A t \in Text : TextLen[t] = Len(Bytes[t]) /\ TextLen[t] \in Nat /\ Bytes[t] # None
      BY FormatAssumption, IndexAssumption
<1>7. OptLen(col.min) = 1 + IF s[c].min = None THEN 0 ELSE TextLen[s[c].min] + 2
      BY <1>2, <1>3, <1>6 DEF OptLen
<1>8. OptLen(col.max) = 1 + IF s[c].max = None THEN 0 ELSE TextLen[s[c].max] + 2
      BY <1>2, <1>3, <1>6 DEF OptLen
<1> DEFINE lo == IF s[c].min = None THEN 0 ELSE TextLen[s[c].min] + 2
           hi == IF s[c].max = None THEN 0 ELSE TextLen[s[c].max] + 2
<1>9. lo \in Nat /\ hi \in Nat /\ BoundBytes(s[c]) = lo + hi
      BY <1>2, <1>6 DEF BoundBytes
<1>10. OptLen(col.min) = 1 + lo /\ OptLen(col.max) = 1 + hi
      BY <1>7, <1>8
<1> HIDE DEF lo, hi
<1> DEFINE tn == Len(col.type_name)
<1>11. Len(ColumnBytes(col)) = 8 + tn + (1 + lo) + (1 + hi) /\ tn \in Nat
      BY <1>5, <1>10
<1> HIDE DEF tn
<1>12. 8 + tn + (1 + lo) + (1 + hi) = 10 + tn + (lo + hi)
      BY <1>9, <1>11
<1>13. Len(ColumnBytes(col)) = 10 + tn + BoundBytes(s[c])
      BY <1>9, <1>11, <1>12
<1>14. BoundBytes(s[c]) \in Nat /\ tn = Len(Described[c].type_name)
      BY <1>3, <1>9 DEF tn
<1>15. ColumnBytes(col) \in Seq(Byte)
      BY <1>5
<1> QED BY <1>11, <1>13, <1>14, <1>15, Zenon DEF col

\* The sum over all of S takes any element, and the sum over the others.
LEMMA SumTakesAny ==
    ASSUME NEW S, IsFiniteSet(S), NEW f \in [S -> Nat], NEW g, Sums(g, f, S),
           NEW T \in SUBSET S, NEW x \in T
    PROVE  g[T] = f[x] + g[T \ {x}] /\ g[T] \in Nat
<1> DEFINE Right(U) == g[U] \in Nat /\ \A y \in U : g[U] = f[y] + g[U \ {y}]
           Q == {k \in Nat : \A U \in SUBSET S : Cardinality(U) <= k => Right(U)}
<1>1. \A U \in SUBSET S : g[U] = IF U = {} THEN 0 ELSE f[OneOf(U)] + g[U \ {OneOf(U)}]
      BY DEF Sums
<1>2. Cardinality(S) \in Nat /\ Cardinality(T) \in Nat /\ Cardinality(T) <= Cardinality(S)
      BY OneLess, FS_CardinalityType
<1>3. 0 \in Q
  <2> SUFFICES ASSUME NEW U \in SUBSET S, Cardinality(U) <= 0 PROVE Right(U)
      OBVIOUS
  <2>1. U = {}
    <3>1. Cardinality(U) \in Nat /\ (U = {} <=> Cardinality(U) = 0)
          BY OneLess
    <3> QED BY <3>1
  <2>2. g[U] = 0
        BY <1>1, <2>1
  <2> QED BY <2>1, <2>2
<1>4. ASSUME NEW k \in 0 .. Cardinality(S), k # Cardinality(S), k \in Q
      PROVE  k + 1 \in Q
  <2> SUFFICES ASSUME NEW U \in SUBSET S, Cardinality(U) <= k + 1 PROVE Right(U)
    <3>1. k + 1 \in Nat
          BY <1>2
    <3> HIDE DEF Right
    <3> QED BY <3>1
  <2>1. CASE U = {}
    <3>1. g[U] = 0
          BY <1>1, <2>1
    <3> QED BY <2>1, <3>1
  <2>2. CASE U # {}
    <3> DEFINE a == OneOf(U)
    <3>1. /\ a \in U /\ a \in S /\ U \ {a} \in SUBSET S /\ Cardinality(U) \in Nat
          /\ Cardinality(U \ {a}) = Cardinality(U) - 1
          BY <2>2, OneLess
    <3>2. g[U] = f[a] + g[U \ {a}]
          BY <1>1, <2>2
    <3> HIDE DEF a
    <3> HIDE DEF Right
    <3>3. Right(U \ {a})
          BY <1>4, <3>1
    <3>4. ASSUME NEW y \in U PROVE g[U] = f[y] + g[U \ {y}]
      <4>1. CASE y = a
            BY <3>2, <4>1
      <4>2. CASE y # a
        <5>1. /\ U \ {y} \in SUBSET S /\ y \in U \ {a} /\ a \in U \ {y}
              /\ (U \ {y}) \ {a} = (U \ {a}) \ {y}
              BY <3>1, <4>2
        <5>2. IsFiniteSet(U) /\ Cardinality(U \ {y}) = Cardinality(U) - 1
              BY FS_Subset, FS_RemoveElement
        <5>3. Right(U \ {y})
              BY <1>4, <3>1, <5>1, <5>2
        <5>4. g[U \ {a}] = f[y] + g[(U \ {a}) \ {y}]
              BY <3>3, <5>1 DEF Right
        <5>5. g[U \ {y}] = f[a] + g[(U \ {y}) \ {a}]
              BY <5>1, <5>3 DEF Right
        <5>6. Cardinality((U \ {a}) \ {y}) <= k
          <6>1. IsFiniteSet(U \ {a}) /\ (U \ {a}) \ {y} \in SUBSET (U \ {a})
                BY <5>2, FS_Subset
          <6>2. Cardinality((U \ {a}) \ {y}) <= Cardinality(U \ {a})
                /\ Cardinality((U \ {a}) \ {y}) \in Nat
                BY <6>1, FS_Subset, FS_CardinalityType
          <6> QED BY <3>1, <6>2
        <5>7. g[(U \ {a}) \ {y}] \in Nat
          <6>1. (U \ {a}) \ {y} \in SUBSET S
                BY <3>1
          <6>2. Right((U \ {a}) \ {y})
                BY <1>4, <5>6, <6>1
          <6> QED BY <6>2 DEF Right
        <5>8. f[a] \in Nat /\ f[y] \in Nat
              BY <3>1
        <5> QED BY <3>2, <5>1, <5>4, <5>5, <5>7, <5>8
      <4> QED BY <4>1, <4>2
    <3>5. g[U] \in Nat
          BY <3>1, <3>2, <3>3 DEF Right
    <3> QED BY <3>4, <3>5 DEF Right
  <2> QED BY <2>1, <2>2
<1>5. Cardinality(S) \in Q
  <2> HIDE DEF Q
  <2>1. 0 .. Cardinality(S) \subseteq Q
        BY <1>2, <1>3, <1>4, CountUp
  <2> QED BY <1>2, <2>1
<1>6. Right(T)
  <2> HIDE DEF Right
  <2> QED BY <1>2, <1>5
<1> QED BY <1>6

\* The columns are numbered from 1.
LEMMA ColumnIsUpTo ==
    /\ IsFiniteSet(Column) /\ Cardinality(Column) \in Nat
    /\ Column = 1 .. Cardinality(Column)
BY BuildAssumption, FormatAssumption, FS_CardinalityType

\* g[i] is the sum of the first i.
AddedUp(g, f, n) ==
    /\ g[0] = 0 /\ g[n] = SumFunction(f)
    /\ \A i \in 1 .. n : g[i] = g[i - 1] + f[i]
    /\ \A i \in 0 .. n : g[i] \in Nat

\* A sum over the columns is the sum in their order.
LEMMA SumInOrder ==
    ASSUME NEW n \in Nat, Column = 1 .. n, NEW f \in [Column -> Nat]
    PROVE  \E g : AddedUp(g, f, n)
<1> DEFINE total == CHOOSE total : Sums(total, f, Column)
<1>1. IsFiniteSet(Column) /\ DOMAIN f = Column
      BY BuildAssumption
<1>2. SumFunction(f) = total[Column]
      BY <1>1, SumIsChosen
<1>3. Sums(total, f, Column)
      BY <1>1, SumExists
<1> HIDE DEF total
<1> DEFINE g == [i \in 0 .. n |-> total[1 .. i]]
<1>4. total[{}] = 0
      BY <1>3 DEF Sums
<1>5. g[0] = 0
  <2>1. 1 .. 0 = {}
        OBVIOUS
  <2> QED BY <1>4, <2>1
<1>6. g[n] = SumFunction(f)
      BY <1>2
<1>7. ASSUME NEW i \in 1 .. n PROVE g[i] = g[i - 1] + f[i] /\ g[i] \in Nat
  <2>1. 1 .. i \in SUBSET Column /\ i \in 1 .. i /\ (1 .. i) \ {i} = 1 .. i - 1
        OBVIOUS
  <2>2. total[1 .. i] = f[i] + total[(1 .. i) \ {i}] /\ total[1 .. i] \in Nat
        BY <1>1, <1>3, <2>1, SumTakesAny
  <2>3. g[i] = total[1 .. i] /\ g[i - 1] = total[1 .. i - 1]
        OBVIOUS
  <2>4. f[i] \in Nat
        OBVIOUS
  <2>5. g[i] = f[i] + g[i - 1] /\ g[i] \in Nat
        BY <2>1, <2>2, <2>3
  <2>6. g[i - 1] \in Nat
    <3>1. CASE i = 1
          BY <1>5, <3>1
    <3>2. CASE i # 1
      <4>1. 1 .. i - 1 \in SUBSET Column /\ i - 1 \in 1 .. i - 1
            BY <3>2
      <4>2. total[1 .. i - 1] \in Nat
            BY <1>1, <1>3, <4>1, SumTakesAny
      <4> QED BY <2>3, <4>2
    <3> QED BY <3>1, <3>2
  <2> HIDE DEF g
  <2> QED BY <2>4, <2>5, <2>6
<1>8. \A i \in 0 .. n : i = 0 \/ i \in 1 .. n
      OBVIOUS
<1> HIDE DEF g
<1> QED BY <1>5, <1>6, <1>7, <1>8 DEF AddedUp

-----------------------------------------------------------------------------
\* flat puts the columns of s together in their order.
Flat(flat, s, n) ==
    /\ flat \in [0 .. n -> Seq(Byte)]
    /\ flat[0] = <<>>
    /\ flat[n] = FlattenSeq([c \in Column |-> ColumnBytes(ColumnOf(s, c))])
    /\ \A i \in 1 .. n : flat[i] = flat[i - 1] \o ColumnBytes(ColumnOf(s, i))

\* There is such a function for every summary.
LEMMA FlatExists ==
    ASSUME NEW s \in Summary, NEW n \in Nat, Column = 1 .. n
    PROVE  \E flat : Flat(flat, s, n)
<1> DEFINE chunks == [c \in Column |-> ColumnBytes(ColumnOf(s, c))]
<1>1. \A c \in Column : ColumnBytes(ColumnOf(s, c)) \in Seq(Byte)
      BY SizeOfColumn
<1>2. chunks \in [1 .. n -> Seq(Byte)] /\ \A i \in 1 .. n : chunks[i] = ColumnBytes(ColumnOf(s, i))
      BY <1>1
<1> HIDE DEF chunks
<1>3. PICK flat : PutTogether(flat, Byte, chunks, n)
      BY <1>2, FlattenSteps
<1>4. \A i \in 1 .. n : flat[i] = flat[i - 1] \o ColumnBytes(ColumnOf(s, i))
      BY <1>2, <1>3 DEF PutTogether
<1> QED BY <1>3, <1>4 DEF Flat, PutTogether, chunks

\* The columns up to the i-th are what all of them begin with.
BeginsWith(seq, part) == \E rest \in Seq(Byte) : seq = part \o rest

LEMMA FlatPrefix ==
    ASSUME NEW s \in Summary, NEW n \in Nat, Column = 1 .. n,
           NEW flat, Flat(flat, s, n), NEW i \in 0 .. n
    PROVE  BeginsWith(flat[n], flat[i])
<1> DEFINE Q == {k \in Nat : k <= n => \E rest \in Seq(Byte) : flat[n] = flat[n - k] \o rest}
<1>1. \A j \in 0 .. n : flat[j] \in Seq(Byte)
      BY DEF Flat
<1>2. 0 \in Q
  <2>1. <<>> \in Seq(Byte) /\ flat[n] = flat[n] \o <<>> /\ n - 0 = n
        BY <1>1, ConcatEmptySeq
  <2> QED BY <2>1
<1>3. ASSUME NEW k \in 0 .. n, k # n, k \in Q
      PROVE  k + 1 \in Q
  <2> DEFINE j == n - k
  <2>1. j \in 1 .. n /\ n - (k + 1) = j - 1 /\ j - 1 \in 0 .. n /\ j \in 0 .. n
        BY <1>3
  <2>2. PICK rest \in Seq(Byte) : flat[n] = flat[j] \o rest
        BY <1>3
  <2> HIDE DEF j
  <2> DEFINE chunk == ColumnBytes(ColumnOf(s, j))
  <2>3. flat[j] = flat[j - 1] \o chunk
        BY <2>1 DEF Flat
  <2>4. chunk \in Seq(Byte)
        BY <2>1, SizeOfColumn
  <2> HIDE DEF chunk
  <2>5. Associates(flat[j - 1], chunk, rest)
        BY <1>1, <2>1, <2>4, AlwaysAssociates, Zenon
  <2>6. flat[n] = flat[j - 1] \o (chunk \o rest)
        BY <2>2, <2>3, <2>5 DEF Associates
  <2>7. chunk \o rest \in Seq(Byte)
        BY <2>4, ConcatProperties
  <2>8. \E more \in Seq(Byte) : flat[n] = flat[n - (k + 1)] \o more
        BY <2>1, <2>6, <2>7
  <2>9. k + 1 \in Nat
        BY <1>3
  <2> QED BY <2>8, <2>9, Zenon
<1>4. 0 .. n \subseteq Q
  <2> HIDE DEF Q
  <2> QED BY <1>2, <1>3, CountUp
<1>5. n - i \in 0 .. n /\ n - i <= n /\ n - (n - i) = i
      OBVIOUS
<1>6. n - i \in Q
  <2> HIDE DEF Q
  <2> QED BY <1>4, <1>5
<1> QED BY <1>5, <1>6 DEF BeginsWith

(***************************************************************************)
(* The columns of two summaries differ in size by their bounds alone.      *)
(***************************************************************************)
NoBounds == [c \in Column |-> make_unbounded(BuiltFlags(c, {}))]

\* A summary without bounds is one that Fixed may be measured on.
LEMMA NoBoundsSummary ==
    NoBounds \in Summary /\ \A c \in Column : BoundBytes(NoBounds[c]) = 0
<1>1. ASSUME NEW c \in Column
      PROVE  /\ NoBounds[c] \in ColSummary /\ NoBounds[c].collation = IndexCollation[c]
             /\ NoBounds[c].min = None /\ NoBounds[c].max = None
  <2>1. IndexCollation[c] \in Collation
        BY IndexAssumption
  <2>2. /\ BuiltFlags(c, {}).collation = IndexCollation[c]
        /\ BuiltFlags(c, {}).has_nulls \in BOOLEAN /\ BuiltFlags(c, {}).all_nulls \in BOOLEAN
        BY DEF BuiltFlags
  <2> QED BY <2>1, <2>2 DEF NoBounds, make_unbounded, BuiltFlags, ColSummary, Bound
<1>2. NoBounds = [c \in Column |-> NoBounds[c]]
      BY DEF NoBounds
<1>3. NoBounds \in Summary
  <2>1. NoBounds \in [Column -> ColSummary]
        BY <1>1, <1>2
  <2> QED BY <1>1, <2>1 DEF Summary
<1> QED BY <1>1, <1>3 DEF BoundBytes

LEMMA ColumnsSize ==
    ASSUME NEW s \in Summary, NEW n \in Nat, Column = 1 .. n,
           NEW flat, Flat(flat, s, n), NEW least, Flat(least, NoBounds, n)
    PROVE  Len(flat[n]) = Len(least[n]) + SumFunction([c \in Column |-> BoundBytes(s[c])])
<1> DEFINE f == [c \in Column |-> BoundBytes(s[c])]
<1>1. f \in [Column -> Nat] /\ \A i \in 1 .. n : f[i] = BoundBytes(s[i])
      BY SizeOfColumn
<1>0. PICK g : AddedUp(g, f, n)
  <2> HIDE DEF f
  <2> QED BY <1>1, SumInOrder
<1>2. /\ g[0] = 0 /\ g[n] = SumFunction(f)
      /\ \A i \in 1 .. n : g[i] = g[i - 1] + f[i]
      /\ \A i \in 0 .. n : g[i] \in Nat
      BY <1>0 DEF AddedUp
<1> HIDE DEF f
<1> DEFINE Q == {k \in Nat : k <= n => Len(flat[k]) = Len(least[k]) + g[k]}
<1>3. 0 \in Q
  <2>1. flat[0] = <<>> /\ least[0] = <<>>
        BY DEF Flat
  <2>2. Len(flat[0]) = 0 /\ Len(least[0]) = 0
        BY <2>1
  <2>3. Len(flat[0]) = Len(least[0]) + g[0]
        BY <1>2, <2>2
  <2> QED BY <2>3
<1>4. ASSUME NEW k \in 0 .. n, k # n, k \in Q
      PROVE  k + 1 \in Q
  <2> DEFINE i == k + 1
             chunk == ColumnBytes(ColumnOf(s, i))
             other == ColumnBytes(ColumnOf(NoBounds, i))
             tn == Len(Described[i].type_name)
             bb == BoundBytes(s[i])
  <2>1. i \in 1 .. n /\ i - 1 = k /\ i \in 0 .. n /\ k \in 0 .. n
        BY <1>4
  <2> HIDE DEF i
  <2>2. flat[i] = flat[k] \o chunk /\ least[i] = least[k] \o other
        BY <2>1 DEF Flat
  <2>3. flat[k] \in Seq(Byte) /\ least[k] \in Seq(Byte)
        BY <2>1 DEF Flat
  <2>4. chunk \in Seq(Byte) /\ Len(chunk) = 10 + tn + bb /\ tn \in Nat /\ bb \in Nat
        BY <2>1, SizeOfColumn
  <2>5. other \in Seq(Byte) /\ Len(other) = 10 + tn
    <3>1. /\ other \in Seq(Byte) /\ Len(other) = 10 + tn + BoundBytes(NoBounds[i])
          /\ BoundBytes(NoBounds[i]) = 0
          BY <2>1, SizeOfColumn, NoBoundsSummary
    <3> HIDE DEF tn, other
    <3> QED BY <2>4, <3>1
  <2>6. g[i] = g[k] + bb /\ g[k] \in Nat
        BY <1>1, <1>2, <2>1
  <2>7. Len(flat[k]) = Len(least[k]) + g[k]
        BY <1>4, <2>1
  <2> HIDE DEF chunk, other, tn, bb
  <2>8. /\ Len(flat[i]) = Len(flat[k]) + Len(chunk) /\ Len(least[i]) = Len(least[k]) + Len(other)
        /\ Len(least[k]) \in Nat
        BY <2>2, <2>3, <2>4, <2>5, ConcatProperties, LenProperties
  <2> DEFINE l == Len(least[k])
  <2>81. Len(flat[i]) = (l + g[k]) + (10 + tn + bb)
        BY <2>4, <2>7, <2>8
  <2>82. Len(least[i]) + g[i] = (l + (10 + tn)) + (g[k] + bb)
        BY <2>5, <2>6, <2>8
  <2>83. (l + g[k]) + (10 + tn + bb) = (l + (10 + tn)) + (g[k] + bb)
    <3>1. l \in Nat /\ g[k] \in Nat /\ tn \in Nat /\ bb \in Nat
          BY <2>4, <2>6, <2>8
    <3> HIDE DEF l
    <3> QED BY <3>1
  <2>9. Len(flat[i]) = Len(least[i]) + g[i]
        BY <2>81, <2>82, <2>83
  <2> QED BY <2>9 DEF i
<1>5. n \in Q
  <2> HIDE DEF Q
  <2>1. 0 .. n \subseteq Q
        BY <1>3, <1>4, CountUp
  <2> QED BY <2>1
<1> QED BY <1>2, <1>5 DEF f

\* A blob is its version, the number of columns, and the columns.
LEMMA BlobParts ==
    ASSUME NEW s \in Summary, NEW version \in Byte, NEW n, n = Cardinality(Column),
           NEW flat, Flat(flat, s, n)
    PROVE  /\ flat[n] \in Seq(Byte)
           /\ blob(s, version) \in Seq(Byte)
           /\ Len(blob(s, version)) = 3 + Len(flat[n])
           /\ blob(s, version)[1] = version
           /\ Tail(blob(s, version)) = u16(n) \o flat[n]
<1> DEFINE ver == <<version>>
           count == u16(n)
           rest == count \o flat[n]
<1>1. n \in Nat /\ n < Radix * Radix
      BY ColumnIsUpTo, FormatAssumption
<1>2. flat[n] \in Seq(Byte)
      BY <1>1 DEF Flat
<1>3. ver \in Seq(Byte) /\ Len(ver) = 1
      BY ByteRead, <1>2
<1>4. count \in Seq(Byte) /\ Len(count) = 2
      BY <1>1, NumberSize
<1>5. blob(s, version) = (ver \o count) \o flat[n]
      BY DEF blob, Flat
<1> HIDE DEF count
<1>6. rest \in Seq(Byte) /\ Len(rest) = 2 + Len(flat[n]) /\ Len(flat[n]) \in Nat
  <2>1. rest \in Seq(Byte) /\ Len(rest) = Len(count) + Len(flat[n]) /\ Len(flat[n]) \in Nat
        BY <1>2, <1>4, PartsOfConcat, Zenon
  <2> QED BY <1>4, <2>1
<1>7. Associates(ver, count, flat[n])
      BY <1>2, <1>3, <1>4, AlwaysAssociates, Zenon
<1>8. blob(s, version) = ver \o rest
      BY <1>5, <1>7 DEF Associates
<1> HIDE DEF rest
<1>9. blob(s, version) \in Seq(Byte) /\ Len(blob(s, version)) = 1 + Len(rest)
  <2> HIDE DEF ver
  <2>1. ver \o rest \in Seq(Byte) /\ Len(ver \o rest) = Len(ver) + Len(rest)
        BY <1>3, <1>6, PartsOfConcat, Zenon
  <2> QED BY <1>3, <1>8, <2>1
<1>10. u8_at(ver \o rest) = Read(version, rest)
       BY <1>6, ByteRead
<1>11. ver \o rest # <<>>
  <2> HIDE DEF ver
  <2> QED BY <1>6, <1>8, <1>9
<1>12. (ver \o rest)[1] = version /\ Tail(ver \o rest) = rest
  <2> HIDE DEF ver
  <2> QED BY <1>10, <1>11 DEF u8_at, Read
<1>13. Len(blob(s, version)) = 3 + Len(flat[n])
       BY <1>6, <1>9
<1> QED BY <1>2, <1>8, <1>9, <1>12, <1>13 DEF rest, count

(***************************************************************************)
(* A blob is as long as one without bounds, and what its bounds take.      *)
(***************************************************************************)
LEMMA BlobSize ==
    ASSUME NEW s \in Summary, NEW version \in Byte
    PROVE  /\ blob(s, version) \in Seq(Byte)
           /\ Len(blob(s, version)) = Fixed + SumFunction([c \in Column |-> BoundBytes(s[c])])
           /\ Fixed \in Nat
           /\ SumFunction([c \in Column |-> BoundBytes(s[c])]) \in Nat
<1> DEFINE n == Cardinality(Column)
           sum == SumFunction([c \in Column |-> BoundBytes(s[c])])
<1>1. n \in Nat /\ Column = 1 .. n
      BY ColumnIsUpTo
<1>2. NoBounds \in Summary /\ SUMMARY_VERSION \in Byte
      BY NoBoundsSummary, FormatAssumption
<1>3. sum \in Nat
  <2> DEFINE f == [c \in Column |-> BoundBytes(s[c])]
  <2>1. f \in [Column -> Nat]
        BY SizeOfColumn
  <2> HIDE DEF f
  <2>2. SumFunction(f) \in Nat
        BY <2>1, SumFacts, BuildAssumption
  <2> QED BY <2>2 DEF f
<1>4. Fixed = Len(blob(NoBounds, SUMMARY_VERSION))
      BY DEF Fixed, serialize, NoBounds
<1> HIDE DEF n, sum
<1>5. PICK flat : Flat(flat, s, n)
      BY <1>1, FlatExists
<1>6. PICK least : Flat(least, NoBounds, n)
      BY <1>1, <1>2, FlatExists
<1>7. Len(flat[n]) = Len(least[n]) + sum
      BY <1>1, <1>5, <1>6, ColumnsSize DEF sum
<1>8. blob(s, version) \in Seq(Byte) /\ Len(blob(s, version)) = 3 + Len(flat[n])
      BY <1>5, BlobParts DEF n
<1>9. Fixed = 3 + Len(least[n]) /\ least[n] \in Seq(Byte)
      BY <1>2, <1>4, <1>6, BlobParts DEF n
<1>10. Len(least[n]) \in Nat
       BY <1>9, LenProperties
<1>11. Len(blob(s, version)) = Fixed + sum /\ Fixed \in Nat
       BY <1>3, <1>7, <1>8, <1>9, <1>10
<1> QED BY <1>3, <1>8, <1>11 DEF sum

(***************************************************************************)
(* Counting the room that bounds take comes to the length test on bytes:   *)
(* encode_fitting's loop and write_blob's error agree with Fits.           *)
(***************************************************************************)
THEOREM FitsIsLengthTest ==
    ASSUME NEW s \in Summary
    PROVE  /\ Fits(s) <=> ~TooLarge(serialize(s))
           /\ Fits(s) => \A version \in Byte : ~TooLarge(blob(s, version))
<1> DEFINE sum == SumFunction([c \in Column |-> BoundBytes(s[c])])
<1>1. sum \in Nat /\ Fixed \in Nat
      BY BlobSize, FormatAssumption
<1>2. max_blob_len \in Nat /\ Room = max_blob_len - Fixed
      BY FormatAssumption
<1>3. Fits(s) <=> sum <= Room
      BY DEF Fits
<1>4. \A version \in Byte : Len(blob(s, version)) = Fixed + sum
      BY BlobSize
<1> HIDE DEF sum
<1>5. Fits(s) <=> Fixed + sum <= max_blob_len
      BY <1>1, <1>2, <1>3
<1>6. ASSUME NEW version \in Byte PROVE Fits(s) <=> ~TooLarge(blob(s, version))
      BY <1>1, <1>2, <1>4, <1>5 DEF TooLarge
<1>7. SUMMARY_VERSION \in Byte
      BY FormatAssumption
<1> QED BY <1>6, <1>7 DEF serialize

\* No string of a blob that fits a page is too long for its length.
LEMMA AllMeasured ==
    ASSUME NEW s \in Summary, NEW n, n = Cardinality(Column), NEW flat, Flat(flat, s, n),
           Len(flat[n]) < Radix * Radix, NEW c \in Column
    PROVE  Measured(ColumnOf(s, c))
<1> DEFINE col == ColumnOf(s, c)
           chunk == ColumnBytes(col)
<1>1. n \in Nat /\ Column = 1 .. n
      BY ColumnIsUpTo
<1>2. /\ c \in 1 .. n /\ c \in 0 .. n /\ c - 1 \in 0 .. n
  <2>1. c \in 1 .. n
        BY <1>1, Zenon
  <2> QED BY <1>1, <2>1
<1>3. /\ flat[c] \in Seq(Byte) /\ flat[c - 1] \in Seq(Byte) /\ flat[c] = flat[c - 1] \o chunk
      BY <1>2 DEF Flat
<1>4. PICK rest \in Seq(Byte) : flat[n] = flat[c] \o rest
  <2>1. BeginsWith(flat[n], flat[c])
        BY <1>1, <1>2, FlatPrefix
  <2> QED BY <2>1 DEF BeginsWith
<1>5. col \in PlainColumn
      BY PlainColumnOf
<1> HIDE DEF col
<1>6. /\ chunk \in Seq(Byte)
      /\ Len(chunk) = 8 + Len(col.type_name) + OptLen(col.min) + OptLen(col.max)
      /\ Len(col.type_name) \in Nat /\ OptLen(col.min) \in Nat /\ OptLen(col.max) \in Nat
      BY <1>5, ColumnSize
<1> HIDE DEF chunk
<1>7. Len(flat[c]) = Len(flat[c - 1]) + Len(chunk) /\ Len(flat[c - 1]) \in Nat
      BY <1>3, <1>6, ConcatProperties, LenProperties
<1>8. Len(flat[n]) = Len(flat[c]) + Len(rest) /\ Len(rest) \in Nat
      BY <1>3, <1>4, ConcatProperties, LenProperties
<1>9. Len(chunk) <= Len(flat[n])
      BY <1>6, <1>7, <1>8
<1>10. Radix * Radix \in Nat
       BY FormatAssumption
<1>11. Len(chunk) < Radix * Radix
  <2> DEFINE r == Radix * Radix
  <2> HIDE DEF r
  <2>1. Len(flat[n]) < r /\ r \in Nat
        BY <1>10 DEF r
  <2>2. Len(chunk) < r
        BY <1>6, <1>7, <1>8, <1>9, <2>1
  <2> QED BY <2>2 DEF r
<1>12. /\ Len(col.type_name) < Radix * Radix
       /\ OptLen(col.min) < Radix * Radix /\ OptLen(col.max) < Radix * Radix
  <2> DEFINE r == Radix * Radix
  <2>1. Len(chunk) < r /\ r \in Nat
        BY <1>10, <1>11
  <2> HIDE DEF r
  <2>2. Len(col.type_name) < r /\ OptLen(col.min) < r /\ OptLen(col.max) < r
        BY <1>6, <2>1
  <2> QED BY <2>2 DEF r
<1>13. ASSUME NEW t \in Seq(Byte), OptLen(t) < Radix * Radix, t # None
       PROVE  Len(t) < Radix * Radix
  <2> DEFINE r == Radix * Radix
  <2>1. OptLen(t) = Len(t) + 3 /\ Len(t) \in Nat /\ OptLen(t) < r /\ r \in Nat
        BY <1>10, <1>13, LenProperties DEF OptLen
  <2> HIDE DEF r
  <2>2. Len(t) < r
        BY <2>1
  <2> QED BY <2>2 DEF r
<1>14. /\ col.min # None => col.min \in Seq(Byte)
       /\ col.max # None => col.max \in Seq(Byte)
       BY <1>5 DEF PlainColumn
<1> QED BY <1>12, <1>13, <1>14 DEF Measured, col

\* What follows a sequence is told by the sequence that both make.
LEMMA CancelLeft ==
    ASSUME NEW S, NEW s \in Seq(S), NEW t \in Seq(S), NEW u \in Seq(S), s \o t = s \o u
    PROVE  t = u
<1>1. SubSeq(s \o t, Len(s) + 1, Len(s \o t)) = t
      BY PartsOfConcat
<1>2. SubSeq(s \o u, Len(s) + 1, Len(s \o u)) = u
      BY PartsOfConcat
<1> QED BY <1>1, <1>2

\* The reader stands where the i-th column ends.
StandsAfter(i, reader, flat, s, n) ==
    /\ reader.ok = TRUE /\ reader.rest \in Seq(Byte)
    /\ flat[n] = flat[i] \o reader.rest
    /\ i # 0 => reader.val = ColumnOf(s, i)

\* From where one column ends the next is read.
LEMMA NextColumn ==
    ASSUME NEW s \in Summary, NEW n, n = Cardinality(Column), NEW flat, Flat(flat, s, n),
           Len(flat[n]) < Radix * Radix, NEW i \in 1 .. n,
           NEW reader, StandsAfter(i - 1, reader, flat, s, n)
    PROVE  StandsAfter(i, ColumnAt(reader.rest), flat, s, n)
<1> DEFINE col == ColumnOf(s, i)
           chunk == ColumnBytes(col)
<1>1. n \in Nat /\ Column = 1 .. n
      BY ColumnIsUpTo
<1>2. i \in Column /\ i \in 0 .. n /\ i - 1 \in 0 .. n
  <2>1. i \in Column
        BY <1>1, Zenon
  <2> QED BY <1>1, <2>1
<1>3. flat[i] \in Seq(Byte) /\ flat[i - 1] \in Seq(Byte) /\ flat[i] = flat[i - 1] \o chunk
      BY <1>2 DEF Flat
<1>4. BeginsWith(flat[n], flat[i])
      BY <1>1, <1>2, FlatPrefix
<1>5. PICK more \in Seq(Byte) : flat[n] = flat[i] \o more
      BY <1>4 DEF BeginsWith
<1>6. col \in PlainColumn /\ Measured(col)
      BY <1>2, PlainColumnOf, AllMeasured
<1>7. chunk \in Seq(Byte)
      BY <1>2, SizeOfColumn
<1>8. ColumnAt(chunk \o more) = Read(col, more)
      BY <1>5, <1>6, ColumnRead
<1> HIDE DEF col, chunk
<1>9. Associates(flat[i - 1], chunk, more)
      BY <1>3, <1>5, <1>7, AlwaysAssociates, Zenon
<1>10. flat[i - 1] \o reader.rest = flat[i - 1] \o (chunk \o more)
       BY <1>3, <1>5, <1>9 DEF Associates, StandsAfter
<1>11. chunk \o more \in Seq(Byte) /\ reader.rest \in Seq(Byte)
       BY <1>5, <1>7, PartsOfConcat DEF StandsAfter
<1>12. reader.rest = chunk \o more
       BY <1>3, <1>10, <1>11, CancelLeft, Zenon
<1>13. ColumnAt(reader.rest) = Read(col, more)
       BY <1>8, <1>12
<1> QED BY <1>5, <1>13 DEF StandsAfter, Read, col

\* The reader gets through all the columns.
LEMMA ColumnsReadBack ==
    ASSUME NEW s \in Summary, NEW n, n = Cardinality(Column), NEW flat, Flat(flat, s, n),
           Len(flat[n]) < Radix * Radix
    PROVE  ColumnsAt(u16(n) \o flat[n]) = cols(s)
<1> DEFINE buf == u16(n) \o flat[n]
           first == Read(n, flat[n])
           g == CHOOSE g : ReadsOn(g, first, n)
           Q == {k \in Nat : StandsAfter(k, g[k], flat, s, n)}
<1>1. n \in Nat /\ Column = 1 .. n /\ n \in 0 .. Radix * Radix - 1
      BY ColumnIsUpTo, FormatAssumption
<1>2. flat[n] \in Seq(Byte)
      BY <1>1 DEF Flat
<1>3. u16_at(buf) = first
      BY <1>1, <1>2, NumberRead
<1> HIDE DEF buf
<1>4. ReadsOn(g, first, n)
      BY <1>1, ReadsOnExists
<1>5. first.val = n /\ first.ok = TRUE /\ first.rest = flat[n]
      BY DEF Read
<1> HIDE DEF first
<1>6. ColumnsAt(buf) = IF g[n].ok THEN [i \in 1 .. n |-> g[i].val] ELSE None
      BY <1>3, <1>5 DEF ColumnsAt, ReadsOn
<1> HIDE DEF g
<1>7. \A i \in 0 .. n : g[i] = IF i = 0 THEN first ELSE ColumnAt(g[i - 1].rest)
      BY <1>4 DEF ReadsOn
<1>8. 0 \in Q
  <2>1. g[0] = first
        BY <1>1, <1>7
  <2>2. flat[n] = flat[0] \o flat[n]
        BY <1>1, <1>2, ConcatEmptySeq DEF Flat
  <2>3. StandsAfter(0, g[0], flat, s, n)
        BY <1>2, <1>5, <2>1, <2>2 DEF StandsAfter
  <2> QED BY <2>3
<1>9. ASSUME NEW k \in 0 .. n, k # n, k \in Q
      PROVE  k + 1 \in Q
  <2>1. k + 1 \in 1 .. n /\ k + 1 \in 0 .. n /\ k + 1 \in Nat /\ (k + 1) - 1 = k
        BY <1>1, <1>9
  <2>2. g[k + 1] = ColumnAt(g[k].rest)
        BY <1>7, <2>1
  <2>3. StandsAfter((k + 1) - 1, g[k], flat, s, n)
        BY <1>9, <2>1
  <2>4. StandsAfter(k + 1, ColumnAt(g[k].rest), flat, s, n)
        BY <2>1, <2>3, NextColumn
  <2> QED BY <2>1, <2>2, <2>4
<1>10. 0 .. n \subseteq Q
  <2> HIDE DEF Q
  <2> QED BY <1>1, <1>8, <1>9, CountUp
<1>11. \A i \in 0 .. n : StandsAfter(i, g[i], flat, s, n)
       BY <1>10
<1> HIDE DEF Q
<1>12. g[n].ok = TRUE /\ \A i \in 1 .. n : g[i].val = ColumnOf(s, i)
  <2>1. g[n].ok = TRUE
    <3>1. n \in 0 .. n
          BY <1>1
    <3>2. StandsAfter(n, g[n], flat, s, n)
          BY <1>11, <3>1, Zenon
    <3> QED BY <3>2 DEF StandsAfter
  <2>2. ASSUME NEW i \in 1 .. n PROVE g[i].val = ColumnOf(s, i)
    <3>1. i \in 0 .. n /\ i # 0
          BY <1>1
    <3> QED BY <1>11, <3>1 DEF StandsAfter
  <2> QED BY <2>1, <2>2
<1>13. ColumnsAt(buf) = [i \in 1 .. n |-> ColumnOf(s, i)]
       BY <1>6, <1>12
<1> QED BY <1>1, <1>13 DEF buf, cols

(***************************************************************************)
(* A blob that fits the page is read back as the columns it was made from, *)
(* by the version that wrote it.                                           *)
(***************************************************************************)
LEMMA BlobRead ==
    ASSUME NEW s \in Summary, Fits(s)
    PROVE  deserialize(serialize(s)) = cols(s)
<1> DEFINE n == Cardinality(Column)
           data == serialize(s)
<1>1. n \in Nat /\ Column = 1 .. n /\ SUMMARY_VERSION \in Byte
      BY ColumnIsUpTo, FormatAssumption
<1> HIDE DEF n
<1>2. PICK flat : Flat(flat, s, n)
      BY <1>1, FlatExists
<1>3. /\ flat[n] \in Seq(Byte) /\ Len(data) = 3 + Len(flat[n])
      /\ data[1] = SUMMARY_VERSION /\ Tail(data) = u16(n) \o flat[n]
      BY <1>1, <1>2, BlobParts DEF serialize, n
<1>4. Len(data) <= max_blob_len
  <2>1. ~TooLarge(data)
        BY FitsIsLengthTest
  <2>2. Len(data) \in Nat /\ max_blob_len \in Nat
        BY <1>3, LenProperties, FormatAssumption
  <2> HIDE DEF data
  <2> QED BY <2>1, <2>2 DEF TooLarge
<1>5. Len(flat[n]) < Radix * Radix
  <2> DEFINE r == Radix * Radix
  <2>1. max_blob_len < r /\ r \in Nat /\ max_blob_len \in Nat
        BY FormatAssumption
  <2>2. Len(flat[n]) \in Nat
        BY <1>3, LenProperties
  <2> HIDE DEF r, data
  <2>3. Len(flat[n]) < r
        BY <1>3, <1>4, <2>1, <2>2
  <2> QED BY <2>3 DEF r
<1>6. ColumnsAt(u16(n) \o flat[n]) = cols(s)
      BY <1>2, <1>5, ColumnsReadBack DEF n
<1> HIDE DEF data
<1> QED BY <1>3, <1>6 DEF deserialize, data

-----------------------------------------------------------------------------
(* The page.                                                               *)

\* The blobs that write_blob and replace_blob_if take.
Storable(data) == data \in Seq(Byte) /\ Len(data) \in 1 .. max_blob_len

Pages == {b \in Buffer : Len(b.bytes) = PageSize}

\* A blob that was put on a page is what the page holds.
LEMMA PutBlob ==
    ASSUME NEW b \in Pages, NEW data, Storable(data)
    PROVE  /\ put_blob(b, data) \in Pages /\ put_blob(b, data) # None
           /\ page_blob(put_blob(b, data)) = data
<1> DEFINE len == Len(data)
           old == SubSeq(b.bytes, len + 1, PageSize)
           bytes == data \o old
<1>1. /\ data \in Seq(Byte) /\ len \in Nat /\ len > 0 /\ len <= max_blob_len /\ len <= PageSize
      /\ PageSize \in Nat /\ max_blob_len \in Nat
      BY FormatAssumption DEF Storable
<1>2. b.bytes \in Seq(Byte) /\ Len(b.bytes) = PageSize
      BY DEF Pages, Buffer
<1>3. old \in Seq(Byte) /\ Len(old) = PageSize - len
  <2>1. \A i \in len + 1 .. PageSize : b.bytes[i] \in Byte
    <3>1. \A i \in 1 .. PageSize : b.bytes[i] \in Byte
          BY <1>2, ElementOfSeq
    <3> QED BY <1>1, <3>1
  <2>2. len + 1 \in Int /\ PageSize \in Int
        BY <1>1
  <2>3. old \in Seq(Byte) /\ Len(old) = IF len + 1 <= PageSize THEN PageSize - (len + 1) + 1 ELSE 0
    <3> HIDE DEF len
    <3> QED BY <2>1, <2>2, SubSeqProperties
  <2> HIDE DEF len, old
  <2> QED BY <1>1, <2>3
<1> HIDE DEF old
<1>4. /\ bytes \in Seq(Byte) /\ Len(bytes) = len + Len(old) /\ SubSeq(bytes, 1, len) = data
      BY <1>1, <1>3, PartsOfConcat, Zenon
<1>5. Len(bytes) = PageSize
  <2> HIDE DEF bytes, len
  <2> QED BY <1>1, <1>3, <1>4
<1>6. put_blob(b, data) = [len |-> len, bytes |-> bytes]
      BY DEF put_blob, old
<1> HIDE DEF bytes, len
<1>7. put_blob(b, data) \in Pages
      BY <1>1, <1>4, <1>5, <1>6 DEF Pages, Buffer
<1>8. page_blob(put_blob(b, data)) = data
      BY <1>1, <1>4, <1>6 DEF page_blob
<1>9. None \notin Buffer
      BY FormatAssumption
<1> QED BY <1>7, <1>8, <1>9 DEF Pages

\* A new page is a page.
LEMMA PageInitIsPage == PageInit \in Pages
<1> DEFINE bytes == [i \in 1 .. PageSize |-> 0]
<1>1. PageSize \in Nat /\ 0 \in Byte
      BY FormatAssumption DEF Byte
<1>2. bytes \in Seq(Byte) /\ Len(bytes) = PageSize
      BY <1>1
<1> HIDE DEF bytes
<1>3. PageInit = [len |-> 0, bytes |-> bytes]
      BY DEF PageInit, bytes
<1> QED BY <1>2, <1>3 DEF Pages, Buffer

\* A summary that fits has a blob that fits, whatever its version.
LEMMA BlobIsStorable ==
    ASSUME NEW s \in Summary, Fits(s), NEW version \in Byte
    PROVE  /\ Storable(blob(s, version)) /\ ~TooLarge(blob(s, version))
           /\ blob(s, version)[1] = version
<1> DEFINE n == Cardinality(Column)
           data == blob(s, version)
<1>1. n \in Nat /\ Column = 1 .. n
      BY ColumnIsUpTo
<1> HIDE DEF n
<1>2. PICK flat : Flat(flat, s, n)
      BY <1>1, FlatExists
<1>3. /\ flat[n] \in Seq(Byte) /\ data \in Seq(Byte) /\ Len(data) = 3 + Len(flat[n])
      /\ data[1] = version
      BY <1>2, BlobParts DEF n
<1>4. ~TooLarge(data)
      BY FitsIsLengthTest
<1> HIDE DEF data
<1>5. Len(flat[n]) \in Nat /\ max_blob_len \in Nat
      BY <1>3, LenProperties, FormatAssumption
<1>6. Len(data) \in 1 .. max_blob_len
      BY <1>3, <1>4, <1>5 DEF TooLarge
<1> QED BY <1>3, <1>4, <1>6 DEF Storable, data

\* What is on the page after serialize(s) was put there reads back as s.
LEMMA PutRead ==
    ASSUME NEW b \in Pages, NEW s \in Summary, Fits(s)
    PROVE  /\ put_blob(b, serialize(s)) \in Pages /\ put_blob(b, serialize(s)) # None
           /\ page_blob(put_blob(b, serialize(s))) = serialize(s)
           /\ deserialize(page_blob(put_blob(b, serialize(s)))) = cols(s)
           /\ ~TooLarge(serialize(s))
<1>1. Storable(serialize(s)) /\ ~TooLarge(serialize(s))
      BY BlobIsStorable, FormatAssumption DEF serialize
<1> QED BY <1>1, PutBlob, BlobRead

\* Different summaries have different columns, when the texts are spelt out.
LEMMA ColsTell ==
    ASSUME NEW s \in Summary, NEW t \in Summary, cols(s) = cols(t)
    PROVE  s = t
<1>1. \A x, y \in Text : Bytes[x] = Bytes[y] => x = y
      BY FormatAssumption DEF IsInjective
<1>2. \A x \in Text : Bytes[x] # None
      BY FormatAssumption
<1>3. ASSUME NEW c \in Column PROVE s[c] = t[c]
  <2>1. /\ s[c] \in ColSummary /\ t[c] \in ColSummary /\ s[c].collation = t[c].collation
        BY DEF Summary
  <2>2. /\ s[c].min \in Text \cup {None} /\ s[c].max \in Text \cup {None}
        /\ t[c].min \in Text \cup {None} /\ t[c].max \in Text \cup {None}
        BY <2>1 DEF ColSummary, Bound
  <2>3. ColumnOf(s, c) = ColumnOf(t, c)
    <3>1. cols(s)[c] = ColumnOf(s, c) /\ cols(t)[c] = ColumnOf(t, c)
          BY DEF cols
    <3> QED BY <3>1
  <2>4. /\ ColumnOf(s, c).has_nulls = s[c].has_nulls /\ ColumnOf(t, c).has_nulls = t[c].has_nulls
        /\ ColumnOf(s, c).all_nulls = s[c].all_nulls /\ ColumnOf(t, c).all_nulls = t[c].all_nulls
        /\ ColumnOf(s, c).unbounded = s[c].unbounded /\ ColumnOf(t, c).unbounded = t[c].unbounded
        /\ ColumnOf(s, c).min = IF s[c].min = None THEN None ELSE Bytes[s[c].min]
        /\ ColumnOf(t, c).min = IF t[c].min = None THEN None ELSE Bytes[t[c].min]
        /\ ColumnOf(s, c).max = IF s[c].max = None THEN None ELSE Bytes[s[c].max]
        /\ ColumnOf(t, c).max = IF t[c].max = None THEN None ELSE Bytes[t[c].max]
        BY DEF ColumnOf
  <2>5. s[c].min = t[c].min /\ s[c].max = t[c].max
        BY <1>1, <1>2, <2>2, <2>3, <2>4
  <2> QED BY <2>1, <2>3, <2>4, <2>5, SameColumn
<1>4. s = [c \in Column |-> s[c]] /\ t = [c \in Column |-> t[c]]
      BY DEF Summary
<1> QED BY <1>3, <1>4

\* What an insert may store next is a summary that fits.
LEMMA WidenedFits ==
    ASSUME TypeOK, NEW s \in WidenedNext, Written
    PROVE  s \in Summary /\ Fits(s)
<1>1. PICK row \in Input : s = Widened(page, row)
      BY DEF WidenedNext
<1>2. Fits(s)
      BY DEF WidenedNext
<1>3. Widened(page, row) \in Summary
      BY WidenedCovers, BuildAssumption DEF Written
<1> QED BY <1>1, <1>2, <1>3

\* A summary that fits reads back, from a new page or over an older one.
LEMMA SummariesReadBack ==
    ASSUME TypeOK, PageFits
    PROVE  ReadsBack
<1> SUFFICES ASSUME Written PROVE ReadsBack
    BY DEF ReadsBack
<1> DEFINE built == write_blob(serialize(page))
<1>1. page \in Summary /\ Fits(page)
      BY DEF PageFits, Written
<1>2. PageInit \in Pages
      BY PageInitIsPage
<1>3. built = put_blob(PageInit, serialize(page))
      BY <1>1, <1>2, PutRead DEF write_blob
<1>4. /\ built \in Pages /\ built # None /\ page_blob(built) = serialize(page)
      /\ deserialize(page_blob(built)) = cols(page)
      BY <1>1, <1>2, <1>3, PutRead
<1> HIDE DEF built
<1>5. ASSUME NEW s \in WidenedNext
      PROVE  /\ replace_blob_if(built, serialize(page), serialize(s)) # None
             /\ deserialize(page_blob(replace_blob_if(built, serialize(page), serialize(s)))) = cols(s)
  <2>1. s \in Summary /\ Fits(s)
        BY WidenedFits
  <2>2. ~TooLarge(serialize(s))
        BY <2>1, <1>4, PutRead
  <2>3. replace_blob_if(built, serialize(page), serialize(s)) = put_blob(built, serialize(s))
        BY <1>4, <2>2 DEF replace_blob_if
  <2> QED BY <1>4, <2>1, <2>3, PutRead
<1>6. ASSUME NEW version \in OtherVersion
      PROVE  deserialize(page_blob(write_blob(blob(page, version)))) = None
  <2> DEFINE data == blob(page, version)
  <2>1. version \in Byte /\ version # SUMMARY_VERSION
        BY FormatAssumption
  <2>2. Storable(data) /\ ~TooLarge(data) /\ data[1] = version
        BY <1>1, <2>1, BlobIsStorable
  <2> HIDE DEF data
  <2>3. page_blob(write_blob(data)) = data
        BY <1>2, <2>2, PutBlob DEF write_blob
  <2>4. deserialize(data) = None
        BY <2>1, <2>2 DEF deserialize
  <2> QED BY <2>3, <2>4 DEF data
<1> QED BY <1>4, <1>5, <1>6 DEF ReadsBack, built

\* The blobs of different summaries differ.
LEMMA BlobsTell ==
    ASSUME TypeOK, PageFits
    PROVE  BlobTellsSummary
<1> SUFFICES ASSUME Written, NEW read \in WidenedNext \cup {page}, NEW s \in WidenedNext,
                    read # page, s # page
             PROVE  replace_blob_if(write_blob(serialize(page)), serialize(read), serialize(s))
                        = write_blob(serialize(page))
    BY DEF BlobTellsSummary
<1> DEFINE built == write_blob(serialize(page))
<1>1. page \in Summary /\ Fits(page)
      BY DEF PageFits, Written
<1>2. PageInit \in Pages
      BY PageInitIsPage
<1>3. built = put_blob(PageInit, serialize(page))
      BY <1>1, <1>2, PutRead DEF write_blob
<1>4. built \in Pages /\ page_blob(built) = serialize(page)
      BY <1>1, <1>2, <1>3, PutRead
<1> HIDE DEF built
<1>5. read \in Summary /\ Fits(read) /\ s \in Summary /\ Fits(s)
      BY <1>1, WidenedFits
<1>6. ~TooLarge(serialize(s))
      BY <1>4, <1>5, PutRead
<1>7. serialize(page) # serialize(read)
  <2>1. deserialize(serialize(page)) = cols(page) /\ deserialize(serialize(read)) = cols(read)
        BY <1>1, <1>5, BlobRead
  <2>2. cols(page) # cols(read)
        BY <1>1, <1>5, ColsTell
  <2> QED BY <2>1, <2>2
<1>8. replace_blob_if(built, serialize(read), serialize(s)) = built
      BY <1>4, <1>6, <1>7 DEF replace_blob_if
<1> QED BY <1>8 DEF built

(***************************************************************************)
(* Whatever was scanned and inserted, in whatever order, the summary that  *)
(* is read from the metapage is the one that was stored last, bytes of     *)
(* longer blobs behind it or not; and a blob of another version is not     *)
(* read (page_blob, IndexSummary::deserialize).                            *)
(***************************************************************************)
THEOREM BlobsAlwaysReadBack == Spec => []ReadsBack
<1>1. TypeOK /\ PageFits => ReadsBack
      BY SummariesReadBack
<1> QED BY <1>1, BuildTypeCorrect, AlwaysPageFits, PTL

(***************************************************************************)
(* The compare-and-swap of widen_on_insert may compare bytes: no two       *)
(* summaries that a session may have read and that the page may hold have  *)
(* the same blob (replace_blob_if).                                        *)
(***************************************************************************)
THEOREM BlobsAlwaysTell == Spec => []BlobTellsSummary
<1>1. TypeOK /\ PageFits => BlobTellsSummary
      BY BlobsTell
<1> QED BY <1>1, BuildTypeCorrect, AlwaysPageFits, PTL
=============================================================================
