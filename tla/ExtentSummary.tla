---------------------------- MODULE ExtentSummary ----------------------------
(***************************************************************************)
(* A column whose summary is a covering extent (`overlap`): a range type,  *)
(* merged value by value, or a PostGIS geometry, whose bounding box is     *)
(* asked of ST_Extent for a batch of values at a time.  An `&&` clause is  *)
(* decided by the clause's own operator on the extent.                     *)
(*                                                                         *)
(* A value is the set of points it occupies, empty ones included; Hull is  *)
(* the least extent around a set of points.  Two values overlap if their   *)
(* hulls do: a range is its own hull, and `&&` of geometries compares      *)
(* boxes.  The extent is stored in `min`; `max` is not used.               *)
(***************************************************************************)
EXTENDS Naturals, SequencesExt

CONSTANTS
    Point,
    Hull,           \* Hull[S]: what the extent around S occupies
    Shape,          \* the values of columns and constants of clauses
    Unrendered,     \* extents whose text is not UTF-8
    TooLong,        \* extents whose text does not fit the page
    Null,           \* SQL NULL
    None,           \* Option::None
    GEOMETRY_BATCH,
    MaxRows         \* bound: rows that the build scans

ASSUME ExtentAssumption ==
    /\ Hull \in [SUBSET Point -> SUBSET Point]
    /\ Hull[{}] = {}
    /\ \A S \in SUBSET Point : S \subseteq Hull[S] /\ Hull[Hull[S]] = Hull[S]
    /\ \A S, T \in SUBSET Point : S \subseteq T => Hull[S] \subseteq Hull[T]
    /\ Shape \subseteq SUBSET Point /\ Null \notin Shape
    /\ \A S \in SUBSET Point : S # None
    /\ GEOMETRY_BATCH \in Nat \ {0} /\ MaxRows \in Nat

VARIABLES
    acc,            \* the build's accumulator of the column (ColumnBuild)
    live,           \* buffers of the build that are allocated
    rows,           \* values in the partition
    col             \* the stored summary, None until the build is over

vars == <<acc, live, rows, col>>

Extent == (SUBSET Point) \cup {None}

\* `at` is where a range's extent is: a buffer of the build, 1 or 2, or the
\* tuple that the scan is at, 0.  A domain's name is not that of its base type.
Accumulator ==
    [type : {"Range", "Geometry"}, domain : BOOLEAN, extent : Extent,
     at : 0 .. 2, batch : Seq(Shape), nonnull : Nat, nulls : Nat]

ColSummary == [min : Extent, has_nulls : BOOLEAN, all_nulls : BOOLEAN, unbounded : BOOLEAN]

ASSUME StoredAssumption == None \notin ColSummary

TypeOK ==
    /\ acc \in Accumulator /\ Len(acc.batch) < GEOMETRY_BATCH
    /\ live \subseteq {1, 2}
    /\ rows \subseteq Shape \cup {Null}
    /\ col = None \/ col \in ColSummary

Values == {v \in Shape : acc.type = "Range" => Hull[v] = v}

Points == UNION (rows \ {Null})

Joined(extent, v) == IF extent = None THEN v ELSE Hull[extent \cup v]

make_unbounded(c) == [c EXCEPT !.unbounded = TRUE, !.min = None]

\* A geometry's text is hexadecimal.
datum_to_text(extent) ==
    IF acc.type = "Range" /\ extent \in Unrendered THEN None ELSE extent

encode_fitting(c) == IF c.min \in TooLong THEN make_unbounded(c) ELSE c

-----------------------------------------------------------------------------
(* The build: summary_build.rs.                                            *)

plan_columns ==
    [type : {"Range", "Geometry"}, domain : BOOLEAN, extent : {None}, at : {0},
     batch : {<<>>}, nonnull : {0}, nulls : {0}]

Init ==
    /\ acc \in plan_columns
    /\ live = {}
    /\ rows = {}
    /\ col = None

\* Where range_merge may leave its result: an input that is the result may be
\* handed back.
range_merge(old, v) ==
    (IF Joined(old, v) = old THEN {"old"} ELSE {})
        \cup (IF Joined(old, v) = v THEN {"value"} ELSE {}) \cup {"new"}

\* Mutant of Freed: the extent is freed whenever values were merged.
FreedAlways(merged) == {acc.at}

\* The extent so far, unless it is the result as well.
Freed(merged) == IF merged = "old" THEN {} ELSE {acc.at}

\* Accumulator::Range: a result in the tuple is copied out of it.
add_range(v) ==
    /\ acc.type = "Range"
    /\ \E merged \in IF acc.extent = None THEN {"value"} ELSE range_merge(acc.extent, v) :
           LET at == IF merged = "old" THEN acc.at ELSE IF acc.at = 1 THEN 2 ELSE 1
           IN  /\ acc' = [acc EXCEPT !.nonnull = @ + 1, !.extent = Joined(@, v), !.at = at]
               /\ live' = (live \ Freed(merged)) \cup ({at} \ {acc.at})

\* Mutant of flush_geometry: the extent of earlier batches is forgotten.
flush_geometry_afresh(extent, batch) ==
    LET covered == UNION {batch[i] : i \in DOMAIN batch}
    IN  IF batch = <<>> THEN extent ELSE IF covered = {} THEN None ELSE Hull[covered]

\* ST_Extent of the batch and of the extent so far: NULL if all are empty.
flush_geometry(extent, batch) ==
    LET covered == (UNION {batch[i] : i \in DOMAIN batch})
                       \cup (IF extent = None THEN {} ELSE extent)
    IN  IF covered = {} THEN None ELSE Hull[covered]

\* Mutant of add_geometry: a batch is flushed once it is larger than it may be.
add_geometry_late(v) ==
    /\ acc.type = "Geometry"
    /\ LET batch == Append(acc.batch, v)
           full == Len(batch) > GEOMETRY_BATCH
       IN  acc' = [acc EXCEPT !.nonnull = @ + 1,
                              !.batch = IF full THEN <<>> ELSE batch,
                              !.extent = IF full THEN flush_geometry(@, batch) ELSE @]
    /\ UNCHANGED live

add_geometry(v) ==
    /\ acc.type = "Geometry"
    /\ LET batch == Append(acc.batch, v)
           full == Len(batch) >= GEOMETRY_BATCH
       IN  acc' = [acc EXCEPT !.nonnull = @ + 1,
                              !.batch = IF full THEN <<>> ELSE batch,
                              !.extent = IF full THEN flush_geometry(@, batch) ELSE @]
    /\ UNCHANGED live

build_callback(v) ==
    /\ col = None
    /\ acc.nonnull + acc.nulls < MaxRows
    /\ rows' = rows \cup {v}
    /\ IF v = Null
       THEN acc' = [acc EXCEPT !.nulls = @ + 1] /\ UNCHANGED live
       ELSE add_range(v) \/ add_geometry(v)
    /\ UNCHANGED col

finish ==
    LET geometry == acc.type = "Geometry"
        min == IF geometry THEN flush_geometry(acc.extent, acc.batch)
               ELSE IF acc.extent = None THEN None ELSE datum_to_text(acc.extent)
        out == [min |-> min, has_nulls |-> acc.nulls > 0,
                all_nulls |-> acc.nonnull = 0 /\ acc.nulls > 0, unbounded |-> FALSE]
    IN  IF ~geometry /\ min = None /\ acc.nonnull > 0 THEN make_unbounded(out) ELSE out

am_build ==
    /\ col = None
    /\ col' = encode_fitting(finish)
    /\ live' = {}
    /\ UNCHANGED <<acc, rows>>

-----------------------------------------------------------------------------
(* Inserts: index_am.rs, widen_column and widen_overlap.                   *)

\* The extent with the value, which may have none; geometry is told by the name
\* of the column's type.
Widened(v) ==
    IF acc.type = "Geometry" /\ ~acc.domain
    THEN flush_geometry(col.min, <<v>>)
    ELSE Joined(col.min, v)

\* range_merge of what is no range: the insert fails.
Raises(v) ==
    v # Null /\ ~col.unbounded /\ acc.type = "Geometry" /\ acc.domain /\ col.min # None

widen_overlap(v) ==
    LET seen == [col EXCEPT !.all_nulls = FALSE]
    IN  IF Widened(v) = None THEN seen
        ELSE IF datum_to_text(Widened(v)) = None THEN make_unbounded(seen)
        ELSE [seen EXCEPT !.min = Widened(v)]

widen_column(v) ==
    IF v = Null THEN [col EXCEPT !.has_nulls = TRUE]
    ELSE IF col.unbounded THEN [col EXCEPT !.all_nulls = FALSE]
    ELSE widen_overlap(v)

am_insert(v) ==
    /\ col # None
    /\ ~Raises(v)
    /\ rows' = rows \cup {v}
    /\ col' = encode_fitting(widen_column(v))
    /\ UNCHANGED <<acc, live>>

Next ==
    \/ \E v \in Values \cup {Null} : build_callback(v) \/ am_insert(v)
    \/ am_build

Spec == Init /\ [][Next]_vars

-----------------------------------------------------------------------------
(* Pruning: prune_hook.rs.  An operator named `&&` of another schema may   *)
(* mean anything: here, that its operands do not overlap.                  *)

Clause ==
    [kind : {"overlap"}, overlaps : BOOLEAN, k : Shape]
    \cup [kind : {"null"}, is_null : BOOLEAN]

Overlaps(a, b) == Hull[a] \cap Hull[b] # {}

\* Mutant of is_trusted_overlap_op: any operator of that name is.
is_trusted_overlap_op_by_name(clause) == clause.kind = "overlap"

\* Of pg_catalog, or of the schema of the column's type.
is_trusted_overlap_op(clause) == clause.kind = "overlap" /\ clause.overlaps

eval_overlap(k) ==
    /\ ~col.unbounded /\ col.min # None
    /\ ~Overlaps(col.min, k)

proves_prune(clause) ==
    \/ clause.kind = "null" /\ (IF clause.is_null THEN ~col.has_nulls ELSE col.all_nulls)
    \/ is_trusted_overlap_op(clause) /\ eval_overlap(clause.k)

Matches(clause, v) ==
    \/ clause.kind = "null" /\ (clause.is_null <=> v = Null)
    \/ clause.kind = "overlap" /\ v # Null /\ (clause.overlaps <=> Overlaps(v, clause.k))

-----------------------------------------------------------------------------
\* However values were batched, merged and inserted, no clause that a row
\* matches prunes the partition.
PruneLosesNoRow ==
    col # None =>
        \A clause \in Clause : proves_prune(clause) => \A v \in rows : ~Matches(clause, v)

\* The extent is neither narrower nor wider than the values: where batches end,
\* and what was built and what inserted, makes no difference to it.
ExtentIsExact ==
    (col # None /\ ~col.unbounded) =>
        /\ Hull[IF col.min = None THEN {} ELSE col.min] = Hull[Points]
        /\ col.has_nulls = (Null \in rows)
        /\ col.all_nulls => rows = {Null}

\* The accumulated range is in one buffer of the build, and no other is left
\* allocated, whichever of its arguments range_merge hands back.
ExtentIsOwned ==
    col = None =>
        live = IF acc.type = "Range" /\ acc.extent # None THEN {acc.at} ELSE {}
=============================================================================
