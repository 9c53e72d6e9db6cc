------------------------ MODULE ExtentSummary_proofs ------------------------
(***************************************************************************)
(* The covering extent of any set of values, in any order of scanning,     *)
(* batching, merging and inserting them.  All that is used of extents is   *)
(* that Hull is a closure operator.                                        *)
(***************************************************************************)
EXTENDS ExtentSummary, SequenceTheorems, TLAPS

\* What an extent that may be missing occupies, and the values of a batch.
Occupied(extent) == IF extent = None THEN {} ELSE extent

InBatch(batch) == UNION {batch[i] : i \in DOMAIN batch}

\* The accumulator's extent and the values that wait for the next flush are
\* worth as much as all the values scanned; a range's extent is in a buffer.
BuildInv ==
    /\ Hull[InBatch(acc.batch) \cup Occupied(acc.extent)] = Hull[Points]
    /\ acc.nulls > 0 <=> Null \in rows
    /\ acc.nonnull > 0 <=> rows \ {Null} # {}
    /\ acc.type = "Range" =>
           /\ acc.batch = <<>>
           /\ acc.extent = None <=> acc.at = 0
           /\ acc.extent = None <=> acc.nonnull = 0
    /\ ExtentIsOwned

\* A summary's extent occupies what the values do, and its flags are right even
\* when it has no extent.
Describes(c, values) ==
    /\ ~c.unbounded => Hull[Occupied(c.min)] = Hull[UNION (values \ {Null})]
    /\ c.has_nulls = (Null \in values)
    /\ c.all_nulls => values = {Null}

IInv ==
    /\ TypeOK
    /\ col = None => BuildInv
    /\ col # None => Describes(col, rows)

(***************************************************************************)
(* What a closure operator is, for one set and for two.                    *)
(***************************************************************************)
LEMMA HullOf ==
    ASSUME NEW S \in SUBSET Point
    PROVE  Hull[S] \in SUBSET Point /\ S \subseteq Hull[S] /\ Hull[Hull[S]] = Hull[S]
BY ExtentAssumption

LEMMA HullMonotone ==
    ASSUME NEW S \in SUBSET Point, NEW T \in SUBSET Point, S \subseteq T
    PROVE  Hull[S] \subseteq Hull[T]
BY ExtentAssumption

(***************************************************************************)
(* Extents of the same hull stay so when the same values are added.        *)
(***************************************************************************)
LEMMA SameHull ==
    ASSUME NEW S \in SUBSET Point, NEW T \in SUBSET Point, NEW V \in SUBSET Point,
           Hull[S] = Hull[T]
    PROVE  Hull[S \cup V] = Hull[T \cup V]
<1>1. ASSUME NEW A \in SUBSET Point, NEW B \in SUBSET Point, Hull[A] = Hull[B]
      PROVE  Hull[A \cup V] \subseteq Hull[B \cup V]
  <2> DEFINE all == B \cup V
  <2>1. all \in SUBSET Point /\ B \subseteq all /\ V \subseteq all
        OBVIOUS
  <2> HIDE DEF all
  <2>2. Hull[all] \in SUBSET Point /\ all \subseteq Hull[all] /\ Hull[Hull[all]] = Hull[all]
        BY <2>1, HullOf
  <2>3. A \subseteq Hull[A] /\ Hull[B] \subseteq Hull[all]
        BY <2>1, HullOf, HullMonotone
  <2>4. A \cup V \subseteq Hull[all] /\ A \cup V \in SUBSET Point
        BY <1>1, <2>1, <2>2, <2>3
  <2>5. Hull[A \cup V] \subseteq Hull[Hull[all]]
        BY <2>2, <2>4, HullMonotone
  <2>6. Hull[A \cup V] \subseteq Hull[all]
        BY <2>2, <2>5
  <2> QED BY <2>6 DEF all
<1>2. Hull[S \cup V] \subseteq Hull[T \cup V] /\ Hull[T \cup V] \subseteq Hull[S \cup V]
      BY <1>1
<1> QED BY <1>2

LEMMA InBatchAppend ==
    ASSUME NEW batch \in Seq(Shape), NEW v \in Shape
    PROVE  /\ InBatch(Append(batch, v)) = InBatch(batch) \cup v
           /\ InBatch(batch) \in SUBSET Point
<1>1. /\ DOMAIN Append(batch, v) = 1 .. Len(batch) + 1 /\ DOMAIN batch = 1 .. Len(batch)
      /\ Len(batch) \in Nat
      /\ \A i \in DOMAIN batch : Append(batch, v)[i] = batch[i]
      /\ Append(batch, v)[Len(batch) + 1] = v
      BY AppendProperties, LenProperties
<1>2. \A p : p \in InBatch(Append(batch, v)) <=> p \in InBatch(batch) \/ p \in v
      BY <1>1 DEF InBatch
<1>3. \A i \in DOMAIN batch : batch[i] \in Shape
      OBVIOUS
<1> QED BY <1>2, <1>3, ExtentAssumption DEF InBatch

(***************************************************************************)
(* Joining and flushing change what an extent occupies to the hull of that *)
(* and of the new values; neither makes an extent of nothing out of some.  *)
(***************************************************************************)
LEMMA JoinedHull ==
    ASSUME NEW extent \in Extent, NEW v \in SUBSET Point
    PROVE  /\ Joined(extent, v) \in SUBSET Point /\ Joined(extent, v) # None
           /\ Hull[Occupied(Joined(extent, v))] = Hull[Occupied(extent) \cup v]
<1> DEFINE joined == Joined(extent, v)
           covered == Occupied(extent) \cup v
<1>1. covered \in SUBSET Point
      BY DEF Occupied, Extent
<1>2. joined = IF extent = None THEN covered ELSE Hull[covered]
      BY DEF Joined, Occupied
<1> HIDE DEF joined, covered
<1>3. joined \in SUBSET Point /\ Hull[joined] = Hull[covered]
      BY <1>1, <1>2, HullOf
<1>4. joined # None
      BY <1>3, ExtentAssumption
<1>5. Hull[Occupied(joined)] = Hull[covered]
      BY <1>3, <1>4 DEF Occupied
<1> QED BY <1>3, <1>4, <1>5 DEF joined, covered

LEMMA FlushedHull ==
    ASSUME NEW extent \in Extent, NEW batch \in Seq(Shape)
    PROVE  /\ flush_geometry(extent, batch) \in Extent
           /\ Hull[Occupied(flush_geometry(extent, batch))]
                  = Hull[InBatch(batch) \cup Occupied(extent)]
           /\ flush_geometry(extent, batch) = None <=> InBatch(batch) \cup Occupied(extent) = {}
<1> DEFINE flushed == flush_geometry(extent, batch)
           covered == InBatch(batch) \cup Occupied(extent)
<1>1. covered \in SUBSET Point
  <2>1. \A i \in DOMAIN batch : batch[i] \in Shape
        OBVIOUS
  <2>2. Shape \subseteq SUBSET Point
        BY ExtentAssumption
  <2> QED BY <2>1, <2>2 DEF Occupied, Extent, InBatch
<1>2. flushed = IF covered = {} THEN None ELSE Hull[covered]
      BY DEF flush_geometry, Occupied, InBatch
<1> HIDE DEF flushed, covered
<1>3. Hull[covered] \in SUBSET Point /\ Hull[Hull[covered]] = Hull[covered] /\ Hull[covered] # None
  <2>1. Hull[covered] \in SUBSET Point /\ Hull[Hull[covered]] = Hull[covered]
        BY <1>1, HullOf
  <2> QED BY <2>1, ExtentAssumption
<1>4. CASE covered = {}
      BY <1>2, <1>4 DEF Extent, Occupied, flushed, covered
<1>5. CASE covered # {}
  <2>1. flushed \in Extent /\ Hull[Occupied(flushed)] = Hull[covered] /\ flushed # None
        BY <1>2, <1>3, <1>5 DEF Extent, Occupied
  <2> QED BY <1>5, <2>1 DEF flushed, covered
<1> QED BY <1>4, <1>5

-----------------------------------------------------------------------------
LEMMA InitIInv == Init => IInv
<1> SUFFICES ASSUME Init PROVE IInv
    OBVIOUS
<1>1. /\ acc.extent = None /\ acc.at = 0 /\ acc.batch = <<>> /\ acc.nonnull = 0 /\ acc.nulls = 0
      /\ acc.type \in {"Range", "Geometry"} /\ live = {} /\ rows = {} /\ col = None
      BY DEF Init, plan_columns
<1>2. acc \in Accumulator /\ Len(acc.batch) < GEOMETRY_BATCH
  <2>1. acc \in Accumulator
    <3>1. <<>> \in Seq(Shape) /\ None \in Extent
          BY DEF Extent
    <3>2. acc = [type |-> acc.type, domain |-> acc.domain, extent |-> None, at |-> 0,
                 batch |-> <<>>, nonnull |-> 0, nulls |-> 0]
          BY DEF Init, plan_columns
    <3>3. acc.type \in {"Range", "Geometry"} /\ acc.domain \in BOOLEAN
          BY DEF Init, plan_columns
    <3> DEFINE type == acc.type
               domain == acc.domain
    <3> HIDE DEF type, domain
    <3>4. [type |-> type, domain |-> domain, extent |-> None, at |-> 0, batch |-> <<>>,
           nonnull |-> 0, nulls |-> 0] \in Accumulator
          BY <3>1, <3>3 DEF Accumulator, type, domain
    <3> QED BY <3>2, <3>4 DEF type, domain
  <2> QED BY <1>1, <2>1, EmptySeq, ExtentAssumption
<1>3. TypeOK
      BY <1>1, <1>2 DEF TypeOK
<1>4. InBatch(acc.batch) \cup Occupied(acc.extent) = {} /\ Points = {}
      BY <1>1 DEF InBatch, Occupied, Points
<1>5. BuildInv
  <2>1. Hull[InBatch(acc.batch) \cup Occupied(acc.extent)] = Hull[Points]
        BY <1>4
  <2>2. ExtentIsOwned
        BY <1>1 DEF ExtentIsOwned
  <2> QED BY <1>1, <2>1, <2>2 DEF BuildInv
<1> QED BY <1>1, <1>3, <1>5 DEF IInv

\* Another value, or NULL, among the rows.
LEMMA AnotherRow ==
    ASSUME TypeOK, NEW v \in Shape \cup {Null}, rows' = rows \cup {v}
    PROVE  /\ rows' \subseteq Shape \cup {Null} /\ Points \in SUBSET Point
           /\ v = Null => Points' = Points /\ Null \in rows' /\ rows' \ {Null} = rows \ {Null}
           /\ v # Null => /\ v \in SUBSET Point /\ Points' = Points \cup v
                          /\ (Null \in rows' <=> Null \in rows) /\ rows' \ {Null} # {}
<1>1. Shape \subseteq SUBSET Point /\ Null \notin Shape
      BY ExtentAssumption
<1>2. rows \subseteq Shape \cup {Null}
      BY DEF TypeOK
<1>3. \A p : p \in Points <=> \E r \in rows \ {Null} : p \in r
      BY DEF Points
<1>4. \A p : p \in Points' <=> \E r \in rows' \ {Null} : p \in r
      BY DEF Points
<1>5. Points \in SUBSET Point
      BY <1>1, <1>2, <1>3
<1>6. CASE v = Null
      BY <1>2, <1>3, <1>4, <1>5, <1>6
<1>7. CASE v # Null
  <2>1. Points' = Points \cup v
        BY <1>3, <1>4, <1>7
  <2> QED BY <1>1, <1>2, <1>5, <1>7, <2>1
<1> QED BY <1>6, <1>7

(***************************************************************************)
(* A NULL is counted.                                                      *)
(***************************************************************************)
LEMMA NullBuilt ==
    ASSUME IInv, build_callback(Null)
    PROVE  IInv'
<1>1. /\ col = None /\ col' = None /\ rows' = rows \cup {Null} /\ live' = live
      /\ acc' = [acc EXCEPT !.nulls = @ + 1]
      BY DEF build_callback
<1>2. TypeOK /\ BuildInv
      BY <1>1 DEF IInv
<1>3. /\ acc' \in Accumulator /\ acc'.type = acc.type /\ acc'.extent = acc.extent
      /\ acc'.at = acc.at /\ acc'.batch = acc.batch
      /\ acc'.nonnull = acc.nonnull /\ acc'.nulls > 0
      BY <1>1, <1>2 DEF TypeOK, Accumulator
<1>4. TypeOK'
      BY <1>1, <1>2, <1>3, AnotherRow DEF TypeOK
<1>5. Points' = Points /\ Null \in rows' /\ rows' \ {Null} = rows \ {Null}
      BY <1>1, <1>2, AnotherRow
<1>6. BuildInv'
      BY <1>1, <1>2, <1>3, <1>5 DEF BuildInv, ExtentIsOwned
<1> QED BY <1>1, <1>4, <1>6 DEF IInv

(***************************************************************************)
(* A range is joined to the extent, and where its result is depends on     *)
(* what range_merge hands back.                                            *)
(***************************************************************************)
LEMMA RangeBuilt ==
    ASSUME IInv, NEW v \in Shape, build_callback(v), add_range(v)
    PROVE  IInv'
<1>1. /\ col = None /\ col' = None /\ rows' = rows \cup {v} /\ v # Null
      /\ acc.type = "Range"
      BY ExtentAssumption DEF build_callback, add_range
<1>2. /\ TypeOK /\ BuildInv /\ acc \in Accumulator /\ acc.batch = <<>> /\ acc.extent \in Extent
      /\ acc.at \in 0 .. 2
      /\ live = IF acc.extent # None THEN {acc.at} ELSE {}
      /\ acc.extent = None <=> acc.at = 0
      BY <1>1 DEF IInv, BuildInv, ExtentIsOwned, TypeOK, Accumulator
<1>3. /\ v \in SUBSET Point /\ Points \in SUBSET Point /\ Points' = Points \cup v
      /\ (Null \in rows' <=> Null \in rows) /\ rows' \ {Null} # {}
      /\ rows' \subseteq Shape \cup {Null}
      BY <1>1, <1>2, AnotherRow
<1>4. PICK merged \in {"old", "value", "new"} :
          LET at == IF merged = "old" THEN acc.at ELSE IF acc.at = 1 THEN 2 ELSE 1
          IN  /\ acc.extent = None => merged = "value"
              /\ acc' = [acc EXCEPT !.nonnull = @ + 1, !.extent = Joined(@, v), !.at = at]
              /\ live' = (live \ Freed(merged)) \cup ({at} \ {acc.at})
      BY DEF add_range, range_merge
<1> DEFINE at == IF merged = "old" THEN acc.at ELSE IF acc.at = 1 THEN 2 ELSE 1
<1>5. /\ at \in 1 .. 2
      /\ acc.extent # None => (merged = "old" <=> at = acc.at)
      BY <1>2, <1>4
<1>6. live' = {at}
      BY <1>2, <1>4, <1>5 DEF Freed
<1>7. /\ Joined(acc.extent, v) \in Extent /\ Joined(acc.extent, v) # None
      /\ Hull[Occupied(Joined(acc.extent, v))] = Hull[Occupied(acc.extent) \cup v]
      BY <1>2, <1>3, JoinedHull DEF Extent
<1>8. /\ acc' \in Accumulator /\ acc'.type = "Range" /\ acc'.batch = <<>> /\ acc'.at = at
      /\ acc'.extent = Joined(acc.extent, v)
      /\ acc'.nulls = acc.nulls /\ acc'.nonnull > 0
  <2> DEFINE joined == Joined(acc.extent, v)
  <2>1. acc' = [acc EXCEPT !.nonnull = acc.nonnull + 1, !.extent = joined, !.at = at]
        BY <1>4
  <2>2. joined \in Extent /\ at \in 0 .. 2 /\ acc.nonnull + 1 \in Nat /\ acc.nonnull + 1 > 0
        BY <1>2, <1>5, <1>7 DEF Accumulator
  <2> HIDE DEF joined, at
  <2> QED BY <1>1, <1>2, <2>1, <2>2 DEF Accumulator, joined
<1>9. TypeOK'
      BY <1>1, <1>2, <1>3, <1>5, <1>6, <1>8, ExtentAssumption DEF TypeOK
<1>10. Hull[InBatch(acc'.batch) \cup Occupied(acc'.extent)] = Hull[Points']
  <2>1. InBatch(<<>>) = {} /\ Occupied(acc.extent) \in SUBSET Point
        BY <1>2 DEF InBatch, Occupied, Extent
  <2>2. Hull[Occupied(acc.extent)] = Hull[Points]
        BY <1>2, <2>1 DEF BuildInv
  <2>3. Hull[Occupied(acc.extent) \cup v] = Hull[Points \cup v]
        BY <1>3, <2>1, <2>2, SameHull
  <2>4. InBatch(acc'.batch) \cup Occupied(acc'.extent) = Occupied(acc'.extent)
        BY <1>8, <2>1
  <2> QED BY <1>3, <1>7, <1>8, <2>3, <2>4
<1>11. BuildInv'
  <2>1. ExtentIsOwned'
        BY <1>1, <1>6, <1>7, <1>8 DEF ExtentIsOwned
  <2> QED BY <1>2, <1>3, <1>5, <1>7, <1>8, <1>10, <2>1 DEF BuildInv
<1> QED BY <1>1, <1>9, <1>11 DEF IInv

(***************************************************************************)
(* A geometry waits in the batch, or goes into the extent with it.         *)
(***************************************************************************)
LEMMA GeometryBuilt ==
    ASSUME IInv, NEW v \in Shape, build_callback(v), add_geometry(v)
    PROVE  IInv'
<1> DEFINE batch == Append(acc.batch, v)
           full == Len(batch) >= GEOMETRY_BATCH
<1>1. /\ col = None /\ col' = None /\ rows' = rows \cup {v} /\ v # Null
      /\ acc.type = "Geometry" /\ live' = live
      /\ acc' = [acc EXCEPT !.nonnull = @ + 1,
                            !.batch = IF full THEN <<>> ELSE batch,
                            !.extent = IF full THEN flush_geometry(@, batch) ELSE @]
      BY ExtentAssumption DEF build_callback, add_geometry
<1>2. /\ TypeOK /\ BuildInv /\ acc \in Accumulator /\ acc.batch \in Seq(Shape) /\ acc.extent \in Extent
      BY <1>1 DEF IInv, TypeOK, Accumulator
<1>3. /\ v \in SUBSET Point /\ Points \in SUBSET Point /\ Points' = Points \cup v
      /\ (Null \in rows' <=> Null \in rows) /\ rows' \ {Null} # {}
      /\ rows' \subseteq Shape \cup {Null}
      BY <1>1, <1>2, AnotherRow
<1>4. /\ batch \in Seq(Shape) /\ Len(batch) \in Nat /\ InBatch(batch) = InBatch(acc.batch) \cup v
      /\ InBatch(acc.batch) \in SUBSET Point
      BY <1>2, AppendProperties, LenProperties, InBatchAppend
<1>5. Hull[InBatch(batch) \cup Occupied(acc.extent)] = Hull[Points']
  <2> DEFINE covered == InBatch(acc.batch) \cup Occupied(acc.extent)
  <2>1. covered \in SUBSET Point /\ Hull[covered] = Hull[Points]
        BY <1>2, <1>4 DEF BuildInv, Occupied, Extent
  <2>2. InBatch(batch) \cup Occupied(acc.extent) = covered \cup v
        BY <1>4
  <2> HIDE DEF covered
  <2>3. Hull[covered \cup v] = Hull[Points \cup v]
        BY <1>3, <2>1, SameHull
  <2> QED BY <1>3, <2>2, <2>3
<1> HIDE DEF batch
<1>6. /\ flush_geometry(acc.extent, batch) \in Extent
      /\ Hull[Occupied(flush_geometry(acc.extent, batch))] = Hull[Points']
      BY <1>2, <1>4, <1>5, FlushedHull
<1>7. /\ acc' \in Accumulator /\ acc'.type = "Geometry" /\ acc'.at = acc.at
      /\ acc'.nulls = acc.nulls /\ acc'.nonnull > 0
      /\ acc'.batch = IF full THEN <<>> ELSE batch
      /\ acc'.extent = IF full THEN flush_geometry(acc.extent, batch) ELSE acc.extent
  <2> DEFINE left == IF full THEN <<>> ELSE batch
             extent == IF full THEN flush_geometry(acc.extent, batch) ELSE acc.extent
  <2>1. acc' = [acc EXCEPT !.nonnull = acc.nonnull + 1, !.batch = left, !.extent = extent]
        BY <1>1
  <2>2. left \in Seq(Shape) /\ extent \in Extent /\ acc.nonnull + 1 \in Nat /\ acc.nonnull + 1 > 0
        BY <1>2, <1>4, <1>6 DEF Accumulator
  <2> HIDE DEF left, extent
  <2>3. /\ acc' \in Accumulator /\ acc'.type = "Geometry" /\ acc'.at = acc.at
        /\ acc'.nulls = acc.nulls /\ acc'.nonnull > 0
        /\ acc'.batch = left /\ acc'.extent = extent
        BY <1>1, <1>2, <2>1, <2>2 DEF Accumulator
  <2> QED BY <2>3 DEF left, extent
<1>8. Len(acc'.batch) < GEOMETRY_BATCH
      BY <1>4, <1>7, ExtentAssumption
<1>9. TypeOK'
      BY <1>1, <1>2, <1>3, <1>7, <1>8 DEF TypeOK
<1>10. Hull[InBatch(acc'.batch) \cup Occupied(acc'.extent)] = Hull[Points']
  <2>1. CASE full
    <3>1. InBatch(acc'.batch) \cup Occupied(acc'.extent) = Occupied(flush_geometry(acc.extent, batch))
          BY <1>7, <2>1 DEF InBatch
    <3> QED BY <1>6, <3>1
  <2>2. CASE ~full
        BY <1>5, <1>7, <2>2
  <2> QED BY <2>1, <2>2
<1>11. BuildInv'
  <2>1. ExtentIsOwned'
        BY <1>1, <1>2, <1>7 DEF BuildInv, ExtentIsOwned
  <2> QED BY <1>2, <1>3, <1>7, <1>10, <2>1 DEF BuildInv
<1> QED BY <1>1, <1>9, <1>11 DEF IInv

-----------------------------------------------------------------------------
(* The stored summary.                                                     *)

(***************************************************************************)
(* An extent that does not fit is given up: what is left describes the     *)
(* rows as well.                                                           *)
(***************************************************************************)
LEMMA FittedDescribes ==
    ASSUME NEW c \in ColSummary, NEW values, Describes(c, values)
    PROVE  /\ encode_fitting(c) \in ColSummary /\ encode_fitting(c) # None
           /\ Describes(encode_fitting(c), values)
<1>1. CASE c.min \in TooLong
  <2>1. encode_fitting(c) = [c EXCEPT !.unbounded = TRUE, !.min = None]
        BY <1>1 DEF encode_fitting, make_unbounded
  <2>2. /\ encode_fitting(c) \in ColSummary /\ encode_fitting(c).unbounded
        /\ encode_fitting(c).has_nulls = c.has_nulls /\ encode_fitting(c).all_nulls = c.all_nulls
        BY <2>1 DEF ColSummary, Extent
  <2> QED BY <2>2, StoredAssumption DEF Describes
<1>2. CASE c.min \notin TooLong
      BY <1>2, StoredAssumption DEF encode_fitting
<1> QED BY <1>1, <1>2

LEMMA UnboundedDescribes ==
    ASSUME NEW c \in ColSummary, NEW values, c.has_nulls = (Null \in values),
           c.all_nulls => values = {Null}
    PROVE  make_unbounded(c) \in ColSummary /\ Describes(make_unbounded(c), values)
<1>1. /\ make_unbounded(c) \in ColSummary /\ make_unbounded(c).unbounded
      /\ make_unbounded(c).has_nulls = c.has_nulls /\ make_unbounded(c).all_nulls = c.all_nulls
      BY DEF make_unbounded, ColSummary, Extent
<1> QED BY <1>1 DEF Describes

(***************************************************************************)
(* What the accumulator has is what is stored, unless a range has no text. *)
(***************************************************************************)
LEMMA FinishDescribes ==
    ASSUME IInv, col = None
    PROVE  finish \in ColSummary /\ Describes(finish, rows)
<1> DEFINE geometry == acc.type = "Geometry"
           min == IF geometry THEN flush_geometry(acc.extent, acc.batch)
                  ELSE IF acc.extent = None THEN None ELSE datum_to_text(acc.extent)
           out == [min |-> min, has_nulls |-> acc.nulls > 0,
                   all_nulls |-> acc.nonnull = 0 /\ acc.nulls > 0, unbounded |-> FALSE]
<1>1. /\ BuildInv /\ acc.extent \in Extent /\ acc.batch \in Seq(Shape)
      /\ acc.type \in {"Range", "Geometry"} /\ acc.nonnull \in Nat /\ acc.nulls \in Nat
      BY DEF IInv, TypeOK, Accumulator
<1>2. finish = IF ~geometry /\ min = None /\ acc.nonnull > 0 THEN make_unbounded(out) ELSE out
      BY DEF finish
<1>3. min \in Extent
      BY <1>1, FlushedHull DEF datum_to_text, Extent
<1>4. ~(~geometry /\ min = None /\ acc.nonnull > 0) => Hull[Occupied(min)] = Hull[Points]
  <2>1. CASE geometry
        BY <1>1, <2>1, FlushedHull DEF BuildInv
  <2>2. CASE ~geometry /\ acc.extent = None
    <3>1. rows \ {Null} = {} /\ Occupied(min) = {}
          BY <1>1, <2>2 DEF BuildInv, Occupied
    <3> QED BY <3>1 DEF Points
  <2>3. CASE ~geometry /\ acc.extent # None
    <3>1. acc.nonnull > 0
          BY <1>1, <2>3 DEF BuildInv
    <3>2. CASE min = None
          BY <2>3, <3>1, <3>2
    <3>3. CASE min # None
      <4>1. min = acc.extent /\ acc.batch = <<>>
            BY <1>1, <2>3, <3>3 DEF datum_to_text, BuildInv
      <4>2. InBatch(acc.batch) \cup Occupied(acc.extent) = Occupied(min)
            BY <4>1 DEF InBatch
      <4> QED BY <1>1, <4>2 DEF BuildInv
    <3> QED BY <3>2, <3>3
  <2> QED BY <2>1, <2>2, <2>3
<1> HIDE DEF min, geometry
<1>5. /\ out \in ColSummary /\ out.min = min /\ ~out.unbounded
      /\ out.has_nulls = (Null \in rows) /\ (out.all_nulls => rows = {Null})
  <2>1. out \in ColSummary /\ out.min = min /\ ~out.unbounded
        BY <1>3 DEF ColSummary
  <2>2. out.has_nulls = (acc.nulls > 0) /\ (out.all_nulls <=> acc.nonnull = 0 /\ acc.nulls > 0)
        OBVIOUS
  <2>3. acc.nulls > 0 <=> Null \in rows
        BY <1>1 DEF BuildInv
  <2>4. acc.nonnull = 0 /\ acc.nulls > 0 => rows = {Null}
        BY <1>1 DEF BuildInv
  <2> QED BY <2>1, <2>2, <2>3, <2>4
<1> HIDE DEF out
<1>6. CASE ~geometry /\ min = None /\ acc.nonnull > 0
      BY <1>2, <1>5, <1>6, UnboundedDescribes
<1>7. CASE ~(~geometry /\ min = None /\ acc.nonnull > 0)
  <2>1. finish = out
        BY <1>2, <1>7
  <2> QED BY <1>4, <1>5, <1>7, <2>1 DEF Describes, Points
<1> QED BY <1>6, <1>7

LEMMA BuildIInv ==
    ASSUME IInv, am_build
    PROVE  IInv'
<1>1. /\ col = None /\ col' = encode_fitting(finish) /\ live' = {}
      /\ acc' = acc /\ rows' = rows
      BY DEF am_build
<1>2. finish \in ColSummary /\ Describes(finish, rows)
      BY <1>1, FinishDescribes
<1>3. col' \in ColSummary /\ col' # None /\ Describes(col', rows)
      BY <1>1, <1>2, FittedDescribes
<1>4. TypeOK'
      BY <1>1, <1>3 DEF IInv, TypeOK
<1> QED BY <1>1, <1>3, <1>4 DEF IInv

(***************************************************************************)
(* A value makes the extent occupy its points as well, whichever function  *)
(* the insert merges them with.                                            *)
(***************************************************************************)
LEMMA WidenedHull ==
    ASSUME TypeOK, col \in ColSummary, NEW v \in Shape
    PROVE  /\ Widened(v) \in Extent
           /\ Hull[Occupied(Widened(v))] = Hull[Occupied(col.min) \cup v]
           /\ Widened(v) = None => Occupied(col.min) \cup v = {}
<1>1. col.min \in Extent /\ v \in SUBSET Point
      BY ExtentAssumption DEF ColSummary
<1>2. CASE acc.type = "Geometry" /\ ~acc.domain
  <2>1. <<v>> \in Seq(Shape) /\ InBatch(<<v>>) = v
        BY DEF InBatch
  <2>2. InBatch(<<v>>) \cup Occupied(col.min) = Occupied(col.min) \cup v
        BY <2>1
  <2> QED BY <1>1, <1>2, <2>1, <2>2, FlushedHull DEF Widened
<1>3. CASE ~(acc.type = "Geometry" /\ ~acc.domain)
      BY <1>1, <1>3, JoinedHull DEF Widened, Extent
<1> QED BY <1>2, <1>3

LEMMA InsertIInv ==
    ASSUME IInv, NEW v \in Shape \cup {Null}, am_insert(v)
    PROVE  IInv'
<1>1. /\ col # None /\ rows' = rows \cup {v} /\ col' = encode_fitting(widen_column(v))
      /\ acc' = acc /\ live' = live
      BY DEF am_insert
<1>2. /\ TypeOK /\ col \in ColSummary /\ Describes(col, rows)
      BY <1>1 DEF IInv, TypeOK
<1>3. widen_column(v) \in ColSummary /\ Describes(widen_column(v), rows')
  <2>1. CASE v = Null
    <3>1. /\ widen_column(v) \in ColSummary /\ widen_column(v).has_nulls
          /\ widen_column(v).min = col.min /\ widen_column(v).unbounded = col.unbounded
          /\ widen_column(v).all_nulls = col.all_nulls
          BY <1>2, <2>1 DEF widen_column, ColSummary
    <3>2. rows' \ {Null} = rows \ {Null} /\ Null \in rows' /\ (rows = {Null} => rows' = {Null})
          BY <1>1, <2>1
    <3> QED BY <1>2, <3>1, <3>2 DEF Describes
  <2>2. CASE v # Null
    <3> DEFINE seen == [col EXCEPT !.all_nulls = FALSE]
    <3>1. /\ seen \in ColSummary /\ ~seen.all_nulls /\ seen.min = col.min
          /\ seen.unbounded = col.unbounded /\ seen.has_nulls = col.has_nulls
          BY <1>2 DEF ColSummary
    <3>2. /\ v \in Shape /\ v \in SUBSET Point /\ Points \in SUBSET Point /\ Points' = Points \cup v
          /\ (Null \in rows' <=> Null \in rows)
          BY <1>1, <1>2, <2>2, AnotherRow
    <3>3. seen.has_nulls = (Null \in rows')
          BY <1>2, <3>1, <3>2 DEF Describes
    <3>4. widen_column(v) = IF col.unbounded THEN seen ELSE widen_overlap(v)
          BY <2>2 DEF widen_column
    <3>5. widen_overlap(v) = IF Widened(v) = None THEN seen
                             ELSE IF datum_to_text(Widened(v)) = None THEN make_unbounded(seen)
                             ELSE [seen EXCEPT !.min = Widened(v)]
          BY DEF widen_overlap
    <3> HIDE DEF seen
    <3>6. CASE col.unbounded
          BY <3>1, <3>3, <3>4, <3>6 DEF Describes
    <3>7. CASE ~col.unbounded
      <4>1. col.min \in Extent /\ Hull[Occupied(col.min)] = Hull[Points]
            BY <1>2, <3>7 DEF Describes, Points, ColSummary
      <4>2. Hull[Occupied(col.min) \cup v] = Hull[Points']
        <5>1. Occupied(col.min) \in SUBSET Point
              BY <4>1 DEF Occupied, Extent
        <5> QED BY <3>2, <4>1, <5>1, SameHull
      <4>3. /\ Widened(v) \in Extent /\ Hull[Occupied(Widened(v))] = Hull[Points']
            /\ Widened(v) = None => Occupied(col.min) \cup v = {}
            BY <1>2, <3>2, <4>2, WidenedHull
      <4>4. CASE Widened(v) = None
        <5>1. Occupied(col.min) = Occupied(col.min) \cup v
              BY <4>3, <4>4
        <5>2. widen_column(v) = seen /\ Hull[Occupied(seen.min)] = Hull[Points']
              BY <3>1, <3>4, <3>5, <3>7, <4>2, <4>4, <5>1
        <5> QED BY <3>1, <3>3, <5>2 DEF Describes, Points
      <4>5. CASE Widened(v) # None /\ datum_to_text(Widened(v)) = None
            BY <3>1, <3>3, <3>4, <3>5, <3>7, <4>5, UnboundedDescribes
      <4>6. CASE Widened(v) # None /\ datum_to_text(Widened(v)) # None
        <5>1. widen_column(v) = [seen EXCEPT !.min = Widened(v)]
              BY <3>4, <3>5, <3>7, <4>6
        <5>2. /\ widen_column(v) \in ColSummary /\ widen_column(v).min = Widened(v)
              /\ widen_column(v).has_nulls = seen.has_nulls /\ ~widen_column(v).all_nulls
              BY <3>1, <4>3, <5>1 DEF ColSummary
        <5> QED BY <3>3, <4>3, <5>2 DEF Describes, Points
      <4> QED BY <4>4, <4>5, <4>6
    <3> QED BY <3>6, <3>7
  <2> QED BY <2>1, <2>2
<1>4. col' \in ColSummary /\ col' # None /\ Describes(col', rows')
      BY <1>1, <1>3, FittedDescribes
<1>5. rows' \subseteq Shape \cup {Null}
      BY <1>1, <1>2, AnotherRow
<1>6. TypeOK'
      BY <1>1, <1>2, <1>4, <1>5 DEF TypeOK
<1> QED BY <1>4, <1>6 DEF IInv

LEMMA StepIInv == IInv /\ [Next]_vars => IInv'
<1> SUFFICES ASSUME IInv, [Next]_vars PROVE IInv'
    OBVIOUS
<1>1. ASSUME NEW v \in Values \cup {Null}, build_callback(v) PROVE IInv'
  <2>1. CASE v = Null
        BY <1>1, <2>1, NullBuilt
  <2>2. CASE v # Null
    <3>1. v \in Shape /\ (add_range(v) \/ add_geometry(v))
          BY <1>1, <2>2 DEF Values, build_callback
    <3> QED BY <1>1, <3>1, RangeBuilt, GeometryBuilt
  <2> QED BY <2>1, <2>2
<1>2. ASSUME NEW v \in Values \cup {Null}, am_insert(v) PROVE IInv'
      BY <1>2, InsertIInv DEF Values
<1>3. CASE am_build
      BY <1>3, BuildIInv
<1>4. CASE UNCHANGED vars
      BY <1>4 DEF vars, IInv, TypeOK, BuildInv, Describes, Points, ExtentIsOwned
<1> QED BY <1>1, <1>2, <1>3, <1>4 DEF Next

LEMMA AlwaysIInv == Spec => []IInv
<1>1. Init => IInv
      BY InitIInv
<1>2. IInv /\ [Next]_vars => IInv'
      BY StepIInv
<1> QED BY <1>1, <1>2, PTL DEF Spec

(***************************************************************************)
(* The state keeps its types: a batch is flushed before it is too large.   *)
(***************************************************************************)
THEOREM ExtentTypeCorrect == Spec => []TypeOK
<1>1. IInv => TypeOK
      BY DEF IInv
<1> QED BY <1>1, AlwaysIInv, PTL

(***************************************************************************)
(* For any closure operator, and however values are batched, merged and    *)
(* inserted, the extent is exactly that of the values.                     *)
(***************************************************************************)
THEOREM ExtentAlwaysExact == Spec => []ExtentIsExact
<1>1. IInv => ExtentIsExact
      BY DEF IInv, Describes, ExtentIsExact, Points, Occupied
<1> QED BY <1>1, AlwaysIInv, PTL

(***************************************************************************)
(* No clause that a row matches prunes the partition.                      *)
(***************************************************************************)
THEOREM ExtentLosesNoRow == Spec => []PruneLosesNoRow
<1>1. IInv => PruneLosesNoRow
  <2> SUFFICES ASSUME IInv, col # None, NEW clause \in Clause, proves_prune(clause),
                      NEW v \in rows, Matches(clause, v)
               PROVE  FALSE
      BY DEF PruneLosesNoRow
  <2>1. Describes(col, rows)
        BY DEF IInv
  <2>2. CASE clause.kind = "null"
        BY <2>1, <2>2 DEF Describes, proves_prune, is_trusted_overlap_op, Matches
  <2>3. CASE clause.kind # "null"
    <3>1. /\ clause.kind = "overlap" /\ clause.overlaps /\ eval_overlap(clause.k)
          /\ v # Null /\ Overlaps(v, clause.k)
          BY <2>3 DEF proves_prune, is_trusted_overlap_op, Matches
    <3>2. Hull[col.min] = Hull[Points]
          BY <2>1, <3>1 DEF eval_overlap, Describes, Occupied, Points
    <3>3. v \subseteq Points /\ Points \in SUBSET Point
          BY <3>1, ExtentAssumption DEF IInv, TypeOK, Points
    <3>4. Hull[v] \subseteq Hull[Points]
          BY <3>3, HullMonotone
    <3> QED BY <3>1, <3>2, <3>4 DEF eval_overlap, Overlaps
  <2> QED BY <2>2, <2>3
<1> QED BY <1>1, AlwaysIInv, PTL

(***************************************************************************)
(* The build has one buffer, the one its accumulated range is in, whatever *)
(* range_merge hands back: nothing is lost or freed twice.                 *)
(***************************************************************************)
THEOREM ExtentAlwaysOwned == Spec => []ExtentIsOwned
<1>1. IInv => ExtentIsOwned
      BY DEF IInv, BuildInv, ExtentIsOwned
<1> QED BY <1>1, AlwaysIInv, PTL
=============================================================================
