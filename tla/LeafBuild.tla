----------------------------- MODULE LeafBuild -----------------------------
(***************************************************************************)
(* One partition's summary, one session: am_build scans the heap into      *)
(* accumulators and stores the summary they give, then am_insert folds in  *)
(* one row at a time.  The scan calls back in any order.                   *)
(***************************************************************************)
EXTENDS IndexSummary, FiniteSets

CONSTANTS
    Input,          \* bound: the rows of the table
    MaxRows,        \* bound: rows folded in, by the build and by inserts
    Failed          \* no summary: the build reported an error

ASSUME BuildAssumption ==
    /\ Input \subseteq Row /\ MaxRows \in Nat /\ IsFiniteSet(Column)
    /\ None \notin Summary /\ Failed \notin Summary

VARIABLES
    rows,           \* rows folded in so far
    acc,            \* ColumnBuild of each column
    page,           \* the stored summary, None until the build has written one
    shed            \* history: columns that lost their bounds to encode_fitting

vars == <<rows, acc, page, shed>>

Accumulated ==
    [min : Value \cup {None}, max : Value \cup {None}, nonnull : Nat, nulls : Nat]

TypeOK ==
    /\ rows \subseteq Input
    /\ acc \in [Column -> Accumulated]
    /\ page \in Summary \cup {None, Failed}
    /\ shed \subseteq Column

-----------------------------------------------------------------------------
plan_columns ==
    [c \in Column |-> [min |-> None, max |-> None, nonnull |-> 0, nulls |-> 0]]

\* Mutant of add: a NULL is folded in as if it were a value.
add_null_as_value(c, d) ==
    IF d = Null THEN [acc[c] EXCEPT !.nulls = @ + 1, !.min = d, !.max = d]
    ELSE [acc[c] EXCEPT !.nonnull = @ + 1, !.min = d, !.max = d]

\* ColumnBuild::add, and the null and non-null counts of build_callback.
add(c, d) ==
    LET a == acc[c]
        coll == IndexCollation[c]
        first == a.min = None
    IN  IF d = Null THEN [a EXCEPT !.nulls = @ + 1]
        ELSE IF c \notin Supported THEN [a EXCEPT !.nonnull = @ + 1]
        ELSE [a EXCEPT !.nonnull = @ + 1,
                       !.min = IF first \/ datum_cmp(coll, d, @) < 0 THEN d ELSE @,
                       !.max = IF first \/ datum_cmp(coll, d, @) > 0 THEN d ELSE @]

text(bound) == IF bound = None THEN None ELSE DatumToText[bound]

\* Mutant of FinishColumn: a column without any value is taken to have lost
\* its bounds.
FinishColumnEmptyIsLost(c) ==
    LET out == [collation |-> IndexCollation[c],
                min |-> text(acc[c].min), max |-> text(acc[c].max),
                has_nulls |-> acc[c].nulls > 0,
                all_nulls |-> acc[c].nonnull = 0 /\ acc[c].nulls > 0,
                unbounded |-> c \notin Supported]
    IN  IF out.min = None \/ out.max = None THEN make_unbounded(out) ELSE out

\* Mutant of FinishColumn: an empty column counts as all NULLs.
FinishColumnEmptyIsNull(c) ==
    LET out == [collation |-> IndexCollation[c],
                min |-> text(acc[c].min), max |-> text(acc[c].max),
                has_nulls |-> acc[c].nulls > 0,
                all_nulls |-> acc[c].nonnull = 0,
                unbounded |-> c \notin Supported]
        lost_bound == out.min = None \/ out.max = None
    IN  IF out.unbounded \/ (acc[c].nonnull > 0 /\ lost_bound)
        THEN make_unbounded(out) ELSE out

\* A bound that could not be rendered is unknown, not absent.
FinishColumn(c) ==
    LET out == [collation |-> IndexCollation[c],
                min |-> text(acc[c].min), max |-> text(acc[c].max),
                has_nulls |-> acc[c].nulls > 0,
                all_nulls |-> acc[c].nonnull = 0 /\ acc[c].nulls > 0,
                unbounded |-> c \notin Supported]
        lost_bound == out.min = None \/ out.max = None
    IN  IF out.unbounded \/ (acc[c].nonnull > 0 /\ lost_bound)
        THEN make_unbounded(out) ELSE out

finish == [c \in Column |-> FinishColumn(c)]

Init ==
    /\ rows = {}
    /\ acc = plan_columns
    /\ page = None
    /\ shed = {}

build_callback(row) ==
    /\ page = None
    /\ Cardinality(rows) < MaxRows
    /\ row \notin rows
    /\ rows' = rows \cup {row}
    /\ acc' = [c \in Column |-> add(c, row[c])]
    /\ UNCHANGED <<page, shed>>

\* write_summary: a summary that cannot be made to fit fails CREATE INDEX.
write_summary ==
    /\ page = None
    /\ page' = IF Fits(encode_fitting(finish)) THEN encode_fitting(finish) ELSE Failed
    /\ shed' = DroppedColumns(finish)
    /\ UNCHANGED <<rows, acc>>

\* widen_on_insert by the only session: no other one changes the page.
\* The insert of a row that changes the summary fails if it does not fit.
widen_on_insert(row) ==
    /\ page \in Summary
    /\ Cardinality(rows) < MaxRows
    /\ row \notin rows
    /\ LET widened == widen_summary(page, row)
       IN  IF widened = page
           THEN rows' = rows \cup {row} /\ UNCHANGED <<page, shed>>
           ELSE IF Fits(encode_fitting(widened))
           THEN /\ rows' = rows \cup {row}
                /\ page' = encode_fitting(widened)
                /\ shed' = shed \cup DroppedColumns(widened)
           ELSE UNCHANGED <<rows, page, shed>>
    /\ UNCHANGED acc

Next ==
    \/ \E row \in Input : build_callback(row) \/ widen_on_insert(row)
    \/ write_summary

Spec == Init /\ [][Next]_vars

-----------------------------------------------------------------------------
Written == page \in Summary

\* Whatever the order in which rows were scanned and inserted, the stored
\* summary covers every one of them: "never too narrow" (README).
CoversRows == Written => \A row \in rows : CoversRow(page, row)

\* No clause on a column proves that the partition can be pruned while a row
\* the clause selects is in it: clause_proves_prune on what was stored.
PruneLosesNoRow ==
    Written =>
        \A c \in Column, clause \in Clause :
            proves_prune(clause, page[c]) => \A row \in rows : ~Matches(clause, row[c])

\* The accumulators store what a build over the set of rows is specified to
\* store: the scan order decides only among values that compare equal.
BuildIsExact ==
    [][write_summary /\ page' # Failed =>
          \E s \in build_leaf_summary(rows) : page' = encode_fitting(s)]_vars

\* A column keeps its bounds unless its type has none, a value had no text
\* form, or they did not fit; and bounds it keeps are attained by some row, so
\* the summary is no wider than it has to be.
StaysSelective ==
    Written =>
        \A c \in Supported \ shed :
            /\ page[c].unbounded =>
                   \E row \in rows : row[c] # Null /\ DatumToText[row[c]] = None
            /\ HasBounds(page[c]) =>
                   \A bound \in {page[c].min, page[c].max} :
                       \E row \in rows :
                           /\ row[c] # Null
                           /\ datum_cmp(IndexCollation[c], row[c], TextToDatum[bound]) = 0

\* Bounds are given up only for want of room ("until it fits", encode_fitting):
\* with those of any column put back that a build or an insert has just given
\* up, the summary would not fit.
NoRoomFor(full) ==
    \A c \in Column : page'[c] # full[c] => ~Fits([page' EXCEPT ![c] = full[c]])

GivesUpNoMoreThanNeeded ==
    [][/\ write_summary /\ page' # Failed => NoRoomFor(finish)
       /\ \A row \in Input :
              widen_on_insert(row) /\ page' # page => NoRoomFor(widen_summary(page, row))]_vars

\* Once CREATE INDEX succeeded no insert fails for want of room on the page:
\* dropping bounds always gets back to the size the build could store.
InsertAlwaysFits == Written => \A row \in Input : Fits(Widened(page, row))
=============================================================================
