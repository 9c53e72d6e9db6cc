-------------------------- MODULE DuplicateColumns --------------------------
(***************************************************************************)
(* An index may list a column of the table more than once, under different *)
(* collations: (s COLLATE "C", s COLLATE "en").  Its summary has one entry *)
(* for each position, but widen_summary and clause_proves_prune both look  *)
(* an entry up by the column, and find the first.                          *)
(***************************************************************************)
EXTENDS ColumnSummary, Sequences

CONSTANTS
    AttNums,        \* the table's column at each position of the index
    IndexCollation, \* the collation at each position
    Input,          \* bound: rows that are inserted, a datum for each column
    Inserts         \* bound: rows inserted

Position == DOMAIN AttNums

VARIABLES
    cols,           \* the entries of the stored summary
    inserted        \* the rows, in the order they were inserted

vars == <<cols, inserted>>

\* cols.iter().find(|c| c.attnum == attnum)
find(attnum) ==
    CHOOSE i \in Position :
        AttNums[i] = attnum /\ \A j \in Position : AttNums[j] = attnum => i <= j

\* An empty table has been indexed.
Init ==
    /\ cols = [i \in Position |->
                  [collation |-> IndexCollation[i], min |-> None, max |-> None,
                   has_nulls |-> FALSE, all_nulls |-> FALSE, unbounded |-> FALSE]]
    /\ inserted = <<>>

\* The entries after the first i positions have been folded in.
widen_summary(before, row) ==
    LET after[i \in 0 .. Len(AttNums)] ==
            IF i = 0 THEN before
            ELSE [after[i - 1] EXCEPT ![find(AttNums[i])] =
                      widen_column(@, IndexCollation[i], row[AttNums[i]])]
    IN  after[Len(AttNums)]

am_insert(row) ==
    /\ Len(inserted) < Inserts
    /\ cols' = widen_summary(cols, row)
    /\ inserted' = Append(inserted, row)

Next == \E row \in Input : am_insert(row)

Spec == Init /\ [][Next]_vars

-----------------------------------------------------------------------------
\* "never too narrow" (README): the entry a query on the column is pruned with
\* covers every row that was inserted.
NeverTooNarrow ==
    \A n \in DOMAIN inserted, i \in Position :
        Covers(cols[find(AttNums[i])], inserted[n][AttNums[i]])
=============================================================================
