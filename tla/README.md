# Verification of pg_table_range

pg_table_range prunes partitions while PostgreSQL plans a query. The
`table_range` index of each leaf partition stores a *summary* of the indexed
columns; a partition whose summary proves that no row can match is left out of
the plan. The property the whole extension rests on is that a summary is
**over-inclusive**: too wide costs time, too narrow loses rows.

The TLA+ modules here model how the summary is built, widened, stored, cached
and used. TLC checks them on small instances (the `MC*` modules and `.cfg`
files), TLAPS proves the main results for every instance (the `*_proofs`
modules). Paths below are relative to the repository's `src/` directory.

## 1. The system

| component | state | operations | modelled in |
|---|---|---|---|
| column summary (`ColSummary`) | `min`, `max`, `has_nulls`, `all_nulls`, `unbounded`, collation | `widen_column`, `proves_prune` | `ColumnSummary` (min/max), `ExtentSummary` (ranges, geometries) |
| index summary (`IndexSummary`) | one `ColSummary` per index position, in at most one page | `widen_summary`, `encode_fitting`, `serialize`, `deserialize` | `IndexSummary`, `DuplicateColumns`, `BlobFormat` |
| leaf build (`summary_build.rs`) | one accumulator per column | `plan_columns`, `build_callback`, `flush_geometry`, `finish` | `LeafBuild`, `ExtentSummary`, `BuildSnapshots` |
| metapage (`index_storage.rs`) | one blob, under the buffer lock, in the WAL | `read_blob`, `replace_blob_if`, `write_blob` | `WidenOnInsert`, `BlobFormat` |
| maintenance (`index_am.rs`) | nothing between calls | `am_build`, `am_insert` (compare-and-swap loop) | `LeafBuild`, `WidenOnInsert` |
| session cache (`summary_cache.rs`) | `CACHE`: index to summary | `get`, `put`, `note_widened`, `relcache_callback` | `SummaryCoherence`, `QueryPlanning` |
| planner hooks (`prune_hook.rs`) | `PLAN_DEPTH`, `IN_HOOK`, per-plan caches and memos | `planner_hook`, `pathlist_hook`, `read_index_summary` | `PlannerHook`, `QueryPlanning` |
| clause evaluation (`prune_hook.rs`) | `OP_MEMO` | `extract_qual`, `clause_proves_prune`, `QualSpec::proves_prune` | `ClauseTree`; its leaves in `ColumnSummary` and `ExtentSummary` |
| stable text I/O (`stable_io.rs`) | three settings, on PostgreSQL's stack | `with_stable_io` | `StableIO` |
| operator classes, handler stubs, packaging | none | | not modelled |

How they interact:

* `am_build` scans the partition into accumulators and writes the blob;
  `am_insert` reads the blob, folds the row in and swaps the new blob for the
  one it read. They share the metapage, not memory, and the buffer lock is held
  during each read and each swap but not in between.
* An insert that changed the page queues relation cache invalidations
  (`note_widened`). PostgreSQL delivers them: to the session when its command
  ends, to others when the transaction commits, never if it rolls back.
* A planning session takes the summary from its cache, or reads the page and
  fills the cache, and evaluates the clauses of the query against it.

Hard behaviours: sessions racing on the page; rollbacks, which undo rows and
messages but not widenings; crashes that cut the WAL; the cache fill that
races with a widening; comparisons at a bound, under the wrong collation, or of
values that are equal but not identical; values with no text form; a page too small for the bounds; what the planner keeps for
the time of one plan, while plans nest and functions fail; the moments between
a commit, its announcement, a snapshot, a plan and its execution.
`PROJECT.json` lists them under `hazards`, each at its line, with the properties
that would notice it going wrong.

## 2. The modules

### ColumnSummary

Operators only, for columns with `min` and `max`. A collation orders values by an integer rank, so two values can
compare equal and still have different text forms (`1.0`, `1.00`). Bounds are
texts, as in the code: `DatumToText` may have no result, `TextToDatum` reads a
bound back. `ColumnAssumption` is what `with_stable_io` has to provide: a bound
reads back as a value that compares equal to the one written. `StableIO` says
when it does. `widen_minmax`, `widen_column`, `eval_compare`, `eval_in_list` and `proves_prune` follow the
functions of those names; a `None` of `widen_minmax` is `~CanFold`. The code's
`changed` result is not kept: it is true exactly when the summary differs.

`Covers(col, d)` is the meaning of a summary: it may not be used to lose `d`.
A `QualSpec` has the collation that `proves_prune` checks and the `order` in which the
operator's compare proc compares under it. `Clause` is those where the order is that of
the column's type; `ClauseTree` has the others. `Matches` is what the executor answers
for a row.

### IndexSummary

A summary is a function from index positions to column summaries. The bytes of a
blob other than its bounds are constant for an index, so `Room` stands for
`max_blob_len()` minus that constant, and `Fits` for the length test. A bound
takes its text and two bytes of length (`BoundBytes`), whereas `encode_fitting`
compares the texts alone (`bound_len`): an empty text takes room, and is never
dropped.
`DroppedColumns` is the loop of `encode_fitting` without the loop: columns lose
their bounds largest first (of equals the last, as `max_by_key` picks), and no
more of them than it takes. `build_leaf_summary(rows)` is the set of summaries a
build over a set of rows may give; `LeafBuild` shows that the accumulators of
`summary_build.rs` give one of them, `WidenOnInsert` uses it for rebuilds.

### LeafBuild

One session: the build scan calls `build_callback` with rows in any order,
`write_summary` stores what `finish` makes of the accumulators, and inserts
follow. `shed` is a history variable: the columns `encode_fitting` has taken the
bounds of.

### CoveringSummary and WidenOnInsert

`CoveringSummary` is the promise: a row becomes part of the summary in one step,
before its insert returns; a rollback takes nothing out; only a rebuild without
other writers, or a crash, may narrow it, to no less than the rows that are left.

`WidenOnInsert` is the code. `page` is block 0: a summary, `NoPage` (no block:
`read_blob` returns `None`) or `OtherFormat` (`deserialize` returns `None`). The
steps of one `am_insert` are `read_blob` (with the early returns that follow
from what was read), then `replace_blob` or `retry`. What `widen_on_insert`
computes in between is local, so it is computed in the step that reads. A
comparison of blobs is a comparison of summaries because serialization is
one-to-one (`BlobTellsSummary`). Heap, transactions, savepoints (`Rollback` may take any part of a
transaction's rows), vacuum, WAL and crashes are PostgreSQL's, modelled as far
as `am_insert` depends on them. `recoverable` is the set of states that a crash
may recover to, one for each prefix of the WAL that may be all that reached the
disk. An error raised in the loop (interrupt, parallel mode, blob too large) is a
`Rollback`. A `Rebuild` may follow inserts of its own transaction and folds their rows
in; it waits for other writers. `am_build` refuses partial indexes, so every row of the
heap is in the index, and a build that fails or is rolled back leaves the page it
found, which is no step.

`PromiseKept` is the refinement `WidenOnInsert` => `CoveringSummary`, with the
identity on `page` and `heap`.

### SummaryCoherence

The cache of `summary_cache.rs` in every session, above the promise: the page is
the set of keys it covers, an insert of a key it lacks widens it (perhaps by
keys between), an insert of one it covers changes nothing and sends nothing.
A transaction is a sequence of frames, one per open savepoint, each with its
rows and whether messages are queued in it. A commit makes the rows visible in
one step and sends the messages in the next, which is PostgreSQL's order. The
planner reads the page in one step (`read_summary`) and puts it into the cache
in another. "Checked, there is no summary" is cached by the code as an empty
vector and prunes nothing: here it is the set of all keys.

### DuplicateColumns

`IndexSummary` takes every position to be a different column of the table. When
one column is indexed twice, `widen_summary` finds the first entry for both
positions: this module folds the positions in one after the other as the code
does.

### ExtentSummary

A column with an `overlap` summary, from build to pruning, in one module: the
accumulators `Range` and `Geometry`, `finish`, `widen_overlap`, `eval_overlap`. A
value is the set of points it occupies and `Hull` any closure on sets of points:
intervals, boxes. `at` and `live` are where the extent of a range is and which
buffers are allocated, since `range_merge` may hand one of its arguments back.
`domain` separates the two ways in which the code recognises a geometry column:
the build by its base type, `widen_overlap` by the name of its type. `Raises` is
the insert that fails because they disagree.

### BlobFormat

Operators on bytes: `serialize`, the `Reader`, and the blob on a page that has held
others, with two properties of the pages that `LeafBuild` reaches. A byte has
`Radix` values; the length prefix of the page is a number, the collation's OID
takes two bytes. `FormatAssumption` ties `TextLen` and `Room` of `IndexSummary` to
the bytes: `Room` is what the other bytes of the blob leave. It also says that different
texts have different bytes, that attnums and OIDs fit the bytes they take (`Described`),
and that the columns are numbered from 1, as the blob has them. `ColumnsAt` reads as the
code's loop does, each column from where the one before it ended (`after`).

### BuildSnapshots

Row versions, snapshots and builds. The scan's rule is PostgreSQL's
(`heapam_index_build_range_scan`): live versions, and dead ones that some snapshot
sees unless they were HOT-updated. The handler sets `amsummarizing`, so an update
may be heap-only although it changes the indexed column. `indcheckxmin` hides a
new index from the snapshots that would miss a row; REINDEX does not set it, which
the history variable `unchecked` remembers.

### QueryPlanning

Extends `SummaryCoherence` with queries: parse (with a snapshot), lock, evaluate,
plan, execute. The cache is filled and hit as in `read_index_summary`. Locks,
snapshots, kept plans and the places where PostgreSQL accepts invalidations are
external. `heard` is a history variable: the rows that had been announced when the
transaction took its lock on the partition; a plan is `crossed` (history) if the
session accepted an announcement while it was made.

### PlannerHook

A stack of planner invocations and pathlist hooks, as functions that one calls
plan queries of their own. `Raise(left)` is an error that ends all of them above
`left`: its catcher is an exception block of a function, the `catch_others` of the
pathlist hook, or nothing. `FMGR_MEMO` maps a function to the invocation in whose
memory its lookup was made. Not every function fails or nests; the module allows
it everywhere the code calls one.

### ClauseTree

From `evaluate_relation` to the leaves, on expressions as the planner hands
them over: constants on either side, `RelabelType`, operators outside any order,
`<> ALL`, NULL constants and NULL arrays, row-valued NULL tests, columns that are not
indexed. An operator has a compare proc of the default family of its input type,
`inputcollid` is the leaf's, and `OrderOf[proc][coll]` is the order that makes: it may
be another than the column's type has under that collation. As in PostgreSQL an
expression is made of nodes that point to their parts; `nodes` numbers them, parts
first, and `restrictlist` has the numbers of the clauses. `clause_proves_prune(s)` is
a function of the depth and the node, so the recursion runs down to `DepthLimit`;
`Evaluated(row)` is the executor in three-valued logic, a function of the node.
`Opaque` is what the executor makes of any other expression: a constant operator, of
which nothing but its type is assumed. The query is put together by `AddLeaf` and
`Combine`, then the hook runs on one partition after the other and keeps `OP_MEMO`.

### StableIO

PostgreSQL's stack of settings with the calls that use it: transactions,
functions with SET clauses, exception blocks, and `with_stable_io` under the hook
or an insert. `leaked` is a history variable: a function with a SET clause has failed
where the hook caught the error and no level was ended.

## 3. What the runs check

| run | instance | what it shows |
|---|---|---|
| `leaf_build` | 3 columns (2 with bounds under collations that disagree, 1 unsupported), 9 rows, up to 4 folded in; bytes of 8 values, a page of 52 bytes | see below |
| `widen` | 2 sessions, 2 line pointers, 1 column, 3 values and NULL, 2 states in the WAL buffers | see below |
| `widen_unlogged` | the same, `Logged = FALSE`, the WAL written at once, under fairness | `PageCovers` after a crash left no metapage; `InsertReturns` |
| `coherence` | 2 sessions, a transaction with up to 1 savepoint each, 2 keys, 3 rows | see below |
| `coherence_claim` | the same | `CacheNeverNarrower` is **violated** |
| `planning` | 2 sessions, one of which plans queries, 1 savepoint each, 1 key, 2 rows | see below |
| `planner_hook` | 2 relations, 2 functions, 9 invocations nested | see below |
| `clause_tree` | 2 columns, 3 values, 2 orders and 2 procs, 12 leaves, trees of up to 3 leaves and 2 ANDs, ORs and NOTs, 4 partitions | `PruneLosesNoRow` |
| `extents` | 6 points in a grid, ranges and geometries, of domains or not, batches of 2, 3 rows scanned and any inserted | see below |
| `build_snapshots` | 2 keys, 2 readers, 5 transactions, CREATE INDEX, REINDEX, DROP INDEX | see below |
| `stable_io` | 2 pinned settings of which 1 rounds, 5 calls nested | see below |
| `duplicate_columns` | 1 text column indexed under 2 collations, 3 inserts | `NeverTooNarrow` is **violated** |

`leaf_build`. `CoversRows`: the stored summary covers every row, whatever the
order. `PruneLosesNoRow`: no clause (all operators and constants, all IN lists,
both NULL tests, either collation) prunes while it selects a row.
`StaysSelective`: a column keeps its bounds unless it has a reason to lose them,
and bounds are attained by a row. `BuildIsExact`: the accumulators give what
`build_leaf_summary` says. `InsertAlwaysFits`: once the build has succeeded, no
insert fails because the summary no longer fits. `GivesUpNoMoreThanNeeded`: put the
bounds of any one column back that a build or an insert has just given up, and the
summary does not fit; this is what dropping the longest first is for. `ReadsBack`: the bytes of the
stored summary, and of every next one put over them, are read back as that summary,
and those of another format version as nothing. `BlobTellsSummary`: the bytes of
one summary are never taken for those of another, which the compare-and-swap
relies on. The instance has a value with
no text form, one whose text is empty, two equal values with different texts, and
one too long for two columns to keep it. Four rows are enough for a bound to be seeded, moved
down, moved up and lost; `CHECK_DEADLOCK FALSE` because `MaxRows` stops the run.

`widen`. `PageCovers`: every row whose insert has returned is covered, committed
or not. `RecoveryCovers`: the same of every state a crash can leave.
`PruneLosesNoRow`: planning from the page loses no committed row. `NeverNarrows`:
no step but a rebuild or a crash takes anything out. `PromiseKept`: refinement.
Two sessions are what a lost update takes and three values allow either of them
to move either bound; the third value is so long that holding it twice makes the
column unbounded. Two line pointers let one session have rows of two
savepoints, or each session one. Larger instances (3 sessions and 3 line
pointers; 3 states in the WAL buffers) pass too and are not kept for their time.
Sessions are symmetric: nothing tells them apart.

`widen_unlogged`. `InsertReturns` holds under weak fairness of each session's own
steps inside `am_insert`: a backend process that is running keeps running. No
fairness is assumed of clients, commits, the WAL writer or crashes. The loop is the
same for every table, and ends because every failed swap means that another session
widened the page, which can happen only a finite number of times between rebuilds,
and a rebuild waits for the sessions that are inside `am_insert`. In this instance a summary
that has lost its bounds always fits, so no insert ends in the size error. No
symmetry is used, which would be unsound for liveness. `PageCovers`: a partition
that has lost its metapage gets none until it is rebuilt, whoever inserts.

`coherence`. `CacheCoversWidened`: a committed row that widened the summary is in
every cached copy, once the session has accepted the messages sent.
`OwnRowsVisible`: later commands of the same transaction see what its earlier
ones widened. Two keys let one widening follow another in a transaction, one
savepoint lets one of them be rolled back. `MaxRows` only limits how many rows
exist at a time (rows are deleted as well); without it the run passes too, in
two minutes.

`extents`. `ExtentIsExact`: the extent is the hull of the values, wherever the
batches end and whatever was built and inserted. `ExtentIsOwned`: the build has
exactly the buffer that holds the extent. `PruneLosesNoRow`: overlap and NULL
clauses. Three rows are a full batch of 2 and a partial one; the shapes have an
empty one, one whose box is larger than itself, an extent that has no text and
one that is too long.

`build_snapshots`. `OlderSnapshotsCovered`: a snapshot plans only with an index
that covers all it sees, unless a later REINDEX met a HOT chain of which some
snapshot still sees the start. Five transactions are enough for an insert, an update, a build, and one
more between two of them; 2 readers for one to hold the horizon back while the
other is new. `CHECK_DEADLOCK FALSE` because `MaxTime` stops the run.

`planning`. `PlanCoversHeard`: a query finds what was announced before its
transaction locked the partition and what that transaction wrote itself, from
whichever cache or kept plan. `KeptPlanCovers`: the same of a plan that is kept.
One key is enough: it is in a summary or not. Two rows are one covered by a
widening and one that caused it.

`planner_hook`. `CleanBetweenPlans`: `PLAN_DEPTH` counts the invocations, and
nothing is cached when none is left. `GuardHeldByHook`: `IN_HOOK` is set while a
hook runs and only then, so that an error does not switch pruning off for the
session. `NoConflictingBorrow`: `CACHE` is not borrowed twice, which would panic.

`clause_tree`. Every tree of up to three leaves on every sequence of partitions, but
for queries in which some leaf is `Misread` (below). The leaves are one of each shape;
two orders disagree, and a proc compares under "C" in the order that is "en"'s.
`DepthLimit` is 1 (32 in the code) so that trees go past it. `CHECK_DEADLOCK FALSE`: a query may be complete.

`stable_io`. `BoundReadsBack`: a bound that any session wrote reads back under the
settings of any other. `SettingsRestored`: the transaction goes on with its own
settings, and so does the session after it. The first two stop where a setting has
leaked; the last does not.

### Disagreements with the documentation

`coherence_claim` (`index_am.rs:132`, against `README.md:236-240` and
`summary_cache.rs:6-8`). A cached summary **can** stay narrower than the data.
A widening is not undone by a rollback, but its invalidation is. TLC's trace
takes one session: it caches the summary; a command under a savepoint widens the
page and fails; a later command inserts the same key, finds it covered, queues
nothing and commits. With two sessions it takes no error: B caches; A widens and
has not committed yet; C inserts a value A's widening covers and commits; A rolls
back. B never hears of it and prunes C's row until something else invalidates
the index. While A is still open, the same holds for the time being.

`duplicate_columns` (`index_am.rs:156`, against `README.md:157-158`). With
`(s COLLATE "C", s COLLATE "en")`, insert `B`, then `a`. Under "C" the first
entry becomes `[B, a]`; for the second position it is the same entry that is
compared under "en", where `a < B`, so its minimum becomes `a` as well: `[a, a]`
under "C" no longer covers `B`.

### Limits found while modelling

What the models assume, or state an exception for, where the code does not
guarantee it. No run is about these; each is at its line in the list of hazards.

* `PruneLosesNoRow` of `ClauseTree` excepts queries with a leaf that is `Misread`;
  without the exception TLC finds a lost row at once. There are two such:
  `compare_op` (`prune_hook.rs:143`) takes the family of the operator's input type and
  `proves_prune` compares collations only, so a text column compared as `bpchar`, or an
  `int4` one as `oid`, is compared in an order in which its bounds need not be the least
  and the greatest value; `extract_nulltest` (`prune_hook.rs:584`) does not look at
  `argisrow`, and `ROW(NULL, NULL) IS NULL` is true where the summary has seen no NULL.
* `StableIO` is checked with every setting that matters pinned. The text of `money`
  depends on `lc_monetary` (`stable_io.rs:9`).
* `BoundReadsBack` and `SettingsRestored` except what is `leaked`: a setting of a
  function with a SET clause that fails under the hook (`prune_hook.rs:253`) is restored
  by a level ending below it, and an error caught without a subtransaction ends one only
  if `with_stable_io` had something to pin. The setting stays until the transaction ends.
* `TextToDatum` is constant. Labels of an enum may be renamed (`ALTER TYPE ... RENAME
  VALUE`), and bounds are labels: `widen_minmax` (`index_am.rs:237`) and
  `parsed_bounds` then find an error or another value.
* A column of a domain over `geometry` (`index_am.rs:267`): the build sees the base
  type and keeps an extent, `widen_overlap` sees the domain's name and calls
  `range_merge`, which is an error. The model has the insert that fails (`Raises`).
* `PlanCoversHeard` is about what was announced before the transaction locked the
  partition. A later statement of the transaction finds the locks held: if it is a
  prepared one that is planned again, nothing makes the session accept what was
  announced since (`prune_hook.rs:257`; the parser does so for an ad hoc one, which the
  module allows and does not require). And a snapshot taken after
  a commit is visible and before its invalidations are sent sees rows that the plan
  does not find (`summary_cache.rs:40`).
* `KeptPlanCovers` excepts plans that are crossed: a statement on the partitioned
  table depends on a partition through its plan, so an invalidation that arrives after
  the partition was evaluated and before the plan is stored drops nothing.
* `OlderSnapshotsCovered` excepts snapshots older than a REINDEX that met a broken HOT
  chain (`summary_build.rs:165`): with CREATE INDEX `indcheckxmin` keeps them away.
* In `PlannerHook` an entry of `FMGR_MEMO` may be `Freed` when it is found: the memo
  lives as long as the outermost plan, an entry as long as the invocation that made
  it (`prune_hook.rs:66`).

## 4. What is proved

All proofs are checked by TLAPS to the last leaf, for any sets of sessions, rows,
values, collations, columns and relations, and any depth of nesting, from the
constants' assumptions alone: `ColumnAssumption`, `IndexAssumption`,
`WidenAssumption`, `BuildAssumption`, `FormatAssumption`, `StoredAssumption`, `SnapshotAssumption`,
`StableAssumption` and those of the same kind in the other modules. They say what
the constants are (sets, orders, closures) and what `None`, `Failed` and the like
are not; `TreeAssumption` also says what the parser guarantees of a clause: constants
of the right type, and a truth value. TLC evaluates each of them in the run of its
module.

Each component has its proofs in a module of its own (the hooks and the clauses of
`prune_hook.rs` share one), laid out alike: facts about
the operators, `InitIInv`, one lemma per action, `StepIInv`, then the theorems. Each
inductive invariant was checked by TLC on the run's instance before it was proved.
What the properties lack, and the invariants add:

* `IndexSummary_proofs` (operators only). `WidenColumnCovers`, `WidenColumnKeeps`:
  folding a datum in covers it and loses none. `PruneSound`: a clause that prunes
  matches nothing the summary covers. They rest on `TextReadsBack`: bounds compare
  as the values they were written from. `EncodeFittingKeeps`, `WidenedCovers`,
  `BuildCovers`: the same for a whole summary, after bounds were dropped to make it
  fit.
* `WidenOnInsert_proofs`. `PageCovers` alone is not inductive: that a successful swap
  keeps it depends on the blob to be stored covering what was read, and on the page
  being what was read. `InsertsInProgress` says the first of every session; the swap's
  comparison gives the second. `RecoveryCovers` needs `WalMatches`: the WAL has the
  page as it is, and no tuple that could still be taken back. `ImplementsPromise`
  maps initial states to initial states and each step to a step of
  `CoveringSummary` or to a stutter.
* `LeafBuild_proofs`. While the build scans, `Accumulates(c)`: the accumulators have
  counted the rows seen, and hold a least and a greatest of their values. Afterwards
  `CoversRows` with `Selective`: a column has both bounds or neither, each attained
  by a row, and lost them only to a value without text or to `encode_fitting`. From
  these `BuildLosesNoRow`, `AlwaysSelective`, and `AlwaysBuildsExactly`: what
  `write_summary` stores is one of the summaries that `WidenOnInsert` assumes of a
  rebuild, which joins the two modules. `InsertsAlwaysFit` has an invariant of its own, that
  the stored summary fits: lengths are natural numbers, so there is room for a summary
  without bounds, and `EncodeFittingFits` gets every summary at least that far. Its
  hypothesis `EmptyTextsFit` is about bounds that are empty texts, which the loop does
  not drop: two of them for each column must fit. With at most 32 columns in an index
  these are 128 bytes of an 8 kB page. `NothingGivenUpInVain`: the sets of columns the
  loop may have dropped form a chain (`LeastDropped`), the last one dropped is a shortest
  of them, and putting that one back is already too much (`LastDropped`), so any other is
  (`SumShift`: two sums that differ in one column); a column has both bounds or neither
  (`PagePaired`), so that the longer text takes more bytes. What `SumFunction` sums is shown from its
  recursive definition (`SumExists`, `SumFacts`), by the least counterexample; that
  `Column` is finite is assumed (`BuildAssumption`).
  Its second half is about `BlobFormat`, whose states are `LeafBuild`'s. Each field is
  read back from the bytes written for it, whatever follows (`ByteRead`, `NumberRead`,
  `StringRead`, `OptionRead`), a column field by field (`ColumnRead`). `Flat` takes the
  blob apart into its columns, one by one; `NextColumn` is the reader's step from where
  one ends, and `CountUp`, by the least counterexample, takes it to the last
  (`ColumnsReadBack`). A length is cut to two bytes, so a string reads back only if it is
  shorter than 65536 bytes: `AllMeasured` has that from the blob fitting a page.
  `FitsIsLengthTest` is the one theorem about sizes: the sum over columns that `Fits`
  compares to `Room` is the length that the code compares to `max_blob_len`. With the
  invariant that the stored summary fits these give `BlobsAlwaysReadBack`, and since
  different summaries have different columns (`ColsTell`) `BlobsAlwaysTell`: the encoding
  is one-to-one because it is read back.
* `QueryPlanning_proofs`. `IInv` says of every session that the page covers its
  transaction's rows (`PageCoversFrames`); that a row which widened has a message
  queued in its frame, or is in the command that will queue one (`WideningsNoted`); and
  that the cached copy, as well as one that was read and is not cached yet, covers the
  rows that are `Settled`: those that widened and whose message the session has accepted
  or which its own earlier commands wrote. It gives `CacheCoversWidened` and
  `OwnRowsVisible` of `SummaryCoherence`. `QueriesUseTheCache` shows
  that every behaviour of `QuerySpec` is one of `Spec`, so these hold of planning
  sessions too. `PlanIInv` adds what a
  query relies on: what was heard is in the page, and only a lock keeps it
  (`HeardWhileHeld`), a query runs in a transaction (`QueryInTransaction`), cached and
  kept copies cover what was heard (`CopiesCoverHeard`, `KeptInv`).
* `ExtentSummary_proofs`. During the build, `BuildInv`: the hull of the extent and of the
  values that wait for the next flush is the hull of all values scanned, the counts tell
  whether there were values and NULLs, and the live buffers are exactly that of the
  extent. Afterwards `Describes`: the summary's extent has the hull of the rows' values,
  and its flags are right even when it has none. Only that `Hull` is a closure is used, so
  this holds of boxes as of ranges.
* `BuildSnapshots_proofs`. `CoveredOrSkipped`: a version that is not in the summary
  ended before every open snapshot, or before those that `indcheckxmin` or `unchecked`
  set apart. `PastOnly`: no version ended and no snapshot was taken after the last
  transaction, so that a new snapshot is younger than every end of a version. The horizon
  is a minimum over open snapshots, which exists by well-foundedness of `<` on Nat.
* `PruneHook_proofs`, the hooks. `Nested` (below every hook is a planner) and `OneHook`
  (no hook under a hook), from which the counts follow: `PLAN_DEPTH` is the number of
  planners on the stack, `IN_HOOK` is whether a hook is.
* `PruneHook_proofs`, the clauses. `PruneLosesNoRow` lacks `MemoRight`: what is
  remembered for an operator and a side is what `compare_op` gives for them, whichever
  clause asked first. `LeafSound`: a leaf that proves that there is no match is true of
  no row the summary covers, unless it is `Misread`; `Commutes` is why the strategy may be turned round when the
  column is on the right. `ClauseSound`: the same for every node at every depth, by
  induction from the depth limit upwards; the truth of a node is defined because its
  parts come before it (`EvaluatesExists`). It asks of the summary only that it covers
  the row, so it holds of widened and fitted summaries as of the built ones of the run.
  `CountUp` and `HasLeast`, in `IndexSummary_proofs`, do the inductions.
* `StableIO_proofs`. `SettingsRestored` speaks of a stack that has become short;
  inductive is what it will be when it is: `Restores(stack, guc, left, s, v)` says that
  setting `s` will be `v` when the frames above the first `left` ones have ended,
  in whatever steps. The session's settings are restored with `left = 0`, always; the
  transaction's with 1 and the pinned ones with the position of each call, unless
  something has leaked. `CatchRestores` is the hook's error handler, which ends
  frames without ending their levels. `AlwaysReadsBack` has the condition under which
  the run checks it: every setting that matters is pinned.

Only model-checked: `InsertReturns`, liveness under fairness, which is out of the
prover's reach. The two runs that find a violation (`coherence_claim` and
`duplicate_columns`) refute a claim and prove nothing.

## 5. What is not modelled

* `table_range_sync_opclasses`: SQL on the catalog, run by an event trigger. The
  models take the operators and support functions it provides for granted.
* Handler stubs, cost estimates, options, GUC registration: constant answers.
* Packaging, benchmark, upgrade script: no behaviour of the extension.
* How an error is raised and unwound through Rust (`pg_guard`) and PostgreSQL:
  the models have its effects, the frames it ends and the handlers it runs.
* The composition of all modules into one: each takes from the others what they
  promise. `IndexSummary` is built from `ColumnSummary` and used by `LeafBuild`,
  `WidenOnInsert` and `ClauseTree`; `SummaryCoherence` stands on `CoveringSummary`'s
  promise and `QueryPlanning` extends it; `BlobFormat` extends `LeafBuild`; extents,
  settings and row versions are modelled on their own.

The bounds of the models are `MaxRows`, `Input`, `Slot`, `WalBuffers`,
`MaxFrames`, `Inserts`, `Planner`, `MaxStack`, `MaxRelabels`, `MaxLeaves`, `MaxBools` and `MaxTime`,
each declared as one in its module; `GEOMETRY_BATCH`, `DepthLimit`,
`Radix` and `max_blob_len` are the code's, smaller. The theorems hold for
any value of each.

## 6. Plan

Every safety property the runs check is proved. What would extend the models:

1. In `QueryPlanning`, a snapshot taken between a commit and its invalidations
   (`summary_cache.rs:40`).
2. In `StableIO`, settings outside the pinned ones (`stable_io.rs:9`), and labels of an
   enum that are renamed under a stored bound (`index_am.rs:237`).
