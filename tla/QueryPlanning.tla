---------------------------- MODULE QueryPlanning ----------------------------
(***************************************************************************)
(* Queries of sessions whose cached summaries module SummaryCoherence      *)
(* describes.  A query prunes when it is planned and reads rows when it is *)
(* executed, and PostgreSQL ties three things to it:                       *)
(*                                                                         *)
(*   - the session accepts invalidations with a lock that is new, and when *)
(*     the parser opens a table for an ad hoc statement; a prepared one    *)
(*     that is planned again under locks its transaction holds need not;   *)
(*   - a snapshot is taken before planning and kept for the transaction    *)
(*     (REPEATABLE READ) or anew for each execution (READ COMMITTED);      *)
(*   - a prepared statement's plan is kept, and dropped by an invalidation *)
(*     of a table it reads, once it is complete.                           *)
(***************************************************************************)
EXTENDS SummaryCoherence

CONSTANTS
    Planner,        \* bound: the sessions that run queries
    NoSnapshot      \* the transaction has no snapshot of its own

ASSUME PlanningAssumption ==
    /\ Planner \subseteq Backend
    /\ \A rows \in SUBSET Row : NoSnapshot # rows

VARIABLES
    query,          \* how far the session's query is
    repeatable,     \* the transaction is REPEATABLE READ or SERIALIZABLE
    snapshot,       \* its snapshot of other sessions' rows
    held,           \* the frame that locked the partition for reading, or 0
    plan,           \* the running query's: the keys it does not prune
    kept,           \* the prepared statement's plan
    heard           \* history: rows announced before the lock was taken

\* A plan is "crossed" (history) by messages accepted while it is made.
queryVars == <<query, repeatable, snapshot, held, plan, kept, heard>>

allVars == <<vars, queryVars>>

Plan == [keys : SUBSET Key, valid : BOOLEAN, crossed : BOOLEAN]

NoPlan == [keys |-> {}, valid |-> FALSE, crossed |-> FALSE]

QueryTypeOK ==
    /\ query \in [Backend -> {"none", "parsed", "locked", "evaluated", "planned"}]
    /\ repeatable \in [Backend -> BOOLEAN]
    /\ snapshot \in [Backend -> {NoSnapshot} \cup SUBSET Row]
    /\ held \in [Backend -> Nat] /\ \A b \in Backend : held[b] <= Len(tx[b])
    /\ plan \in [Backend -> Plan]
    /\ kept \in [Backend -> Plan]
    /\ heard \in [Backend -> SUBSET Row]

Announced == committed \ Unsent

QueryInit ==
    /\ Init
    /\ query = [b \in Backend |-> "none"]
    /\ repeatable = [b \in Backend |-> FALSE]
    /\ snapshot = [b \in Backend |-> NoSnapshot]
    /\ held = [b \in Backend |-> 0]
    /\ plan = [b \in Backend |-> NoPlan]
    /\ kept = [b \in Backend |-> NoPlan]
    /\ heard = [b \in Backend |-> {}]

-----------------------------------------------------------------------------
\* Mutant of heap_invalidated: only the index is named in the message.
heap_not_invalidated(b) == UNCHANGED kept

\* note_widened names the table too: the session drops the plans that read it.
heap_invalidated(b) == kept' = [kept EXCEPT ![b] = NoPlan]

Unlocked(b, left) ==
    /\ held' = [held EXCEPT ![b] = IF @ > left THEN 0 ELSE @]
    /\ heard' = [heard EXCEPT ![b] = IF held[b] > left THEN {} ELSE @]

Start(b) ==
    /\ query[b] = "none"
    /\ Savepoint(b)
    /\ IF tx[b] = <<>> /\ b \in Planner
       THEN \E fixed \in BOOLEAN : repeatable' = [repeatable EXCEPT ![b] = fixed]
       ELSE UNCHANGED repeatable
    /\ UNCHANGED <<query, snapshot, held, plan, kept, heard>>

InsertRow(b) ==
    /\ query[b] = "none"
    /\ \E k \in Key : widen_on_insert_covered(b, k) \/ widen_on_insert(b, k)
    /\ UNCHANGED queryVars

EndCommand(b) ==
    /\ CommandEnd(b)
    /\ heap_invalidated(b)
    /\ UNCHANGED <<query, repeatable, snapshot, held, plan, heard>>

ReleaseSavepoint(b) ==
    /\ query[b] = "none"
    /\ Release(b)
    /\ held' = [held EXCEPT ![b] = IF @ = Len(tx[b]) THEN @ - 1 ELSE @]
    /\ UNCHANGED <<query, repeatable, snapshot, plan, kept, heard>>

\* Nothing of a query is left once it has run, or failed.
Done(b) ==
    /\ query' = [query EXCEPT ![b] = "none"]
    /\ plan' = [plan EXCEPT ![b] = NoPlan]

\* Mutant of Abort: a lock outlives the savepoint it was taken in.
AbortKeepsLock(b, left) ==
    /\ Rollback(b, left)
    /\ Done(b)
    /\ snapshot' = [snapshot EXCEPT ![b] = IF left = 0 THEN NoSnapshot ELSE @]
    /\ repeatable' = [repeatable EXCEPT ![b] = @ /\ left > 0]
    /\ UNCHANGED <<held, heard, kept>>

\* A query that runs is given up; locks taken since the savepoint are released.
Abort(b, left) ==
    /\ Rollback(b, left)
    /\ Done(b)
    /\ Unlocked(b, left)
    /\ snapshot' = [snapshot EXCEPT ![b] = IF left = 0 THEN NoSnapshot ELSE @]
    /\ IF NotedIn(SubSeq(tx[b], left + 1, Len(tx[b])))
       THEN heap_invalidated(b) ELSE UNCHANGED kept
    /\ repeatable' = [repeatable EXCEPT ![b] = @ /\ left > 0]

CommitTransaction(b) ==
    /\ query[b] = "none"
    /\ Commit(b)
    /\ held' = [held EXCEPT ![b] = IF @ > 0 THEN 1 ELSE 0]
    /\ snapshot' = [snapshot EXCEPT ![b] = NoSnapshot]
    /\ repeatable' = [repeatable EXCEPT ![b] = FALSE]
    /\ UNCHANGED <<query, plan, kept, heard>>

EndTransaction(b) ==
    /\ SendInvalidations(b)
    /\ Unlocked(b, 0)
    /\ UNCHANGED <<query, repeatable, snapshot, plan, kept>>

\* At any time, also in the middle of planning: reading a catalog locks it.
Accept(b) ==
    /\ AcceptInvalidations(b)
    /\ heap_invalidated(b)
    /\ plan' = [plan EXCEPT ![b].crossed = @ \/ query[b] = "evaluated"]
    /\ UNCHANGED <<query, repeatable, snapshot, held, heard>>

Elsewhere ==
    /\ (\E row \in Row : Vacuum(row)) \/ Rebuild
    /\ UNCHANGED queryVars

-----------------------------------------------------------------------------
\* The query is parsed, under a snapshot.
Parse(b) ==
    /\ b \in Planner /\ Ready(b) /\ query[b] = "none"
    /\ query' = [query EXCEPT ![b] = "parsed"]
    /\ IF repeatable[b] /\ snapshot[b] = NoSnapshot
       THEN snapshot' = [snapshot EXCEPT ![b] = committed]
       ELSE UNCHANGED snapshot
    /\ UNCHANGED vars
    /\ UNCHANGED <<repeatable, held, plan, kept, heard>>

\* LockRelationOid: the messages are accepted with a lock that is new.
Lock(b) ==
    /\ query[b] = "parsed" /\ held[b] = 0
    /\ query' = [query EXCEPT ![b] = "locked"]
    /\ held' = [held EXCEPT ![b] = Len(tx[b])]
    /\ heard' = [heard EXCEPT ![b] = Announced]
    /\ IF pending[b]
       THEN AcceptInvalidations(b) /\ heap_invalidated(b)
       ELSE UNCHANGED vars /\ UNCHANGED kept
    /\ UNCHANGED <<repeatable, snapshot, plan>>

\* A lock that the transaction holds: nothing is accepted with it.  What the
\* parser has accepted for an ad hoc statement is a step Accept of its own.
LockHeld(b) ==
    /\ query[b] = "parsed" /\ held[b] > 0
    /\ query' = [query EXCEPT ![b] = "locked"]
    /\ UNCHANGED vars
    /\ UNCHANGED <<repeatable, snapshot, held, plan, kept, heard>>

Miss(b) ==
    /\ query[b] = "locked"
    /\ read_summary(b)
    /\ UNCHANGED queryVars

\* The hook has decided from these keys; the query goes on being planned.
Evaluated(b, keys) ==
    /\ query[b] = "locked"
    /\ query' = [query EXCEPT ![b] = "evaluated"]
    /\ plan' = [plan EXCEPT ![b] = [keys |-> keys, valid |-> TRUE, crossed |-> FALSE]]
    /\ UNCHANGED <<repeatable, snapshot, held, kept, heard>>

read_index_summary_hit(b) ==
    /\ Ready(b) /\ cached[b] # NotCached
    /\ Evaluated(b, cached[b])
    /\ UNCHANGED vars

read_index_summary_miss(b) ==
    /\ put(b)
    /\ Evaluated(b, reading[b])

\* An ad hoc query, or one whose plan is kept.
Planned(b, keep) ==
    /\ query[b] = "evaluated"
    /\ query' = [query EXCEPT ![b] = "planned"]
    /\ IF keep THEN kept' = [kept EXCEPT ![b] = plan[b]] ELSE UNCHANGED kept
    /\ UNCHANGED vars
    /\ UNCHANGED <<repeatable, snapshot, held, plan, heard>>

Reuse(b) ==
    /\ query[b] = "locked" /\ Ready(b) /\ kept[b].valid
    /\ query' = [query EXCEPT ![b] = "planned"]
    /\ plan' = [plan EXCEPT ![b] = kept[b]]
    /\ UNCHANGED vars
    /\ UNCHANGED <<repeatable, snapshot, held, kept, heard>>

Execute(b) ==
    /\ query[b] = "planned"
    /\ Done(b)
    /\ UNCHANGED vars
    /\ UNCHANGED <<repeatable, snapshot, held, kept, heard>>

QueryNext ==
    \/ \E b \in Backend :
           \/ Start(b)
           \/ InsertRow(b)
           \/ EndCommand(b)
           \/ ReleaseSavepoint(b)
           \/ \E left \in 0 .. MaxFrames : Abort(b, left)
           \/ CommitTransaction(b)
           \/ EndTransaction(b)
           \/ Accept(b)
           \/ Parse(b)
           \/ Lock(b)
           \/ LockHeld(b)
           \/ Miss(b)
           \/ read_index_summary_hit(b)
           \/ read_index_summary_miss(b)
           \/ \E keep \in BOOLEAN : Planned(b, keep)
           \/ Reuse(b)
           \/ Execute(b)
    \/ Elsewhere

QuerySpec == QueryInit /\ [][QueryNext]_allVars

-----------------------------------------------------------------------------
Finds(b, rows) == \A row \in rows : row.widened => row.key \in plan[b].keys

Decided(b) == query[b] = "evaluated" \/ (query[b] = "planned" /\ ~plan[b].crossed)

\* A query finds the rows that widened the summary and were announced before
\* its transaction locked the partition, and those its own transaction wrote:
\* planned afresh, from either cache, or run from a kept plan.
PlanCoversHeard ==
    \A b \in Backend :
        Decided(b) => Finds(b, heard[b] \cup RowsOf(tx[b]))

\* A kept plan that is still valid covers what has been announced to its
\* session, unless an announcement came while it was made.
KeptPlanCovers ==
    \A b \in Backend, row \in Announced :
        (kept[b].valid /\ ~kept[b].crossed /\ ~pending[b] /\ row.widened)
            => row.key \in kept[b].keys
=============================================================================
