------------------------------ MODULE StableIO ------------------------------
(***************************************************************************)
(* with_stable_io: the settings that a bound's text depends on are pinned  *)
(* while `f` writes or reads it.  PostgreSQL keeps old values on a stack   *)
(* of levels, one for each call that pins, each function with a SET clause *)
(* and each exception block; ending a level ends the ones above it.        *)
(*                                                                         *)
(* `f` calls functions of the column's type, which may run queries and     *)
(* inserts, whose calls nest.  An error ends everything up to an exception *)
(* block, which is a subtransaction, or to the planner hook, which is not. *)
(***************************************************************************)
EXTENDS Naturals, SequencesExt

CONSTANTS
    Setting,        \* settings that some column's text form depends on
    Pinned,         \* DateStyle, IntervalStyle and extra_float_digits
    Lossy,          \* those under which text may not even read back unchanged
    Style,          \* values of a setting
    Exact,          \* the one that is pinned: its text reads back under any
    MaxStack        \* bound: calls nested in each other

ASSUME StableAssumption ==
    /\ Pinned \subseteq Setting /\ Lossy \subseteq Setting
    /\ Exact \in Style
    /\ MaxStack \in Nat

VARIABLES
    session,        \* what the client has set
    guc,            \* the settings in force
    stack,          \* the transaction and the calls nested in it
    parallel,       \* it is in parallel mode
    page,           \* the settings under which the stored bound was written
    leaked          \* history: a failed function's setting has stayed in force

vars == <<session, guc, stack, parallel, page, leaked>>

Settings == [Setting -> Style]

\* A level has the values to go back to; a call that pins nothing has no level.
Frame ==
    [kind : {"transaction", "hook", "insert", "function", "block"}, level : BOOLEAN,
     saved : UNION {[S -> Style] : S \in SUBSET Setting}]

Calls == {"hook", "insert"}

TypeOK ==
    /\ session \in Settings /\ guc \in Settings /\ page \in Settings
    /\ stack \in Seq(Frame) /\ Len(stack) <= MaxStack
    /\ \A i \in DOMAIN stack : stack[i].kind = "transaction" <=> i = 1
    /\ \A i \in DOMAIN stack : stack[i].kind \in Calls =>
           (stack[i].level <=> DOMAIN stack[i].saved # {})
    /\ parallel \in BOOLEAN /\ leaked \in BOOLEAN

Top == IF stack = <<>> THEN "none" ELSE Last(stack).kind

Overridden(saved, under) ==
    [s \in DOMAIN saved \cup DOMAIN under |-> IF s \in DOMAIN saved THEN saved[s] ELSE under[s]]

\* What levels go back to: the lowest of them knows best.
SavedBy(frames) ==
    LET Saves(i, s) == s \in DOMAIN frames[i].saved
        Lowest(s) == CHOOSE i \in DOMAIN frames :
                         Saves(i, s) /\ \A j \in 1 .. i - 1 : ~Saves(j, s)
    IN  [s \in UNION {DOMAIN frames[i].saved : i \in DOMAIN frames} |->
            frames[Lowest(s)].saved[s]]

Above(left) == SubSeq(stack, left + 1, Len(stack))

Init ==
    /\ session \in Settings
    /\ guc = session
    /\ stack = <<>>
    /\ parallel = FALSE
    /\ page = [s \in Setting |-> Exact]
    /\ leaked = FALSE

Set(s, style) ==
    /\ stack = <<>>
    /\ session' = [session EXCEPT ![s] = style]
    /\ guc' = session'
    /\ UNCHANGED <<stack, parallel, page, leaked>>

Push(kind, level, pins) ==
    /\ Len(stack) < MaxStack
    /\ stack' = Append(stack, [kind |-> kind, level |-> level,
                               saved |-> [s \in DOMAIN pins |-> guc[s]]])
    /\ guc' = Overridden(pins, guc)
    /\ UNCHANGED <<session, page, leaked>>

Begin ==
    /\ stack = <<>>
    /\ Push("transaction", TRUE, [s \in {} |-> Exact])
    /\ parallel' \in BOOLEAN

\* Code of the transaction runs: its own, or what the call on top calls.
Running == stack # <<>>

Function(s, style) ==
    /\ Running
    /\ Push("function", TRUE, [t \in {s} |-> style])
    /\ UNCHANGED parallel

Block ==
    /\ Running /\ ~parallel
    /\ Push("block", TRUE, [s \in {} |-> Exact])
    /\ UNCHANGED parallel

-----------------------------------------------------------------------------
Needed == {s \in Pinned : guc[s] # Exact}

\* Mutant of with_stable_io: `f` runs unpinned in parallel mode.
with_stable_io_in_parallel(caller) ==
    /\ Running
    /\ caller = "hook" => \A i \in DOMAIN stack : stack[i].kind # "hook"
    /\ IF parallel THEN Push(caller, FALSE, [s \in {} |-> Exact])
       ELSE Push(caller, Needed # {}, [s \in Needed |-> Exact])
    /\ UNCHANGED parallel

\* Mutant of with_stable_io: the level is opened before looking at the settings.
with_stable_io_level_first(caller) ==
    /\ Running
    /\ Needed # {} => ~parallel
    /\ Push(caller, TRUE, [s \in Needed |-> Exact])
    /\ UNCHANGED parallel

\* The call begins; in parallel mode it gives up if there is anything to pin.
\* One hook runs at a time (IN_HOOK).
with_stable_io(caller) ==
    /\ Running
    /\ caller = "hook" => \A i \in DOMAIN stack : stack[i].kind # "hook"
    /\ Needed # {} => ~parallel
    /\ Push(caller, Needed # {}, [s \in Needed |-> Exact])
    /\ UNCHANGED parallel

write ==
    /\ Top = "insert"
    /\ page' = guc
    /\ UNCHANGED <<session, guc, stack, parallel, leaked>>

Return ==
    /\ stack # <<>>
    /\ stack' = Front(stack)
    /\ guc' = Overridden(Last(stack).saved, guc)
    /\ parallel' = (parallel /\ Top # "transaction")
    /\ UNCHANGED <<session, page, leaked>>

-----------------------------------------------------------------------------
\* An error that nothing in the transaction catches, or an exception block does.
Abort(left) ==
    /\ left < Len(stack)
    /\ stack[left + 1].kind \in {"transaction", "block"}
    /\ \A i \in left + 2 .. Len(stack) : stack[i].kind \notin {"hook", "block"}
    /\ stack' = SubSeq(stack, 1, left)
    /\ guc' = Overridden(SavedBy(Above(left)), guc)
    /\ parallel' = (parallel /\ left > 0)
    /\ UNCHANGED <<session, page, leaked>>

\* Mutant of Finally: the level is ended only when `f` succeeds.
FinallyOnSuccess(i) == FALSE

\* with_stable_io ends its level also when an error passes.
Finally(i) == stack[i].kind \in Calls /\ stack[i].level

\* The hook catches the error: calls above it that pinned end their levels, and
\* with them those above; a function's level stays until one below ends.
catch_others(left) ==
    /\ left < Len(stack)
    /\ stack[left + 1].kind = "hook"
    /\ \A i \in left + 2 .. Len(stack) : stack[i].kind \notin {"hook", "block"}
    /\ LET first == {i \in left + 1 .. Len(stack) : Finally(i)}
           kept == IF first = {} THEN Len(stack)
                   ELSE (CHOOSE i \in first : \A j \in first : i <= j) - 1
           lost == SavedBy(SubSeq(stack, left + 1, kept))
           below == CHOOSE i \in 1 .. left :
                        stack[i].level /\ \A j \in i + 1 .. left : ~stack[j].level
       IN  /\ guc' = Overridden(SavedBy(Above(kept)), guc)
           /\ stack' = [i \in 1 .. left |->
                           IF i = below THEN [stack[i] EXCEPT !.saved = Overridden(@, lost)]
                           ELSE stack[i]]
           /\ leaked' = (leaked \/ \E i \in left + 1 .. kept : stack[i].kind = "function")
    /\ UNCHANGED <<session, parallel, page>>

Next ==
    \/ \E s \in Setting, style \in Style : Set(s, style) \/ Function(s, style)
    \/ Begin
    \/ Block
    \/ \E caller \in Calls : with_stable_io(caller)
    \/ write
    \/ Return
    \/ \E left \in 0 .. MaxStack : Abort(left) \/ catch_others(left)

Spec == Init /\ [][Next]_vars

-----------------------------------------------------------------------------
\* Text written under one setting and read under another.
ReadsBack(s) ==
    \/ s \in Pinned /\ page[s] = Exact
    \/ s \notin Lossy /\ page[s] = guc[s]

\* A bound reads back as the value it was written from, whoever wrote it and
\* whatever the session that reads it has set: with_stable_io's promise.  It is
\* lost with the setting of a function that failed under the hook.
BoundReadsBack == (Top \in Calls /\ ~leaked) => \A s \in Setting : ReadsBack(s)

\* Whatever was nested, failed or was caught in the meantime, the transaction
\* goes on with the settings of its session, unless a function with a SET clause
\* failed under a hook that had pinned nothing; the session does in any case.
SettingsRestored ==
    /\ Len(stack) = 1 /\ ~leaked => guc = session
    /\ stack = <<>> => guc = session
=============================================================================
