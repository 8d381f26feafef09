-------------------------------- MODULE Log --------------------------------
(***************************************************************************)
(* What the worker writes to its log: the limits of src/engine.rs on lines *)
(* that repeat (fail, flush_fail_log, log_change, flush_change_log), at the *)
(* starts of ticks as module Cadence has them.                             *)
(*                                                                         *)
(* A line is about a failure text or about a group's target; it tells how  *)
(* many failures or changes it stands for, and the target it names.  Lines *)
(* without a limit of their own (online, forgotten, reconnected) are left  *)
(* out.                                                                    *)
(***************************************************************************)
EXTENDS Cadence

CONSTANTS
    Mac, Target,
    Beat, Poll,       \* the texts of a refused heartbeat and of a failed poll
    RepeatEvery,      \* REPEAT_LOG_EVERY
    ChangeEvery       \* CHANGE_LOG_EVERY

Message == {Beat, Poll}
Subject == Message \union Mac

ASSUME LogAssumption ==
    /\ Beat # Poll /\ Message \intersect Mac = {}
    /\ None \notin Subject /\ None \notin Target
    /\ RepeatEvery \in Nat /\ ChangeEvery \in Nat

VARIABLES
    failures,   \* Core.fail_log: age of the last line, failures held back since
    changes,    \* Core.change_log: the same for changes, and the target held back
    target,     \* per group, the target it has
    lines,      \* what the last step wrote, and nothing of the steps before
    event,      \* history: what failed or changed in the last step
    untold,     \* history: failures or changes since the last line about them
    quiet,      \* history: age of the last line about a group's target
    shown       \* history: the target that line named

logVars == <<failures, changes, target>>
toldVars == <<lines, event, untold, quiet, shown>>
vars == <<cadenceVars, logVars, toldVars>>

NoEntry == [x \in {} |-> None]

LogInit ==
    /\ CadenceInit
    /\ failures = NoEntry
    /\ changes = NoEntry
    /\ target = [m \in Mac |-> None]
    /\ lines = {}
    /\ event = None
    /\ untold = [s \in Subject |-> 0]
    /\ quiet = [m \in Mac |-> None]
    /\ shown = [m \in Mac |-> None]

Put(f, x, value) == [y \in DOMAIN f \union {x} |-> IF y = x THEN value ELSE f[y]]

Line(subject, count, named) == [of |-> subject, count |-> count, named |-> named]

\* The history of a step in which `what` happened and `written` was logged.
Tell(what, written) ==
    LET about == {l.of : l \in written} IN
    /\ event' = what
    /\ lines' = written
    /\ untold' = [s \in Subject |->
                    IF s \in about THEN 0 ELSE untold[s] + IF s = what THEN 1 ELSE 0]
    /\ quiet' = [m \in Mac |-> IF m \in about THEN 0 ELSE quiet[m]]
    /\ shown' = [m \in Mac |->
                    IF m \in about THEN (CHOOSE l \in written : l.of = m).named ELSE shown[m]]

Untold == Tell(None, {})

-----------------------------------------------------------------------------
(* Core::fail and flush_fail_log.                                          *)

\* The same text again: counted, and told with its count once the time is up.
FailAgain(message) ==
    /\ message \in DOMAIN failures
    /\ LET entry == failures[message] IN
        IF entry.age >= RepeatEvery
        THEN /\ failures' = Put(failures, message, [age |-> 0, held |-> 0])
             /\ Tell(message, {Line(message, entry.held + 1, None)})
        ELSE /\ failures' = Put(failures, message, [entry EXCEPT !.held = @ + 1])
             /\ Tell(message, {})

FailFirst(message) ==
    /\ message \notin DOMAIN failures
    /\ failures' = Put(failures, message, [age |-> 0, held |-> 0])
    /\ Tell(message, {Line(message, 1, None)})

Fail(message) == FailAgain(message) \/ FailFirst(message)

FailuresUp == {f \in DOMAIN failures : failures[f].age >= RepeatEvery}

\* A mistake: kinds whose time is up go without their count.
ForgetHeldVariant == {}

FailureLines == {Line(f, failures[f].held, None) : f \in {g \in FailuresUp : failures[g].held > 0}}

-----------------------------------------------------------------------------
(* Core::log_change and flush_change_log.                                  *)

\* A change of the group's target within the time of its last line is held.
ChangeHeld(m, new) ==
    /\ changes' = Put(changes, m, [age |-> changes[m].age, held |-> changes[m].held + 1, pending |-> new])
    /\ Tell(m, {})

ChangeLogged(m, new) ==
    /\ changes' = Put(changes, m, [age |-> 0, held |-> 0, pending |-> None])
    /\ Tell(m, {Line(m, 1 + IF m \in DOMAIN changes THEN changes[m].held ELSE 0, new)})

\* A mistake: the first change held is the one told.
KeepFirstVariant(m, new) ==
    IF m \in DOMAIN changes /\ changes[m].age < ChangeEvery
    THEN /\ changes' = Put(changes, m, [changes[m] EXCEPT !.held = @ + 1,
                                            !.pending = IF @ = None THEN new ELSE @])
         /\ Tell(m, {})
    ELSE ChangeLogged(m, new)

LogChange(m, new) ==
    IF m \in DOMAIN changes /\ changes[m].age < ChangeEvery
    THEN ChangeHeld(m, new)
    ELSE ChangeLogged(m, new)

ChangesUp == {m \in DOMAIN changes : changes[m].pending # None /\ changes[m].age >= ChangeEvery}

ChangeLines == {Line(m, changes[m].held, changes[m].pending) : m \in ChangesUp}

\* A mistake: a held change is written without starting the time anew.
KeepAgeVariant ==
    [m \in DOMAIN changes |->
        IF m \in ChangesUp THEN [changes[m] EXCEPT !.held = 0, !.pending = None] ELSE changes[m]]

ChangesFlushed ==
    [m \in DOMAIN changes |->
        IF m \in ChangesUp THEN [age |-> 0, held |-> 0, pending |-> None] ELSE changes[m]]

-----------------------------------------------------------------------------
(* The steps of a tick.                                                    *)

Heartbeat ==
    \/ /\ HeartbeatSent \/ HeartbeatTooSoon
       /\ UNCHANGED logVars /\ Untold
    \/ HeartbeatRefused /\ Fail(Beat) /\ UNCHANGED <<changes, target>>

PollReceiver ==
    /\ step = "poll" /\ step' = "drive"
    /\ UNCHANGED <<behind, beat, skipped, changes, target>>
    /\ (UNCHANGED failures /\ Untold) \/ Fail(Poll)

\* Between two ticks a host may have had a group released.
Release(m) ==
    /\ step = "heartbeat" /\ target[m] # None
    /\ target' = [target EXCEPT ![m] = None]
    /\ UNCHANGED <<cadenceVars, failures, changes>> /\ Untold

SetTarget(m, new) ==
    /\ step = "drive" /\ target[m] # new
    /\ target' = [target EXCEPT ![m] = new]
    /\ LogChange(m, new)
    /\ step' = "recover"
    /\ UNCHANGED <<behind, beat, skipped, failures>>

SameTargets ==
    /\ step = "drive" /\ step' = "recover"
    /\ UNCHANGED <<behind, beat, skipped, logVars>> /\ Untold

Recover ==
    /\ step = "recover" /\ step' = "flush"
    /\ Forget \/ UNCHANGED <<behind, beat, skipped>>
    /\ UNCHANGED logVars /\ Untold

Flush ==
    /\ step = "flush" /\ step' = "sleep"
    /\ changes' = ChangesFlushed
    /\ failures' = [f \in DOMAIN failures \ FailuresUp |-> failures[f]]
    /\ Tell(None, ChangeLines \union FailureLines)
    /\ UNCHANGED <<behind, beat, skipped, target>>

Later(gap, limit, f) == [x \in DOMAIN f |-> [f[x] EXCEPT !.age = AtMost(limit, @ + gap)]]

SleepOn(work, late) ==
    LET gap == Gap(work, late) IN
    /\ step = "sleep" /\ Sleep(work, late)
    /\ failures' = Later(gap, RepeatEvery, failures)
    /\ changes' = Later(gap, ChangeEvery, changes)
    /\ quiet' = [m \in Mac |-> IF quiet[m] = None THEN None ELSE AtMost(ChangeEvery, quiet[m] + gap)]
    /\ lines' = {} /\ event' = None
    /\ UNCHANGED <<target, untold, shown>>

\* A stop drops what is held back.
Stop ==
    /\ step = "sleep" /\ step' = "done"
    /\ UNCHANGED <<behind, beat, skipped, logVars>> /\ Untold

Worker ==
    \/ Heartbeat \/ PollReceiver
    \/ SameTargets \/ (\E m \in Mac, new \in Target : SetTarget(m, new))
    \/ Recover \/ Flush
    \/ \E work \in Work, late \in 0 .. Late : SleepOn(work, late)

Next == Worker \/ Stop \/ \E m \in Mac : Release(m)

Spec == LogInit /\ [][Next]_vars
-----------------------------------------------------------------------------
(* Properties.                                                             *)

LogTypeOK ==
    /\ step \in {"heartbeat", "poll", "drive", "recover", "flush", "sleep", "done"}
    /\ DOMAIN failures \subseteq Message
    /\ failures \in [DOMAIN failures -> [age: 0 .. RepeatEvery, held: Nat]]
    /\ DOMAIN changes \subseteq Mac
    /\ changes \in [DOMAIN changes -> [age: 0 .. ChangeEvery, held: Nat, pending: Target \union {None}]]
    /\ target \in [Mac -> Target \union {None}]

\* engine.rs:324-357, 511-558: nothing is lost by holding back: what is held of
\* a text or a group is what happened since the last line about it, so a
\* dropped entry holds nothing.
HeldIsUntold ==
    /\ \A f \in Message : untold[f] = IF f \in DOMAIN failures THEN failures[f].held ELSE 0
    /\ \A m \in Mac : untold[m] = IF m \in DOMAIN changes THEN changes[m].held ELSE 0

\* engine.rs:511-558: a reader who goes by the last line about a group that is
\* driven knows its target, or the target is held back for the next line,
\* whatever was set, released and set again in between.
LastLineIsTarget ==
    \A m \in Mac : target[m] # None =>
        IF m \in DOMAIN changes /\ changes[m].pending # None
        THEN changes[m].pending = target[m]
        ELSE shown[m] = target[m]

LinesAreTrue == LogTypeOK /\ HeldIsUntold /\ LastLineIsTarget

\* engine.rs:324-357, 511-558: each line tells how many failures or changes it
\* stands for: those since the line before, and the one of its own step.  And
\* engine.rs:40-42: "Least time between two logged target changes on one
\* group", though changes are logged in two places.
LinesAreWholeAndSpaced ==
    [][\A l \in lines' :
        /\ l.count = untold[l.of] + IF event' = l.of THEN 1 ELSE 0
        /\ l.of \in Mac /\ quiet[l.of] # None => quiet[l.of] >= ChangeEvery]_vars

\* The worker never waits for anybody but the clock.
LiveSpec == Spec /\ WF_vars(Worker)

\* engine.rs:324-327, 512-515: what is held back is told once its time is up,
\* even when nothing fails or changes any more, unless the engine stops.
HeldIsTold == \A s \in Subject : untold[s] > 0 ~> untold[s] = 0 \/ step = "done"
=============================================================================
