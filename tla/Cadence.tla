------------------------------ MODULE Cadence ------------------------------
(***************************************************************************)
(* When the worker's ticks start, in time finer than a tick: the loop of   *)
(* src/engine.rs:719-768, and what it makes of the heartbeat (258-274),    *)
(* which is to go out once a second.  Starts lie on a grid one Tick apart, *)
(* but the sleep before a start ends late by up to Late, each time by      *)
(* another amount; a tick that takes too long moves the grid.              *)
(***************************************************************************)
EXTENDS Integers

CONSTANTS
    None,
    Tick,       \* engine::TICK
    Interval,   \* heartbeat::INTERVAL
    Late,       \* the latest a sleep wakes after its time
    Work        \* how long the work of a tick may take

ASSUME CadenceAssumption ==
    /\ Tick \in Nat /\ Interval \in Nat /\ Late \in Nat
    /\ Interval <= Tick /\ Late < Tick
    /\ Work \subseteq Nat
    /\ None \notin Int

VARIABLES
    step,     \* the worker's next step
    behind,   \* how far after its point on the grid the present tick started
    beat,     \* age of Core.last_heartbeat at the start of this tick
    skipped   \* history: heartbeats passed over in a row

cadenceVars == <<step, behind, beat, skipped>>

AtMost(limit, n) == IF n < limit THEN n ELSE limit

CadenceInit ==
    /\ step = "heartbeat"
    /\ behind \in 0 .. Late
    /\ beat = None
    /\ skipped = 0

BeatDue == beat # None => beat >= Interval

HeartbeatSent ==
    /\ step = "heartbeat" /\ BeatDue
    /\ beat' = 0
    /\ skipped' = 0
    /\ step' = "poll"
    /\ UNCHANGED behind

HeartbeatRefused ==
    /\ step = "heartbeat" /\ BeatDue
    /\ skipped' = 0
    /\ step' = "poll"
    /\ UNCHANGED <<behind, beat>>

HeartbeatTooSoon ==
    /\ step = "heartbeat" /\ ~BeatDue
    /\ skipped' = skipped + 1
    /\ step' = "poll"
    /\ UNCHANGED <<behind, beat>>

\* A reconnect at the end of a tick forgets the heartbeats before it.
Forget == beat' = None /\ UNCHANGED <<behind, skipped>>

\* A tick that overran leaves the grid where it was, so the next ones start at
\* once to make up for it.
CatchUpVariant(work, late) == IF behind + work > Tick THEN late ELSE Tick - behind + late

\* From the start of this tick to the start of the next, when this one's work
\* took `work` and the sleep ended `late` after the next point of the grid,
\* which is the end of the work when that comes later.
Gap(work, late) ==
    IF behind + work > Tick THEN work + late ELSE Tick - behind + late

Sleep(work, late) ==
    /\ behind' = late
    /\ beat' = IF beat = None THEN None ELSE AtMost(Interval, beat + Gap(work, late))
    /\ step' = "heartbeat"
    /\ UNCHANGED skipped

-----------------------------------------------------------------------------
(* Properties.                                                             *)

\* engine.rs:259-264, 750-766: a start that comes less than Interval after
\* the last heartbeat passes it over, but never two starts in a row: as
\* late as one sleep may end, two gaps together are never short.
SkipsAreSingle == skipped <= 1

=============================================================================
