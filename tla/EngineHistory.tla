---------------------------- MODULE EngineHistory ---------------------------
(***************************************************************************)
(* The engine with history variables: what a host asked last, what has     *)
(* gone out since the dongle was connected, how an outage was retried, and *)
(* which groups were refused a send.  None of them is read by a step of    *)
(* the engine.                                                             *)
(***************************************************************************)
EXTENDS Engine

VARIABLES
    asked,     \* per device, the percentage a host asked last, None after a release
    forced,    \* devices given a target by the failsafe and not released since
    refused,   \* devices whose send failed in this tick's drive
    greeting,  \* heartbeats sent since the dongle was connected, and first forms among them
    outage     \* the wait due after the last reconnect attempt since the dongle was lost,
               \* none before the first, and the time since that attempt

historyVars == <<asked, forced, refused, greeting, outage>>
hvars == <<vars, historyVars>>

\* 2 s and 60 s: a first wait at the cap would have every attempt scan.
ASSUME WaitsGrow == RetryFirst < RetryMax

HInit ==
    /\ EngineInit
    /\ asked = [m \in Mac |-> None]
    /\ forced = {} /\ refused = {}
    /\ greeting = [any |-> 0, first |-> 0]
    /\ outage = [wait |-> 0, since |-> 0]

HPush(m) ==
    \/ \E percent \in Asked : SetPercent(m, percent) /\ asked' = [asked EXCEPT ![m] = percent]
    \/ Clear(m) /\ asked' = [asked EXCEPT ![m] = None]

HApply ==
    /\ Apply
    /\ IF Head(taken).kind = "release"
       THEN forced' = forced \ {Head(taken).mac}
       ELSE UNCHANGED forced
    /\ UNCHANGED <<asked, refused, greeting, outage>>

HHeartbeat ==
    /\ HeartbeatSent
    /\ greeting' = [any   |-> CapAt(greeting.any + 1, 2),
                    first |-> IF beat.formed THEN greeting.first ELSE CapAt(greeting.first + 1, 2)]
    /\ UNCHANGED <<asked, forced, refused, outage>>

HDriveTarget(m) ==
    /\ DriveTarget(m)
    /\ forced' = IF alarm THEN forced \union {m} ELSE forced
    /\ UNCHANGED <<asked, refused, greeting, outage>>

HSendNothing(m) ==
    /\ SendNothing(m)
    /\ refused' = IF Due(groups[m]) THEN refused \union {m} ELSE refused
    /\ UNCHANGED <<asked, forced, greeting, outage>>

HReconnected(found) ==
    /\ Reconnected(found)
    /\ greeting' = [any |-> 0, first |-> 0]
    /\ outage' = [wait |-> 0, since |-> 0]
    /\ UNCHANGED <<asked, forced, refused>>

HReconnectFailed ==
    /\ ReconnectFailed
    /\ outage' = [wait  |-> IF outage.wait = 0 THEN RetryFirst ELSE CapAt(2 * outage.wait, RetryMax),
                  since |-> 0]
    /\ UNCHANGED <<asked, forced, refused, greeting>>

HPause(time) ==
    /\ Pause(time)
    /\ refused' = {}
    /\ outage' = IF outage.wait = 0 THEN outage
                 ELSE [outage EXCEPT !.since = CapAt(@ + time, RetryMax)]
    /\ UNCHANGED <<asked, forced, greeting>>

HNext ==
    \/ \E m \in Mac : HPush(m) /\ UNCHANGED <<forced, refused, greeting, outage>>
    \/ HApply \/ HHeartbeat
    \/ \E m \in Mac : HDriveTarget(m) \/ HSendNothing(m)
    \/ \E found \in Pairing : HReconnected(found)
    \/ HReconnectFailed
    \/ \E time \in Lapses \union {0} : HPause(time)
    \/ /\ \/ Stop \/ Drain \/ AllApplied \/ HeartbeatNotSent
          \/ \E reply \in Replies : PollAnswered(reply)
          \/ PollFailed \/ SweepGroups \/ Judge
          \/ \E m \in Mac : DrivePassesOver(m) \/ SendDue(m)
          \/ Driven \/ RecoverWaits \/ Publish
          \/ GoOn \/ Halt
          \/ \E m \in Mac : LastSend(m) \/ NoLastSend(m)
          \/ LastPublish
       /\ UNCHANGED historyVars

HSpec == HInit /\ [][HNext]_hvars

-----------------------------------------------------------------------------

FullSpeed(m) == Prepare[groups[m].shp][FailsafePercent]

\* engine.rs:362-366, 473-508: when the engine gives up handles it still
\* holds, every reachable group bound to the dongle has full speed for its
\* target, and its last command was full speed, unless the dongle refused
\* that very command in this tick.
FullSpeedBeforeClosing ==
    [][pc = "recover" /\ open /\ (misses' = 0 \/ ~open') /\ Lost =>
        \A m \in Fans :
            /\ groups[m].target = FullSpeed(m)
            /\ radio[m] = FullSpeed(m) \/ m \in refused]_hvars

\* engine.rs:216-232, 706-721, 782-791: requests are applied in the order they
\* were made, none twice and none dropped: what Core wants for a device,
\* with the requests still waiting on top, is what the host asked last.
LastRequestCounts ==
    LET waiting == taken \o requests
        about(m) == {i \in 1 .. Len(waiting) : waiting[i].mac = m}
    IN  \A m \in Mac :
          LET said == IF asked[m] = None THEN None ELSE Clamped(asked[m]) IN
          IF about(m) = {}
          THEN said = IF m \in DOMAIN wanted THEN wanted[m] ELSE None
          ELSE \E i \in about(m) :
                  /\ \A j \in about(m) : j <= i
                  /\ said = IF waiting[i].kind = "want" THEN Clamped(waiting[i].percent) ELSE None

\* engine.rs:258-274, 385-397; heartbeat.rs:78-90: on each connection the first
\* heartbeat that goes out is of the first form and no later one is.
FirstFormOnce ==
    /\ greeting.first = CapAt(greeting.any, 1)
    /\ beat.formed <=> greeting.any > 0

\* engine.rs:43-48, 362-412: in an outage the first attempt comes at once, in
\* the tick that found the dongle lost; each later one comes in the first
\* tick that starts at least the wait after the last attempt, the wait
\* twice the one before up to its cap.  The channel is left only once the wait
\* has reached its cap: a short outage costs no scan of every channel.
RetriesAreSpaced ==
    [][/\ pc = "recover" /\ pc' # pc =>
            ((retryIn' # retryIn \/ misses' # misses) <=>
                Lost /\ outage.since >= outage.wait)
       /\ ChannelOf[dongle'] # ChannelOf[dongle] => 2 * outage.wait >= RetryMax]_hvars

\* engine.rs:223-232, 473-508: a group has a target only because it is asked
\* for or because the failsafe gave it one since it was last released.
TargetsHaveReasons ==
    \A m \in DOMAIN groups :
        groups[m].target # None => m \in DOMAIN wanted \/ m \in forced
============================================================================
