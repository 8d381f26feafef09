------------------------------- MODULE Engine -------------------------------
(***************************************************************************)
(* The fan loop: src/engine.rs, the Core and the thread that runs it, on    *)
(* the tracker of module Tracker and the dongle as src/dongle.rs gives it   *)
(* (reopen, poll, send_on).                                                 *)
(*                                                                         *)
(* One action per step of the worker thread; `pc` names the step to come.  *)
(* A host puts requests, raises `stop` and reads `snapshot` between any two *)
(* of them.  All steps of one tick see the same instant, as in the code:    *)
(* time passes in Pause only, which stands for the whole span from the     *)
(* start of one tick to the start of the next.                             *)
(***************************************************************************)
EXTENDS Tracker, Sequences

CONSTANTS
    Asked,            \* percentages hosts ask for
    FloorPercent, FailsafePercent,
    PollFailures,     \* polls failed in a row that mean the dongle is lost
    Interval,         \* heartbeat::INTERVAL
    RetryFirst, RetryMax,
    Pairing,          \* a dongle on a channel
    MasterOf, ChannelOf,  \* its address and its channel
    MaxRequests       \* bound: hosts wait while this many requests are pending

\* want's clamp.
Clamped(percent) ==
    IF percent < FloorPercent THEN FloorPercent ELSE CapAt(percent, FailsafePercent)

ASSUME PercentAssumption ==
    /\ Asked \subseteq Nat
    /\ FloorPercent \in Nat /\ FailsafePercent \in Nat /\ FloorPercent <= FailsafePercent
    /\ FailsafePercent \in Percent
ASSUME ClampAssumption == \A p \in Asked : Clamped(p) \in Percent
ASSUME RetryAssumption ==
    /\ PollFailures \in Nat \ {0}
    /\ Interval \in Nat
    /\ RetryFirst \in Nat \ {0} /\ RetryMax \in Nat /\ RetryFirst <= RetryMax
ASSUME PairingAssumption ==
    /\ MasterOf \in [Pairing -> Master]
    /\ DOMAIN ChannelOf = Pairing

VARIABLES
    pc,         \* the worker's next step
    taken,      \* requests taken from the shared list and not yet applied
    todo,       \* groups the loop of drive or shutdown has still to visit
    wanted,     \* Core.wanted
    beat,       \* Core.heartbeat_sent and the age of Core.last_heartbeat
    misses,     \* Core.failures_in_a_row, which stops at PollFailures
    retryIn,    \* time left until Core.reconnect_at
    retryWait,  \* Core.reconnect_wait
    alarm,      \* Core.alarm
    open,       \* whether the dongle's handles are held
    dongle,     \* the pairing last connected to
    radio,      \* per device, the duties last handed to the transmitter
    requests,   \* Shared.requests
    stop,       \* Shared.stop
    snapshot    \* Shared.snapshot: alarm, master and the groups published

loopVars == <<pc, taken, todo>>
coreVars == <<wanted, beat, misses, retryIn, retryWait, alarm>>
linkVars == <<open, dongle, radio>>
hostVars == <<requests, stop>>
vars == <<groups, order, pc, taken, todo, wanted, beat, misses, retryIn, retryWait,
          alarm, open, dongle, radio, requests, stop, snapshot>>

Request == [kind: {"want"}, mac: Mac, percent: Asked] \union [kind: {"release"}, mac: Mac]

Entry == [mac: Mac, online: BOOLEAN, target: Duty \union {None}, acknowledged: BOOLEAN]

Steps == {"drain", "apply", "heartbeat", "poll", "sweep", "judge", "drive", "send",
          "recover", "publish", "pause", "woken", "shutdown", "final", "done"}

EngineInit ==
    /\ Init
    /\ pc = "drain"
    /\ taken = <<>>
    /\ todo = {}
    /\ wanted = [m \in {} |-> None]
    /\ beat = [formed |-> FALSE, age |-> None]
    /\ misses = 0
    /\ retryIn = None
    /\ retryWait = RetryFirst
    /\ alarm = FALSE
    /\ open = TRUE
    /\ dongle \in {d \in Pairing : MasterOf[d] = Home}
    /\ radio = [m \in Mac |-> None]
    /\ requests = <<>>
    /\ stop = FALSE
    /\ snapshot = [alarm |-> FALSE, master |-> Home, groups |-> {}]

-----------------------------------------------------------------------------
(* The host: Engine::set_percent, clear, stop and drop.  stop consumes the *)
(* engine, so nothing is asked after it.                                   *)

Push(request) ==
    /\ ~stop
    /\ Len(requests) < MaxRequests
    /\ requests' = Append(requests, request)
    /\ UNCHANGED <<trackerVars, loopVars, coreVars, linkVars, stop, snapshot>>

SetPercent(m, percent) == Push([kind |-> "want", mac |-> m, percent |-> percent])

Clear(m) == Push([kind |-> "release", mac |-> m])

Stop ==
    /\ ~stop
    /\ stop' = TRUE
    /\ UNCHANGED <<trackerVars, loopVars, coreVars, linkVars, requests, snapshot>>

-----------------------------------------------------------------------------
(* The head of the loop: the shared list is taken whole, then applied.     *)

\* No requests are taken while the dongle is lost.
DrainLinkedVariant ==
    /\ pc = "drain"
    /\ IF open THEN taken' = requests /\ requests' = <<>> ELSE UNCHANGED <<taken, requests>>
    /\ pc' = "apply"
    /\ UNCHANGED <<trackerVars, todo, coreVars, linkVars, stop, snapshot>>

Drain ==
    /\ pc = "drain"
    /\ taken' = requests
    /\ requests' = <<>>
    /\ pc' = "apply"
    /\ UNCHANGED <<trackerVars, todo, coreVars, linkVars, stop, snapshot>>

Want(m, percent) ==
    /\ wanted' = [k \in DOMAIN wanted \union {m} |-> IF k = m THEN Clamped(percent) ELSE wanted[k]]
    /\ UNCHANGED trackerVars

\* The wish is dropped and the target stays.
ReleaseWishVariant(m) ==
    /\ wanted' = [k \in DOMAIN wanted \ {m} |-> wanted[k]]
    /\ UNCHANGED trackerVars

Release(m) ==
    /\ wanted' = [k \in DOMAIN wanted \ {m} |-> wanted[k]]
    /\ ClearTarget(m)

\* The last request taken is applied first.
ApplyBackwardsVariant ==
    /\ pc = "apply"
    /\ taken # <<>>
    /\ LET request == taken[Len(taken)] IN
       \/ request.kind = "want" /\ Want(request.mac, request.percent)
       \/ request.kind = "release" /\ Release(request.mac)
    /\ taken' = SubSeq(taken, 1, Len(taken) - 1)
    /\ UNCHANGED <<pc, todo, beat, misses, retryIn, retryWait, alarm, linkVars, hostVars, snapshot>>

Apply ==
    /\ pc = "apply"
    /\ taken # <<>>
    /\ LET request == Head(taken) IN
       \/ request.kind = "want" /\ Want(request.mac, request.percent)
       \/ request.kind = "release" /\ Release(request.mac)
    /\ taken' = Tail(taken)
    /\ UNCHANGED <<pc, todo, beat, misses, retryIn, retryWait, alarm, linkVars, hostVars, snapshot>>

AllApplied ==
    /\ pc = "apply"
    /\ taken = <<>>
    /\ pc' = "heartbeat"
    /\ UNCHANGED <<trackerVars, taken, todo, coreVars, linkVars, hostVars, snapshot>>

-----------------------------------------------------------------------------
(* One tick.                                                               *)

BeatDue == beat.age # None => beat.age >= Interval

\* Any transfer may fail, and every one does while the handles are given up.
HeartbeatSent ==
    /\ pc = "heartbeat" /\ BeatDue /\ open
    /\ beat' = [formed |-> TRUE, age |-> 0]
    /\ pc' = "poll"
    /\ UNCHANGED <<trackerVars, taken, todo, wanted, misses, retryIn, retryWait, alarm,
                   linkVars, hostVars, snapshot>>

\* Not due, or refused.
HeartbeatNotSent ==
    /\ pc = "heartbeat"
    /\ pc' = "poll"
    /\ UNCHANGED <<trackerVars, taken, todo, coreVars, linkVars, hostVars, snapshot>>

PollAnswered(reply) ==
    /\ pc = "poll" /\ open
    /\ misses' = 0
    /\ retryIn' = None
    /\ retryWait' = RetryFirst
    /\ Observe(reply)
    /\ pc' = "sweep"
    /\ UNCHANGED <<taken, todo, wanted, beat, alarm, linkVars, hostVars, snapshot>>

PollFailed ==
    /\ pc = "poll"
    /\ misses' = CapAt(misses + 1, PollFailures)
    /\ pc' = "sweep"
    /\ UNCHANGED <<trackerVars, taken, todo, wanted, beat, retryIn, retryWait, alarm,
                   linkVars, hostVars, snapshot>>

SweepGroups ==
    /\ pc = "sweep"
    /\ Sweep
    /\ pc' = "judge"
    /\ UNCHANGED <<taken, todo, coreVars, linkVars, hostVars, snapshot>>

Lost == misses >= PollFailures

\* A lost dongle is reconnected before the groups are driven.
RecoverFirstVariant ==
    /\ pc = "judge"
    /\ alarm' = Lost
    /\ todo' = IF Lost THEN {} ELSE Fans
    /\ pc' = "drive"
    /\ UNCHANGED <<trackerVars, taken, wanted, beat, misses, retryIn, retryWait, linkVars,
                   hostVars, snapshot>>

\* judge, and the list of groups drive starts from.
Judge ==
    /\ pc = "judge"
    /\ alarm' = Lost
    /\ todo' = Fans
    /\ pc' = "drive"
    /\ UNCHANGED <<trackerVars, taken, wanted, beat, misses, retryIn, retryWait, linkVars,
                   hostVars, snapshot>>

\* Only groups asked for are driven, failsafe or not.
PassOverVariant(m) ==
    /\ pc = "drive" /\ todo # {} /\ m = FirstOf(todo)
    /\ m \notin DOMAIN wanted
    /\ todo' = todo \ {m}
    /\ UNCHANGED <<trackerVars, pc, taken, coreVars, linkVars, hostVars, snapshot>>

\* A group neither asked for nor under the failsafe is passed over.
DrivePassesOver(m) ==
    /\ pc = "drive" /\ todo # {} /\ m = FirstOf(todo)
    /\ ~alarm /\ m \notin DOMAIN wanted
    /\ todo' = todo \ {m}
    /\ UNCHANGED <<trackerVars, pc, taken, coreVars, linkVars, hostVars, snapshot>>

\* What was asked goes before the failsafe.
AskedFirstVariant(m) ==
    /\ pc = "drive" /\ todo # {} /\ m = FirstOf(todo)
    /\ \/ alarm /\ m \notin DOMAIN wanted /\ SetTarget(m, FailsafePercent)
       \/ m \in DOMAIN wanted /\ SetTarget(m, wanted[m])
    /\ pc' = "send"
    /\ UNCHANGED <<taken, todo, coreVars, linkVars, hostVars, snapshot>>

DriveTarget(m) ==
    /\ pc = "drive" /\ todo # {} /\ m = FirstOf(todo)
    /\ \/ alarm /\ SetTarget(m, FailsafePercent)
       \/ ~alarm /\ m \in DOMAIN wanted /\ SetTarget(m, wanted[m])
    /\ pc' = "send"
    /\ UNCHANGED <<taken, todo, coreVars, linkVars, hostVars, snapshot>>

\* The duties go to the transmitter, which puts them on the air.
Transmit(m) ==
    /\ open
    /\ Sent(m)
    /\ radio' = [radio EXCEPT ![m] = groups[m].target]
    /\ UNCHANGED <<open, dongle>>

SendDue(m) ==
    /\ pc = "send" /\ m = FirstOf(todo)
    /\ Due(groups[m])
    /\ Transmit(m)
    /\ todo' = todo \ {m}
    /\ pc' = "drive"
    /\ UNCHANGED <<taken, coreVars, hostVars, snapshot>>

\* Not due, or refused.
SendNothing(m) ==
    /\ pc = "send" /\ m = FirstOf(todo)
    /\ todo' = todo \ {m}
    /\ pc' = "drive"
    /\ UNCHANGED <<trackerVars, taken, coreVars, linkVars, hostVars, snapshot>>

Driven ==
    /\ pc = "drive" /\ todo = {}
    /\ pc' = "recover"
    /\ UNCHANGED <<trackerVars, taken, todo, coreVars, linkVars, hostVars, snapshot>>

RetryAlwaysVariant == Lost

RetryDue == Lost /\ (retryIn # None => retryIn = 0)

\* Waiting schedules the next attempt anew.
PutOffVariant ==
    /\ pc = "recover" /\ ~RetryDue
    /\ retryIn' = IF Lost THEN retryWait ELSE retryIn
    /\ pc' = "publish"
    /\ UNCHANGED <<trackerVars, taken, todo, wanted, beat, misses, retryWait, alarm, linkVars,
                   hostVars, snapshot>>

RecoverWaits ==
    /\ pc = "recover" /\ ~RetryDue
    /\ pc' = "publish"
    /\ UNCHANGED <<trackerVars, taken, todo, coreVars, linkVars, hostVars, snapshot>>

\* The last channel only, until the wait has reached its cap.  Whichever
\* dongle answers there is taken: the scan may find this one paired anew.
EveryChannel == retryWait >= RetryMax

\* The failed polls stay counted.
KeepCountVariant(found) ==
    /\ pc = "recover" /\ RetryDue
    /\ EveryChannel \/ ChannelOf[found] = ChannelOf[dongle]
    /\ open' = TRUE
    /\ dongle' = found
    /\ retryIn' = None
    /\ retryWait' = RetryFirst
    /\ beat' = [formed |-> FALSE, age |-> None]
    /\ alarm' = FALSE
    /\ pc' = "publish"
    /\ UNCHANGED <<trackerVars, taken, todo, wanted, misses, radio, hostVars, snapshot>>

\* The heartbeat goes on as on the old connection.
KeepBeatVariant(found) ==
    /\ pc = "recover" /\ RetryDue
    /\ EveryChannel \/ ChannelOf[found] = ChannelOf[dongle]
    /\ open' = TRUE
    /\ dongle' = found
    /\ misses' = 0
    /\ retryIn' = None
    /\ retryWait' = RetryFirst
    /\ alarm' = FALSE
    /\ pc' = "publish"
    /\ UNCHANGED <<trackerVars, taken, todo, wanted, beat, radio, hostVars, snapshot>>

Reconnected(found) ==
    /\ pc = "recover" /\ RetryDue
    /\ EveryChannel \/ ChannelOf[found] = ChannelOf[dongle]
    /\ open' = TRUE
    /\ dongle' = found
    /\ misses' = 0
    /\ retryIn' = None
    /\ retryWait' = RetryFirst
    /\ beat' = [formed |-> FALSE, age |-> None]
    /\ alarm' = FALSE
    /\ pc' = "publish"
    /\ UNCHANGED <<trackerVars, taken, todo, wanted, radio, hostVars, snapshot>>

ReconnectFailed ==
    /\ pc = "recover" /\ RetryDue
    /\ open' = FALSE
    /\ retryIn' = retryWait
    /\ retryWait' = CapAt(2 * retryWait, RetryMax)
    /\ pc' = "publish"
    /\ UNCHANGED <<trackerVars, taken, todo, wanted, beat, misses, alarm, dongle, radio,
                   hostVars, snapshot>>

Described(m, online) ==
    [mac |-> m, online |-> online, target |-> groups[m].target,
     acknowledged |-> online /\ Acknowledged(groups[m])]

\* The second half lists groups online too.
ListAllVariant ==
    {Described(m, TRUE) : m \in Fans} \union
    {Described(m, FALSE) : m \in {k \in DOMAIN groups : Bound(groups[k]) /\ HasFans(groups[k])}}

Published ==
    {Described(m, TRUE) : m \in Fans} \union
    {Described(m, FALSE) : m \in {k \in DOMAIN groups :
        Bound(groups[k]) /\ HasFans(groups[k]) /\ ~Online(groups[k])}}

PublishTo(next) ==
    /\ snapshot' = [alarm |-> alarm, master |-> MasterOf[dongle], groups |-> Published]
    /\ pc' = next
    /\ UNCHANGED <<trackerVars, taken, todo, coreVars, linkVars, hostVars>>

Publish == pc = "publish" /\ PublishTo("pause")

-----------------------------------------------------------------------------
(* Between ticks, and the stop.                                            *)

\* The sleep is cut short by a stop.
Pause(time) ==
    /\ pc = "pause"
    /\ time \in Lapses \/ stop
    /\ Elapse(time)
    /\ beat' = [beat EXCEPT !.age = IF @ = None THEN None ELSE CapAt(@ + time, Interval)]
    /\ retryIn' = IF retryIn = None THEN None ELSE IF retryIn > time THEN retryIn - time ELSE 0
    /\ pc' = "woken"
    /\ UNCHANGED <<taken, todo, wanted, misses, retryWait, alarm, linkVars, hostVars, snapshot>>

\* The flag is not looked at.
NeverStopVariant ==
    /\ pc = "woken"
    /\ pc' = "drain"
    /\ UNCHANGED <<trackerVars, taken, todo, coreVars, linkVars, hostVars, snapshot>>

GoOn ==
    /\ pc = "woken" /\ ~stop
    /\ pc' = "drain"
    /\ UNCHANGED <<trackerVars, taken, todo, coreVars, linkVars, hostVars, snapshot>>

\* The stop goes to shutdown without another look at the requests.
Halt ==
    /\ pc = "woken" /\ stop
    /\ todo' = Fans
    /\ pc' = "shutdown"
    /\ UNCHANGED <<trackerVars, taken, coreVars, linkVars, hostVars, snapshot>>

LastSend(m) ==
    /\ pc = "shutdown" /\ todo # {} /\ m = FirstOf(todo)
    /\ groups[m].target # None /\ ~Acknowledged(groups[m])
    /\ Transmit(m)
    /\ todo' = todo \ {m}
    /\ UNCHANGED <<pc, taken, coreVars, hostVars, snapshot>>

\* No target, one acknowledged, or refused.
NoLastSend(m) ==
    /\ pc = "shutdown" /\ todo # {} /\ m = FirstOf(todo)
    /\ todo' = todo \ {m}
    /\ UNCHANGED <<trackerVars, pc, taken, coreVars, linkVars, hostVars, snapshot>>

LastPublish == pc = "shutdown" /\ todo = {} /\ PublishTo("done")

-----------------------------------------------------------------------------

Host ==
    \/ \E m \in Mac, percent \in Asked : SetPercent(m, percent)
    \/ \E m \in Mac : Clear(m)
    \/ Stop

Tick ==
    \/ HeartbeatSent \/ HeartbeatNotSent
    \/ \E reply \in Replies : PollAnswered(reply)
    \/ PollFailed \/ SweepGroups \/ Judge
    \/ \E m \in Mac : DrivePassesOver(m) \/ DriveTarget(m) \/ SendDue(m) \/ SendNothing(m)
    \/ Driven \/ RecoverWaits \/ ReconnectFailed
    \/ \E found \in Pairing : Reconnected(found)
    \/ Publish

Worker ==
    \/ Drain \/ Apply \/ AllApplied
    \/ Tick
    \/ \E time \in Lapses \union {0} : Pause(time)
    \/ GoOn \/ Halt
    \/ \E m \in Mac : LastSend(m) \/ NoLastSend(m)
    \/ LastPublish

EngineNext == Host \/ Worker

EngineSpec == EngineInit /\ [][EngineNext]_vars
-----------------------------------------------------------------------------
(* Properties.                                                             *)

\* The types of the loop's state.
EngineTypeOK ==
    /\ TypeOK
    /\ pc \in Steps
    /\ taken \in Seq(Request) /\ requests \in Seq(Request)
    /\ todo \subseteq Mac
    /\ DOMAIN wanted \subseteq Mac /\ wanted \in [DOMAIN wanted -> Percent]
    /\ beat \in [formed: BOOLEAN, age: 0 .. Interval \union {None}]
    /\ misses \in 0 .. PollFailures
    /\ retryIn \in 0 .. RetryMax \union {None}
    /\ retryWait \in RetryFirst .. RetryMax
    /\ alarm \in BOOLEAN /\ open \in BOOLEAN /\ stop \in BOOLEAN
    /\ dongle \in Pairing
    /\ radio \in [Mac -> Duty \union {None}]
    /\ snapshot \in [alarm: BOOLEAN, master: Master, groups: SUBSET Entry]

\* engine.rs:33-34, 276-321, 369-412, 458-471, with dongle.rs:245-251: the
\* failsafe stands exactly while the dongle is lost and not yet back.  The
\* handles are given up only by a reconnect attempt, and such an attempt only
\* follows PollFailures failed polls in a row; while they are given up a next
\* attempt is always scheduled; the wait between attempts has grown only
\* while they are.  Alarm and failure count may differ between a poll and
\* the judgement of the same tick, and nowhere else.
FailsafeInv ==
    /\ ~open <=> retryIn # None
    /\ ~open => Lost
    /\ open => retryWait = RetryFirst
    /\ pc \notin {"sweep", "judge"} => (alarm <=> Lost)
    /\ pc \notin {"sweep", "judge", "drive", "send", "recover"} => (Lost <=> ~open)
    /\ pc \in {"sweep", "judge"} => (alarm <=> ~open)

\* engine.rs:27-28, 217-219: no fan below the floor.  Whatever a host asks,
\* in whatever order with releases, losses and the stop, every command that
\* leaves carries duties some shape prepares from the floor or more.
FloorIsKept ==
    \A m \in Mac : radio[m] # None =>
        \E s \in Shape, p \in {q \in Percent : q >= FloorPercent} : radio[m] = Prepare[s][p]

\* engine.rs:6-8, 153-159, 473-508, 583-620: a host that reads the alarm in a
\* snapshot reads full speed as the target of every group listed online in
\* it, whatever it asked or released in the meantime.
AlarmIsFullSpeed ==
    snapshot.alarm => \A e \in snapshot.groups :
        e.online => \E s \in Shape : e.target = Prepare[s][FailsafePercent]

\* engine.rs:583-620: while the loop runs a snapshot describes no group twice,
\* as online and as offline; and none is left out: what a tick publishes names
\* every fan group of the dongle that is known, although one half is read off
\* the order of the last sweep and the other off the clock.
GroupsAreListedOnce ==
    /\ pc # "done" => \A d, e \in snapshot.groups : d.mac = e.mac => d = e
    /\ pc = "pause" => {e.mac : e \in snapshot.groups} =
                          {m \in DOMAIN groups : Bound(groups[m]) /\ HasFans(groups[m])}

\* engine.rs:245-256, 276-321, 458-471: the failsafe is cleared by a
\* successful reconnect and by nothing else, and raised by the failed poll
\* that completes the row, with the handles still held.
AlarmChanges ==
    [][/\ alarm /\ ~alarm' => pc = "recover" /\ open'
       /\ ~alarm /\ alarm' => open' /\ misses = PollFailures]_vars

\* The duties some shape prepares from the floor or more, and from full speed.
AllowedDuties == {Prepare[s][p] : s \in Shape, p \in {q \in Percent : q >= FloorPercent}}
FullDuties == {Prepare[s][FailsafePercent] : s \in Shape}

\* engine.rs:216-219, 286-301, 473-508: wishes are clamped when they are taken,
\* targets are prepared from a wish or from full speed, much later as it may
\* be, and commands are targets.
FloorInv ==
    /\ \A m \in DOMAIN wanted : wanted[m] >= FloorPercent
    /\ \A m \in DOMAIN groups : groups[m].target # None => groups[m].target \in AllowedDuties
    /\ \A m \in Mac : radio[m] # None => radio[m] \in AllowedDuties

FullTarget(m) == m \in DOMAIN groups /\ groups[m].target \in FullDuties

\* engine.rs:473-508: while the failsafe is in force the groups the drive has
\* passed have full speed for their target, and so has the one about to be sent.
FullInv ==
    alarm =>
        /\ pc = "send" => FullTarget(FirstOf(todo))
        /\ pc \in {"drive", "send"} => \A m \in Fans \ todo : FullTarget(m)
        /\ pc \in {"recover", "publish", "pause", "woken", "shutdown"} => \A m \in Fans : FullTarget(m)

\* The loop's state is well formed, in all that the promise of module Failsafe
\* is about.
EngineTyped == EngineTypeOK /\ OrderBase

\* engine.rs:6-8, 276-321, 362-508, 583-645: at every step of the loop the alarm
\* agrees with the handles and the retries, no target waits that would be sent
\* too slow, and what hosts are shown agrees with both.
PromiseInv == EngineTyped /\ FailsafeInv /\ FloorInv /\ FullInv /\ AlarmIsFullSpeed

Promise == INSTANCE Failsafe WITH
    Allowed <- AllowedDuties, Full <- FullDuties,
    failsafe <- alarm, missed <- misses, command <- radio

\* engine.rs:7-8: the loop keeps the promise of module Failsafe: with the
\* failsafe in force nothing but full speed leaves, not even what a target
\* set before the loss or the last sends of a stop would carry.
KeepsPromise == Promise!Spec

\* engine.rs:622-623: "Sends every group's current target one last time, so a
\* target that arrived just before the stop is not lost".
NoRequestIsLost == pc = "done" => requests = <<>> /\ taken = <<>>

\* engine.rs:366-368: a reconnect may find a dongle that was swapped;
\* engine.rs:138-160: the snapshot holds "The dongle's address" and "Fan
\* groups bound to the dongle".
GroupsBelongToDongle ==
    pc = "pause" => \A e \in snapshot.groups : OwnerOf[groups[e.mac].idn] = snapshot.master

-----------------------------------------------------------------------------
(* Progress, under the fairness of the worker's thread.                    *)

\* engine.rs:706-779, 798-813: a stop ends the loop, in whatever step it
\* finds it and whatever the dongle does.  stop() joins the thread, so a
\* worker that went on would hang the host.
StopEnds == stop ~> pc = "done"

\* engine.rs:706-716, 782-791: a request is taken up, whatever the dongle
\* does, unless the engine is stopped first.
RequestsAreTaken == requests # <<>> ~> requests = <<>> \/ stop

\* engine.rs:473-508, 560-581; groups.rs:110-121: a group that stays reachable
\* and asked for while the dongle works gets the duties its shape prepares
\* from what was asked, and stays on them, if the transmitter does not refuse
\* it for ever: a refused send is made up for, and what the failsafe sent in
\* between is replaced.
DutiesArrive ==
    \A m \in Mac, p \in Percent :
        LET steady == <>[](~alarm /\ ~stop /\ m \in Fans /\ m \in DOMAIN wanted /\ wanted[m] = p)
            tried  == []<>(pc = "send" /\ m = FirstOf(todo) /\ Due(groups[m]))
            heeded == []<><<SendDue(m)>>_vars
            settled == <>[](m \in DOMAIN groups /\ radio[m] = Prepare[groups[m].shp][p])
        IN  steady /\ (tried => heeded) => settled

\* engine.rs:369-412: however long the dongle stays lost, the engine does not
\* give up: there is always another attempt to reconnect, until one brings the
\* dongle back.
RetriesGoOn == alarm ~> (pc = "recover" /\ RetryDue) \/ ~alarm \/ stop
============================================================================
