---------------------------- MODULE EngineProofs ----------------------------
(***************************************************************************)
(* Theorems about the fan loop, for any set of devices and dongles, any    *)
(* windows, any wait between attempts and any number of requests: its      *)
(* types, that it uses the tracker as module Tracker describes it, the     *)
(* failsafe's invariant, that it implements module Failsafe, and what it   *)
(* makes of a history of requests, connections, sends and outages (module  *)
(* EngineHistory), and that it is the engine on any dongle that keeps the  *)
(* contract of module Link (module EngineOverLink).                        *)
(***************************************************************************)
EXTENDS EngineHistory, EngineOverLink, TrackerProofs

-----------------------------------------------------------------------------
(* The loop drives the tracker through its own operations only.            *)

\* That no time passes between two ticks is no step of the tracker.
LEMMA NoTimeNoChange == TypeOK /\ Elapse(0) => UNCHANGED trackerVars
<1> SUFFICES ASSUME TypeOK, Elapse(0) PROVE UNCHANGED trackerVars
    OBVIOUS
<1>1. ASSUME NEW m \in DOMAIN groups PROVE Older(groups[m], 0) = groups[m]
    <2>1. groups[m] \in Group
        BY DEF TypeOK
    <2>2. CapAt(groups[m].silence + 0, ForgetAfter) = groups[m].silence
        BY <2>1, TimeAssumption DEF Group, CapAt
    <2>3. groups[m].age # None => CapAt(groups[m].age + 0, Keepalive) = groups[m].age
        BY <2>1, TimeAssumption DEF Group, CapAt
    <2> QED
        BY <2>1, <2>2, <2>3 DEF Older, Group
<1>2. groups = [m \in DOMAIN groups |-> groups[m]]
    BY DEF TypeOK
<1> QED
    BY <1>1, <1>2 DEF Elapse, trackerVars

\* Every step of the loop or of a host is a step of the tracker, or leaves it
\* alone.
LEMMA TrackerStep == EngineTypeOK /\ [EngineNext]_vars => [Next]_trackerVars
<1> SUFFICES ASSUME EngineTypeOK, EngineNext PROVE [Next]_trackerVars
    BY DEF vars, trackerVars
<1>1. CASE UNCHANGED trackerVars
    BY <1>1
<1>2. ASSUME NEW reply \in Replies, PollAnswered(reply) PROVE Next
    BY <1>2 DEF PollAnswered, Next
<1>3. CASE SweepGroups
    BY <1>3 DEF SweepGroups, Next
<1>4. CASE Apply
    <2>1. Head(taken) \in Request
        BY <1>4 DEF Apply, EngineTypeOK
    <2>2. Head(taken).mac \in Mac
        BY <2>1 DEF Request
    <2> QED
        BY <1>4, <2>2 DEF Apply, Want, Release, Next, trackerVars
<1>5. ASSUME NEW m \in Mac, DriveTarget(m) PROVE Next
    <2>1. m \in DOMAIN wanted => wanted[m] \in Percent
        BY DEF EngineTypeOK
    <2> QED
        BY <1>5, <2>1, PercentAssumption DEF DriveTarget, Next
<1>6. ASSUME NEW m \in Mac, SendDue(m) \/ LastSend(m) PROVE Next
    BY <1>6 DEF SendDue, LastSend, Transmit, Next
<1>7. ASSUME NEW time \in Lapses \union {0}, Pause(time) PROVE [Next]_trackerVars
    <2>1. CASE time \in Lapses
        BY <1>7, <2>1 DEF Pause, Next
    <2>2. CASE time = 0
        BY <1>7, <2>2, NoTimeNoChange DEF Pause, EngineTypeOK
    <2> QED
        BY <2>1, <2>2
<1>8. CASE Host
    BY <1>1, <1>8 DEF Host, SetPercent, Clear, Push, Stop
<1>9. CASE Tick
    BY <1>1, <1>2, <1>3, <1>5, <1>6, <1>9
    DEF Tick, HeartbeatSent, HeartbeatNotSent, PollFailed, Judge, DrivePassesOver, SendNothing,
        Driven, RecoverWaits, ReconnectFailed, Reconnected, Publish, PublishTo
<1>10. CASE Worker /\ ~Tick
    BY <1>1, <1>4, <1>6, <1>7, <1>10
    DEF Worker, Drain, AllApplied, GoOn, Halt, NoLastSend, LastPublish, PublishTo
<1> QED
    BY <1>8, <1>9, <1>10 DEF EngineNext

-----------------------------------------------------------------------------
(* Types.                                                                  *)

\* What a snapshot describes is an entry.
LEMMA PublishedType ==
    ASSUME TypeOK, Listed \subseteq DOMAIN groups
    PROVE  Published \subseteq Entry
<1>1. ASSUME NEW m \in DOMAIN groups, NEW online \in BOOLEAN
      PROVE  Described(m, online) \in Entry
    <2>1. groups[m] \in Group /\ m \in Mac
        BY DEF TypeOK
    <2>2. (online /\ Acknowledged(groups[m])) \in BOOLEAN
        OBVIOUS
    <2> QED
        BY <2>1, <2>2 DEF Described, Entry, Group
<1> QED
    BY <1>1 DEF Published, Fans

LEMMA EngineTypeStep == EngineTyped /\ [EngineNext]_vars => EngineTyped'
<1> SUFFICES ASSUME EngineTyped, [EngineNext]_vars PROVE EngineTypeOK'
    BY TrackerStep, OrderStep DEF EngineTyped
<1> USE DEF EngineTyped
<1>0. TypeOK'
    BY TrackerStep, TypeStep DEF OrderBase
<1>a. /\ 0 \in 0 .. Interval /\ 0 \in 0 .. PollFailures
      /\ RetryFirst \in RetryFirst .. RetryMax
      /\ <<>> \in Seq(Request)
    BY RetryAssumption
<1>1. CASE UNCHANGED vars
    BY <1>0, <1>1 DEF vars, EngineTypeOK
<1>2. CASE Host
    <2>1. ASSUME NEW request \in Request, Push(request) PROVE EngineTypeOK'
        BY <1>0, <2>1 DEF Push, EngineTypeOK, loopVars, coreVars, linkVars
    <2>2. ASSUME NEW m \in Mac, NEW percent \in Asked PROVE
            [kind |-> "want", mac |-> m, percent |-> percent] \in Request
        BY DEF Request
    <2>3. ASSUME NEW m \in Mac PROVE [kind |-> "release", mac |-> m] \in Request
        BY DEF Request
    <2>4. CASE Stop
        BY <1>0, <2>4 DEF Stop, EngineTypeOK, loopVars, coreVars, linkVars
    <2> QED
        BY <1>2, <2>1, <2>2, <2>3, <2>4 DEF Host, SetPercent, Clear
<1>3. CASE Drain \/ AllApplied
    <2>1. CASE Drain
        BY <1>0, <1>a, <2>1 DEF Drain, EngineTypeOK, Steps, coreVars, linkVars
    <2>2. CASE AllApplied
        BY <1>0, <2>2 DEF AllApplied, EngineTypeOK, Steps, coreVars, linkVars, hostVars
    <2> QED
        BY <1>3, <2>1, <2>2
<1>4. CASE Apply
    <2>1. Head(taken) \in Request /\ Tail(taken) \in Seq(Request)
        BY <1>4 DEF Apply, EngineTypeOK
    <2>2. ASSUME NEW m \in Mac, NEW percent \in Asked, Want(m, percent)
          PROVE  DOMAIN wanted' \subseteq Mac /\ wanted' \in [DOMAIN wanted' -> Percent]
        <3>1. Clamped(percent) \in Percent
            BY ClampAssumption
        <3> QED
            BY <2>2, <3>1 DEF Want, EngineTypeOK
    <2>3. ASSUME NEW m \in Mac, Release(m)
          PROVE  DOMAIN wanted' \subseteq Mac /\ wanted' \in [DOMAIN wanted' -> Percent]
        BY <2>3 DEF Release, EngineTypeOK
    <2>4. DOMAIN wanted' \subseteq Mac /\ wanted' \in [DOMAIN wanted' -> Percent]
        BY <1>4, <2>1, <2>2, <2>3 DEF Apply, Request
    <2> QED
        BY <1>0, <1>4, <2>1, <2>4 DEF Apply, EngineTypeOK, linkVars, hostVars
<1>5. CASE HeartbeatSent \/ HeartbeatNotSent
    <2>1. CASE HeartbeatSent
        <3>1. beat' \in [formed: BOOLEAN, age: 0 .. Interval \union {None}]
            BY <1>a, <2>1 DEF HeartbeatSent
        <3> QED
            BY <1>0, <2>1, <3>1 DEF HeartbeatSent, EngineTypeOK, Steps, linkVars, hostVars
    <2>2. CASE HeartbeatNotSent
        BY <1>0, <2>2 DEF HeartbeatNotSent, EngineTypeOK, Steps, coreVars, linkVars, hostVars
    <2> QED
        BY <1>5, <2>1, <2>2
<1>6. ASSUME NEW reply, PollAnswered(reply) PROVE EngineTypeOK'
    BY <1>0, <1>6, RetryAssumption DEF PollAnswered, EngineTypeOK, Steps, linkVars, hostVars
<1>7. CASE PollFailed
    <2>1. CapAt(misses + 1, PollFailures) \in 0 .. PollFailures
        BY RetryAssumption DEF EngineTypeOK, CapAt
    <2> QED
        BY <1>0, <1>7, <2>1 DEF PollFailed, EngineTypeOK, Steps, linkVars, hostVars
<1>8. CASE SweepGroups \/ Judge
    <2>1. CASE SweepGroups
        BY <1>0, <2>1 DEF SweepGroups, EngineTypeOK, Steps, coreVars, linkVars, hostVars
    <2>2. CASE Judge
        <3>1. alarm' \in BOOLEAN
            BY <2>2 DEF Judge, Lost
        <3>2. todo' \subseteq Mac
            BY <2>2 DEF Judge, Fans, Listed
        <3> QED
            BY <1>0, <2>2, <3>1, <3>2 DEF Judge, EngineTypeOK, Steps, linkVars, hostVars
    <2> QED
        BY <1>8, <2>1, <2>2
<1>9. ASSUME NEW m, DrivePassesOver(m) \/ DriveTarget(m) \/ SendNothing(m) \/ NoLastSend(m) PROVE EngineTypeOK'
    BY <1>0, <1>9 DEF DrivePassesOver, DriveTarget, SendNothing, NoLastSend, EngineTypeOK, Steps,
        coreVars, linkVars, hostVars
<1>10. ASSUME NEW m \in Mac, SendDue(m) \/ LastSend(m) PROVE EngineTypeOK'
    <2>1. groups[m].target \in Duty \union {None}
        BY <1>10 DEF SendDue, LastSend, Transmit, Sent, EngineTypeOK, TypeOK, Group
    <2> QED
        BY <1>0, <1>10, <2>1 DEF SendDue, LastSend, Transmit, EngineTypeOK, Steps, coreVars, hostVars
<1>11. CASE Driven \/ RecoverWaits
    BY <1>0, <1>11 DEF Driven, RecoverWaits, EngineTypeOK, Steps, coreVars, linkVars, hostVars
<1>12. ASSUME NEW found \in Pairing, Reconnected(found) PROVE EngineTypeOK'
    <2>1. beat' \in [formed: BOOLEAN, age: 0 .. Interval \union {None}]
        BY <1>12 DEF Reconnected
    <2> QED
        BY <1>0, <1>a, <1>12, <2>1 DEF Reconnected, EngineTypeOK, Steps, hostVars
<1>13. CASE ReconnectFailed
    <2>1. retryWait \in 0 .. RetryMax /\ CapAt(2 * retryWait, RetryMax) \in RetryFirst .. RetryMax
        BY RetryAssumption DEF EngineTypeOK, CapAt
    <2> QED
        BY <1>0, <1>13, <2>1 DEF ReconnectFailed, EngineTypeOK, Steps, hostVars
<1>14. CASE Publish \/ LastPublish
    <2>1. Published \subseteq Entry
        BY PublishedType DEF OrderBase, OnlineAreListed
    <2>2. MasterOf[dongle] \in Master
        BY PairingAssumption DEF EngineTypeOK
    <2> QED
        BY <1>0, <1>14, <2>1, <2>2
        DEF Publish, LastPublish, PublishTo, EngineTypeOK, Steps, loopVars, coreVars, linkVars, hostVars
<1>15. ASSUME NEW time \in Lapses \union {0}, Pause(time) PROVE EngineTypeOK'
    <2>1. time \in Nat
        BY TimeAssumption
    <2>2. beat.age # None => CapAt(beat.age + time, Interval) \in 0 .. Interval
        BY <2>1, RetryAssumption DEF EngineTypeOK, CapAt
    <2>3. beat' \in [formed: BOOLEAN, age: 0 .. Interval \union {None}]
        BY <1>15, <2>2 DEF Pause, EngineTypeOK
    <2>4. retryIn' \in 0 .. RetryMax \union {None}
        BY <1>15, <2>1, RetryAssumption DEF Pause, EngineTypeOK
    <2> QED
        BY <1>0, <1>15, <2>3, <2>4 DEF Pause, EngineTypeOK, Steps, linkVars, hostVars
<1>16. CASE GoOn \/ Halt
    BY <1>0, <1>16 DEF GoOn, Halt, Fans, Listed, EngineTypeOK, Steps, coreVars, linkVars, hostVars
<1> QED
    BY <1>1, <1>2, <1>3, <1>4, <1>5, <1>6, <1>7, <1>8, <1>9, <1>10, <1>11, <1>12, <1>13, <1>14, <1>15, <1>16
    DEF EngineNext, Worker, Tick

LEMMA EngineTypeStart == EngineInit => EngineTyped
<1> SUFFICES ASSUME EngineInit PROVE EngineTyped
    OBVIOUS
<1>1. OrderBase
    BY OrderStart DEF EngineInit
<1>2. wanted \in [DOMAIN wanted -> Percent] /\ DOMAIN wanted \subseteq Mac
    BY DEF EngineInit
<1>3. <<>> \in Seq(Request)
    OBVIOUS
<1>4. beat \in [formed: BOOLEAN, age: 0 .. Interval \union {None}]
    BY DEF EngineInit
<1>5. snapshot \in [alarm: BOOLEAN, master: Master, groups: SUBSET Entry]
    BY DeviceAssumption DEF EngineInit
<1>6. radio \in [Mac -> Duty \union {None}]
    BY DEF EngineInit
<1>7. misses \in 0 .. PollFailures /\ retryWait \in RetryFirst .. RetryMax
    BY RetryAssumption DEF EngineInit
<1>8. EngineTypeOK
    BY <1>1, <1>2, <1>3, <1>4, <1>5, <1>6, <1>7 DEF EngineTypeOK, EngineInit, OrderBase, Steps
<1> QED
    BY <1>1, <1>8 DEF EngineTyped

\* The loop's state is well formed, whatever the hosts, the devices and the
\* dongle do.
THEOREM EngineTypeCorrect == EngineSpec => []EngineTypeOK
<1>1. EngineTyped => EngineTypeOK
    BY DEF EngineTyped
<1> QED
    BY <1>1, EngineTypeStart, EngineTypeStep, PTL DEF EngineSpec

\* The loop uses the tracker as module Tracker says, so what is proved of the
\* tracker holds in the engine.
THEOREM UsesTracker == EngineSpec => Spec
<1>1. EngineInit => Init
    BY DEF EngineInit
<1>2. EngineTyped /\ [EngineNext]_vars => [Next]_trackerVars
    BY TrackerStep DEF EngineTyped
<1> QED
    BY <1>1, <1>2, EngineTypeStart, EngineTypeStep, PTL DEF EngineSpec, Spec

-----------------------------------------------------------------------------
(* The failsafe.                                                           *)

\* Steps that leave the failsafe's state alone and neither leave nor enter
\* the span from a poll to the judgement, or the rest of a tick's drive.
LEMMA SameFailsafe ==
    ASSUME FailsafeInv, UNCHANGED <<misses, retryIn, retryWait, alarm, open>>,
           \/ pc' = pc
           \/ pc \in {"sweep"} /\ pc' = "judge"
           \/ pc \in {"drive", "send"} /\ pc' \in {"drive", "send", "recover"}
           \/ pc \notin {"sweep", "judge", "drive", "send", "recover"} /\
              pc' \notin {"sweep", "judge"}
    PROVE  FailsafeInv'
BY DEF FailsafeInv, Lost

LEMMA FailsafeStep == EngineTypeOK /\ FailsafeInv /\ [EngineNext]_vars => FailsafeInv'
<1> SUFFICES ASSUME EngineTypeOK, FailsafeInv, [EngineNext]_vars PROVE FailsafeInv'
    OBVIOUS
<1>0. /\ misses \in 0 .. PollFailures
      /\ retryIn \in 0 .. RetryMax \union {None}
      /\ retryWait \in RetryFirst .. RetryMax
      /\ open \in BOOLEAN /\ alarm \in BOOLEAN
    BY DEF EngineTypeOK
<1>1. CASE UNCHANGED vars
    BY <1>1, SameFailsafe DEF vars
<1>2. CASE Host
    BY <1>2, SameFailsafe DEF Host, SetPercent, Clear, Push, Stop, loopVars, coreVars, linkVars
<1>3. CASE Drain \/ Apply \/ AllApplied \/ HeartbeatSent \/ HeartbeatNotSent
    BY <1>3, SameFailsafe
    DEF Drain, Apply, AllApplied, HeartbeatSent, HeartbeatNotSent, coreVars, linkVars
<1>4. ASSUME NEW reply, PollAnswered(reply) PROVE FailsafeInv'
    <2>1. alarm = FALSE /\ alarm' = FALSE /\ open' = TRUE
        BY <1>0, <1>4 DEF PollAnswered, FailsafeInv, linkVars
    <2> QED
        BY <1>4, <2>1, RetryAssumption DEF PollAnswered, FailsafeInv, Lost
<1>5. CASE PollFailed
    <2>1. Lost => misses' >= PollFailures
        BY <1>0, <1>5, RetryAssumption DEF PollFailed, CapAt, Lost
    <2> QED
        BY <1>0, <1>5, <2>1 DEF PollFailed, FailsafeInv, Lost, linkVars
<1>6. CASE SweepGroups
    BY <1>6, SameFailsafe DEF SweepGroups, coreVars, linkVars
<1>7. CASE Judge
    BY <1>7 DEF Judge, FailsafeInv, Lost, linkVars
<1>8. ASSUME NEW m, DrivePassesOver(m) \/ DriveTarget(m) \/ SendDue(m) \/ SendNothing(m) PROVE FailsafeInv'
    BY <1>8, SameFailsafe
    DEF DrivePassesOver, DriveTarget, SendDue, SendNothing, Transmit, coreVars, linkVars
<1>9. CASE Driven
    BY <1>9, SameFailsafe DEF Driven, coreVars, linkVars
<1>10. CASE RecoverWaits
    <2>1. ~open <=> Lost
        BY <1>0, <1>10, NoneAssumption DEF RecoverWaits, RetryDue, FailsafeInv
    <2> QED
        BY <1>10, <2>1 DEF RecoverWaits, FailsafeInv, Lost, coreVars, linkVars
<1>11. ASSUME NEW found, Reconnected(found) PROVE FailsafeInv'
    BY <1>11, RetryAssumption DEF Reconnected, FailsafeInv, Lost
<1>12. CASE ReconnectFailed
    <2>1. retryWait # None
        BY <1>0, NoneAssumption, RetryAssumption
    <2> QED
        BY <1>0, <1>12, <2>1 DEF ReconnectFailed, RetryDue, FailsafeInv, Lost
<1>13. CASE Publish
    BY <1>13, SameFailsafe DEF Publish, PublishTo, loopVars, coreVars, linkVars
<1>14. ASSUME NEW time \in Lapses \union {0}, Pause(time) PROVE FailsafeInv'
    <2>1. retryIn' = None <=> retryIn = None
        BY <1>0, <1>14, NoneAssumption, TimeAssumption, RetryAssumption DEF Pause
    <2> QED
        BY <1>14, <2>1 DEF Pause, FailsafeInv, Lost, linkVars
<1>15. CASE GoOn \/ Halt \/ LastPublish
    BY <1>15, SameFailsafe DEF GoOn, Halt, LastPublish, PublishTo, loopVars, coreVars, linkVars
<1>16. ASSUME NEW m, LastSend(m) \/ NoLastSend(m) PROVE FailsafeInv'
    BY <1>16, SameFailsafe DEF LastSend, NoLastSend, Transmit, coreVars, linkVars
<1> QED
    BY <1>1, <1>2, <1>3, <1>4, <1>5, <1>6, <1>7, <1>8, <1>9, <1>10, <1>11, <1>12, <1>13, <1>14, <1>15, <1>16
    DEF EngineNext, Worker, Tick

LEMMA FailsafeStart == EngineInit => FailsafeInv
BY RetryAssumption DEF EngineInit, FailsafeInv, Lost

LEMMA FailsafeAlways == EngineSpec => [](EngineTyped /\ FailsafeInv)
<1>1. EngineTyped /\ FailsafeInv /\ [EngineNext]_vars => FailsafeInv'
    BY FailsafeStep DEF EngineTyped
<1> QED
    BY <1>1, EngineTypeStart, EngineTypeStep, FailsafeStart, PTL DEF EngineSpec

\* The failsafe stands exactly while the dongle is lost and not yet back, and
\* the handles are given up only then.
THEOREM FailsafeCorrect == EngineSpec => []FailsafeInv
BY FailsafeAlways, PTL

\* Only a successful reconnect lifts the failsafe.  Only the failed poll that
\* completes the row raises it.
THEOREM AlarmCorrect == EngineSpec => AlarmChanges
<1> DEFINE Changes ==
       /\ alarm /\ ~alarm' => pc = "recover" /\ open'
       /\ ~alarm /\ alarm' => open' /\ misses = PollFailures
<1>1. EngineTyped /\ FailsafeInv /\ [EngineNext]_vars => [Changes]_vars
    <2> SUFFICES ASSUME EngineTyped, FailsafeInv, EngineNext PROVE Changes
        OBVIOUS
    <2>1. CASE UNCHANGED alarm
        BY <2>1
    <2>2. CASE Judge
        <3>1. misses \in 0 .. PollFailures /\ PollFailures \in Nat /\ open \in BOOLEAN
            BY RetryAssumption DEF EngineTyped, EngineTypeOK
        <3>2. alarm <=> ~open
            BY <2>2 DEF Judge, FailsafeInv
        <3>3. ~open => Lost
            BY DEF FailsafeInv
        <3>4. Lost => misses = PollFailures
            BY <3>1 DEF Lost
        <3>5. (alarm' <=> Lost) /\ open' = open
            BY <2>2 DEF Judge, linkVars
        <3> QED
            BY <3>2, <3>3, <3>4, <3>5, Zenon
    <2>3. ASSUME NEW found, Reconnected(found) PROVE Changes
        BY <2>3 DEF Reconnected
    <2> QED
        BY <2>1, <2>2, <2>3
        DEF EngineNext, Host, Worker, Tick, SetPercent, Clear, Push, Stop, Drain, Apply, AllApplied,
            HeartbeatSent, HeartbeatNotSent, PollAnswered, PollFailed, SweepGroups, DrivePassesOver,
            DriveTarget, SendDue, SendNothing, Driven, RecoverWaits, ReconnectFailed, Publish,
            PublishTo, Pause, GoOn, Halt, LastSend, NoLastSend, LastPublish, coreVars
<1> QED
    BY <1>1, FailsafeAlways, PTL DEF EngineSpec, AlarmChanges

-----------------------------------------------------------------------------
(* What leaves for the fans.                                               *)

\* Only SetTarget gives a device a target.
LEMMA NoNewTargets ==
    ASSUME TypeOK,
           \/ \E reply \in Replies : Observe(reply)
           \/ Sweep
           \/ \E m : ClearTarget(m) \/ Sent(m)
           \/ \E time : Elapse(time)
    PROVE  \A m \in DOMAIN groups' : groups'[m].target # None =>
               m \in DOMAIN groups /\ groups'[m].target = groups[m].target
<1>0. \A m \in DOMAIN groups : groups[m] \in Group
    BY DEF TypeOK
<1>1. ASSUME NEW reply \in Replies, Observe(reply), NEW m \in DOMAIN groups', groups'[m].target # None
      PROVE  m \in DOMAIN groups /\ groups'[m].target = groups[m].target
    <2>1. CASE m \notin DOMAIN reply
        BY <1>1, <2>1 DEF Observe
    <2>2. CASE m \in DOMAIN reply /\ m \in DOMAIN groups
        <3>1. groups'[m] = TakeSighting(groups[m], reply[m])
            BY <1>1, <2>2 DEF Observe
        <3> QED
            BY <1>0, <2>2, <3>1 DEF TakeSighting, Group
    <2>3. CASE m \in DOMAIN reply /\ m \notin DOMAIN groups
        <3>1. groups'[m] = NewGroup(reply[m])
            BY <1>1, <2>3 DEF Observe
        <3> QED
            BY <1>1, <3>1 DEF NewGroup
    <2> QED
        BY <2>1, <2>2, <2>3
<1>2. CASE Sweep
    BY <1>2 DEF Sweep
<1>3. ASSUME NEW m, ClearTarget(m) PROVE
        \A k \in DOMAIN groups' : groups'[k].target # None =>
            k \in DOMAIN groups /\ groups'[k].target = groups[k].target
    BY <1>0, <1>3 DEF ClearTarget, Group
<1>4. ASSUME NEW m, Sent(m) PROVE
        \A k \in DOMAIN groups' : k \in DOMAIN groups /\ groups'[k].target = groups[k].target
    BY <1>0, <1>4 DEF Sent, Group
<1>5. ASSUME NEW time, Elapse(time) PROVE
        \A k \in DOMAIN groups' : k \in DOMAIN groups /\ groups'[k].target = groups[k].target
    BY <1>0, <1>5 DEF Elapse, Older, Group
<1> QED
    BY <1>1, <1>2, <1>3, <1>4, <1>5

\* What SetTarget does to targets.
LEMMA OneTarget ==
    ASSUME TypeOK, NEW m, NEW percent, SetTarget(m, percent)
    PROVE  /\ m \in DOMAIN groups /\ DOMAIN groups' = DOMAIN groups
           /\ groups[m].shp \in Shape
           /\ groups'[m].target = Prepare[groups[m].shp][percent]
           /\ \A k \in DOMAIN groups : k # m => groups'[k].target = groups[k].target
BY DEF TypeOK, SetTarget, Group

LEMMA FloorStep == PromiseInv /\ [EngineNext]_vars => FloorInv'
<1> SUFFICES ASSUME PromiseInv, [EngineNext]_vars PROVE FloorInv'
    OBVIOUS
<1>0. TypeOK /\ EngineTypeOK /\ FloorInv
    BY DEF PromiseInv, EngineTyped, OrderBase
<1>1. \/ UNCHANGED groups
      \/ \A m \in DOMAIN groups' : groups'[m].target # None =>
            m \in DOMAIN groups /\ groups'[m].target = groups[m].target
      \/ \E m \in Mac, percent \in Percent : percent >= FloorPercent /\ SetTarget(m, percent)
    <2>1. ASSUME NEW reply \in Replies, PollAnswered(reply) PROVE \E r \in Replies : Observe(r)
        BY <2>1 DEF PollAnswered
    <2>2. ASSUME NEW m \in Mac, DriveTarget(m)
          PROVE  \E percent \in Percent : percent >= FloorPercent /\ SetTarget(m, percent)
        <3>1. FailsafePercent \in Percent /\ FailsafePercent >= FloorPercent
            BY PercentAssumption
        <3>2. m \in DOMAIN wanted => wanted[m] \in Percent /\ wanted[m] >= FloorPercent
            BY <1>0 DEF EngineTypeOK, FloorInv
        <3> QED
            BY <2>2, <3>1, <3>2 DEF DriveTarget
    <2>3. CASE Apply
        BY <1>0, <2>3, NoNewTargets DEF Apply, Want, Release, trackerVars
    <2>4. CASE SweepGroups
        BY <1>0, <2>4, NoNewTargets DEF SweepGroups
    <2>5. ASSUME NEW m \in Mac, SendDue(m) \/ LastSend(m)
          PROVE  Sent(m)
        BY <2>5 DEF SendDue, LastSend, Transmit
    <2>6. ASSUME NEW time, Pause(time) PROVE Elapse(time)
        BY <2>6 DEF Pause
    <2> QED
        BY <1>0, <2>1, <2>2, <2>3, <2>4, <2>5, <2>6, NoNewTargets
        DEF vars, trackerVars, EngineNext, Host, Worker, Tick, SetPercent, Clear, Push, Stop, Drain, AllApplied,
            HeartbeatSent, HeartbeatNotSent, PollFailed, Judge, DrivePassesOver,
            SendNothing, Driven, RecoverWaits, ReconnectFailed, Reconnected, Publish,
            PublishTo, GoOn, Halt, NoLastSend, LastPublish
<1>2. \A m \in DOMAIN groups' : groups'[m].target # None => groups'[m].target \in AllowedDuties
    <2>1. ASSUME NEW m \in Mac, NEW percent \in Percent, percent >= FloorPercent, SetTarget(m, percent)
          PROVE  \A k \in DOMAIN groups' : groups'[k].target # None => groups'[k].target \in AllowedDuties
        <3>1. groups'[m].target \in AllowedDuties
            BY <1>0, <2>1, OneTarget DEF AllowedDuties
        <3> QED
            BY <1>0, <2>1, <3>1, OneTarget DEF FloorInv
    <2> QED
        BY <1>0, <1>1, <2>1 DEF FloorInv
<1>3. \A m \in DOMAIN wanted' : wanted'[m] >= FloorPercent
    <2>1. CASE Apply
        <3>1. Head(taken) \in Request
            BY <1>0, <2>1 DEF Apply, EngineTypeOK
        <3>2. ASSUME NEW m, NEW percent \in Asked, Want(m, percent) PROVE \A k \in DOMAIN wanted' : wanted'[k] >= FloorPercent
            <4>1. Clamped(percent) >= FloorPercent
                BY PercentAssumption DEF Clamped, CapAt
            <4> QED
                BY <1>0, <3>2, <4>1 DEF Want, FloorInv
        <3>3. ASSUME NEW m, Release(m) PROVE \A k \in DOMAIN wanted' : wanted'[k] >= FloorPercent
            BY <1>0, <3>3 DEF Release, FloorInv
        <3> QED
            BY <2>1, <3>1, <3>2, <3>3 DEF Apply, Request
    <2>2. CASE UNCHANGED wanted
        BY <1>0, <2>2 DEF FloorInv
    <2> QED
        BY <2>1, <2>2
        DEF vars, coreVars, EngineNext, Host, Worker, Tick, SetPercent, Clear, Push, Stop, Drain, AllApplied,
            HeartbeatSent, HeartbeatNotSent, PollAnswered, PollFailed, SweepGroups, Judge, DrivePassesOver,
            DriveTarget, SendDue, SendNothing, Driven, RecoverWaits, ReconnectFailed, Reconnected, Publish,
            PublishTo, Pause, GoOn, Halt, LastSend, NoLastSend, LastPublish
<1>4. \A m \in Mac : radio'[m] # None => radio'[m] \in AllowedDuties
    <2>1. ASSUME NEW m \in Mac, Transmit(m) PROVE \A k \in Mac : radio'[k] # None => radio'[k] \in AllowedDuties
        <3>1. m \in DOMAIN groups /\ groups[m].target # None
            BY <2>1 DEF Transmit, Sent
        <3> QED
            BY <1>0, <2>1, <3>1 DEF Transmit, FloorInv, EngineTypeOK
    <2>2. CASE UNCHANGED radio
        BY <1>0, <2>2 DEF FloorInv
    <2> QED
        BY <2>1, <2>2
        DEF vars, linkVars, EngineNext, Host, Worker, Tick, SetPercent, Clear, Push, Stop, Drain, Apply, AllApplied,
            HeartbeatSent, HeartbeatNotSent, PollAnswered, PollFailed, SweepGroups, Judge, DrivePassesOver,
            DriveTarget, SendDue, SendNothing, Driven, RecoverWaits, ReconnectFailed, Reconnected, Publish,
            PublishTo, Pause, GoOn, Halt, LastSend, NoLastSend, LastPublish
<1> QED
    BY <1>2, <1>3, <1>4 DEF FloorInv

\* Steps that change neither targets nor what devices are leave it settled
\* who is driven and who has full speed for its target.
LEMMA SameFull ==
    ASSUME OnlineAreListed, order' = order, DOMAIN groups' = DOMAIN groups,
           \A m \in DOMAIN groups : /\ groups'[m].target = groups[m].target
                                    /\ groups'[m].idn = groups[m].idn
                                    /\ groups'[m].shp = groups[m].shp
    PROVE  /\ Fans' = Fans
           /\ \A m : FullTarget(m)' <=> FullTarget(m)
BY DEF OnlineAreListed, Fans, Listed, Bound, HasFans, FullTarget

LEMMA FullStep == PromiseInv /\ [EngineNext]_vars => FullInv'
<1> SUFFICES ASSUME PromiseInv, [EngineNext]_vars PROVE FullInv'
    OBVIOUS
<1>0. /\ TypeOK /\ OnlineAreListed /\ EngineTypeOK /\ FailsafeInv /\ FullInv
      /\ \A m \in DOMAIN groups : groups[m] \in Group
    BY DEF PromiseInv, EngineTyped, OrderBase, TypeOK
<1>1. ASSUME UNCHANGED <<pc, todo, alarm, groups, order>> PROVE FullInv'
    <2>1. FirstOf(todo)' = FirstOf(todo) /\ Fans' = Fans
        BY <1>1 DEF FirstOf, Fans, Listed
    <2> QED
        BY <1>0, <1>1, <2>1 DEF FullInv, FullTarget
<1>2. ASSUME pc' \in {"drain", "apply", "heartbeat", "poll", "sweep", "judge", "done"} PROVE FullInv'
    BY <1>2 DEF FullInv
<1>3. CASE Judge
    <2>1. todo' = Fans' /\ pc' = "drive"
        BY <1>3 DEF Judge, Fans, Listed, trackerVars
    <2> QED
        BY <2>1 DEF FullInv
<1>4. ASSUME NEW m, DrivePassesOver(m) PROVE FullInv'
    BY <1>4 DEF DrivePassesOver, coreVars, FullInv
<1>5. ASSUME NEW m, DriveTarget(m) PROVE FullInv'
    <2> SUFFICES ASSUME alarm PROVE FullInv'
        BY <1>5 DEF DriveTarget, FullInv, coreVars
    <2>1. SetTarget(m, FailsafePercent) /\ m = FirstOf(todo) /\ pc = "drive" /\ pc' = "send" /\ todo' = todo
        BY <1>5 DEF DriveTarget
    <2>2. FirstOf(todo)' = m
        BY <2>1 DEF FirstOf, SetTarget
    <2>3. groups'[m].target \in FullDuties
        BY <1>0, <2>1, OneTarget DEF FullDuties
    <2>4. \A k \in DOMAIN groups : groups'[k].idn = groups[k].idn /\ groups'[k].shp = groups[k].shp
        BY <1>0, <2>1 DEF SetTarget, Group
    <2>5. order' = order /\ DOMAIN groups' = DOMAIN groups /\ m \in DOMAIN groups
        BY <2>1 DEF SetTarget
    <2>6. Fans' = Fans
        BY <1>0, <2>4, <2>5 DEF OnlineAreListed, Fans, Listed, Bound, HasFans
    <2>7. ASSUME NEW k \in Fans \ todo PROVE FullTarget(k)'
        <3>1. FullTarget(k)
            BY <1>0, <2>1, <2>7 DEF FullInv
        <3> QED
            BY <1>0, <2>1, <2>3, <3>1, OneTarget DEF FullTarget
    <2>8. FullTarget(m)'
        BY <2>3, <2>5 DEF FullTarget
    <2> QED
        BY <2>1, <2>2, <2>6, <2>7, <2>8 DEF FullInv
<1>6. ASSUME NEW m, SendDue(m) \/ SendNothing(m) PROVE FullInv'
    <2>1. m = FirstOf(todo) /\ todo' = todo \ {m} /\ pc = "send" /\ pc' = "drive" /\ alarm' = alarm
        BY <1>6 DEF SendDue, SendNothing, coreVars
    <2>2. /\ order' = order /\ DOMAIN groups' = DOMAIN groups
          /\ \A k \in DOMAIN groups : /\ groups'[k].target = groups[k].target
                                      /\ groups'[k].idn = groups[k].idn
                                      /\ groups'[k].shp = groups[k].shp
        BY <1>0, <1>6 DEF SendDue, SendNothing, Transmit, Sent, trackerVars, Group
    <2>3. Fans' = Fans /\ \A k : FullTarget(k)' <=> FullTarget(k)
        BY <1>0, <2>2, SameFull
    <2>4. alarm => FullTarget(m)
        BY <1>0, <2>1 DEF FullInv
    <2> HIDE DEF FullTarget
    <2> QED
        BY <1>0, <2>1, <2>3, <2>4 DEF FullInv
<1>7. ASSUME Driven \/ RecoverWaits \/ ReconnectFailed \/ Publish PROVE FullInv'
    <2>1. UNCHANGED <<groups, order, alarm>>
        BY <1>7 DEF Driven, RecoverWaits, ReconnectFailed, Publish, PublishTo, trackerVars, coreVars
    <2>2. Fans' = Fans /\ \A k : FullTarget(k)' <=> FullTarget(k)
        BY <1>0, <2>1, SameFull
    <2>3. alarm => \A k \in Fans : FullTarget(k)
        BY <1>0, <1>7 DEF Driven, RecoverWaits, ReconnectFailed, Publish, FullInv
    <2>4. pc' \in {"recover", "publish", "pause"}
        BY <1>7 DEF Driven, RecoverWaits, ReconnectFailed, Publish, PublishTo
    <2> HIDE DEF FullTarget
    <2> QED
        BY <2>1, <2>2, <2>3, <2>4 DEF FullInv
<1>8. ASSUME NEW found, Reconnected(found) PROVE FullInv'
    BY <1>8 DEF Reconnected, FullInv
<1>9. ASSUME NEW time, Pause(time) PROVE FullInv'
    <2>1. /\ order' = order /\ DOMAIN groups' = DOMAIN groups
          /\ \A k \in DOMAIN groups : /\ groups'[k].target = groups[k].target
                                      /\ groups'[k].idn = groups[k].idn
                                      /\ groups'[k].shp = groups[k].shp
        BY <1>0, <1>9 DEF Pause, Elapse, Older, Group
    <2>2. Fans' = Fans /\ \A k : FullTarget(k)' <=> FullTarget(k)
        BY <1>0, <2>1, SameFull
    <2> HIDE DEF FullTarget
    <2> QED
        BY <1>0, <1>9, <2>2 DEF Pause, FullInv
<1>10. ASSUME NEW m, Halt \/ NoLastSend(m) \/ LastSend(m) PROVE FullInv'
    <2>1. pc \in {"woken", "shutdown"} /\ pc' = "shutdown" /\ alarm' = alarm
        BY <1>10 DEF Halt, NoLastSend, LastSend, coreVars
    <2>2. /\ order' = order /\ DOMAIN groups' = DOMAIN groups
          /\ \A k \in DOMAIN groups : /\ groups'[k].target = groups[k].target
                                      /\ groups'[k].idn = groups[k].idn
                                      /\ groups'[k].shp = groups[k].shp
        BY <1>0, <1>10 DEF Halt, NoLastSend, LastSend, Transmit, Sent, trackerVars, Group
    <2>3. Fans' = Fans /\ \A k : FullTarget(k)' <=> FullTarget(k)
        BY <1>0, <2>2, SameFull
    <2> HIDE DEF FullTarget
    <2> QED
        BY <1>0, <2>1, <2>3 DEF FullInv
<1>11. CASE UNCHANGED vars \/ Host
    BY <1>1, <1>11 DEF vars, Host, SetPercent, Clear, Push, Stop, trackerVars, loopVars, coreVars
<1>12. CASE \/ Drain \/ Apply \/ AllApplied \/ HeartbeatSent \/ HeartbeatNotSent \/ PollFailed
            \/ SweepGroups \/ GoOn \/ LastPublish
            \/ \E reply \in Replies : PollAnswered(reply)
    BY <1>2, <1>12
    DEF Drain, Apply, AllApplied, HeartbeatSent, HeartbeatNotSent, PollFailed, SweepGroups, GoOn,
        LastPublish, PublishTo, PollAnswered
<1> QED
    BY <1>3, <1>4, <1>5, <1>6, <1>7, <1>8, <1>9, <1>10, <1>11, <1>12 DEF EngineNext, Worker, Tick

LEMMA AlarmStep == PromiseInv /\ [EngineNext]_vars => AlarmIsFullSpeed'
<1> SUFFICES ASSUME PromiseInv, [EngineNext]_vars PROVE AlarmIsFullSpeed'
    OBVIOUS
<1>1. CASE UNCHANGED snapshot
    BY <1>1 DEF PromiseInv, AlarmIsFullSpeed
<1>2. CASE Publish \/ LastPublish
    <2> SUFFICES ASSUME alarm, NEW e \in Published, e.online
                 PROVE  \E s \in Shape : e.target = Prepare[s][FailsafePercent]
        BY <1>2 DEF Publish, LastPublish, PublishTo, AlarmIsFullSpeed
    <2>1. PICK m \in Fans : e = Described(m, TRUE)
        BY DEF Published, Described
    <2>2. FullTarget(m)
        BY <1>2, <2>1 DEF Publish, LastPublish, PromiseInv, FullInv
    <2>3. e.target = groups[m].target
        BY <2>1 DEF Described
    <2> QED
        BY <2>2, <2>3 DEF FullTarget, FullDuties
<1> QED
    BY <1>1, <1>2
    DEF vars, hostVars, EngineNext, Host, Worker, Tick, SetPercent, Clear, Push, Stop, Drain, Apply, AllApplied,
        HeartbeatSent, HeartbeatNotSent, PollAnswered, PollFailed, SweepGroups, Judge, DrivePassesOver,
        DriveTarget, SendDue, SendNothing, Driven, RecoverWaits, ReconnectFailed, Reconnected,
        Pause, GoOn, Halt, LastSend, NoLastSend

\* Alarm, retries, wishes, targets, commands and what hosts are shown agree at
\* every step of the loop.
THEOREM PromiseAlways == EngineSpec => []PromiseInv
<1>1. EngineInit => FloorInv /\ FullInv /\ AlarmIsFullSpeed
    BY DEF EngineInit, Init, FloorInv, FullInv, AlarmIsFullSpeed
<1>2. EngineInit => PromiseInv
    BY <1>1, EngineTypeStart, FailsafeStart DEF PromiseInv
<1>3. PromiseInv /\ [EngineNext]_vars => PromiseInv'
    BY EngineTypeStep, FailsafeStep, FloorStep, FullStep, AlarmStep DEF PromiseInv, EngineTyped
<1> QED
    BY <1>2, <1>3, PTL DEF EngineSpec

\* No command leaves for a fan with duties below the floor, whatever hosts
\* ask.
THEOREM FloorCorrect == EngineSpec => []FloorIsKept
<1>1. PromiseInv => FloorIsKept
    BY DEF PromiseInv, FloorInv, FloorIsKept, AllowedDuties
<1> QED
    BY <1>1, PromiseAlways, PTL

\* A snapshot that shows the alarm shows full speed as the target of every
\* group online.
THEOREM AlarmIsFullSpeedCorrect == EngineSpec => []AlarmIsFullSpeed
<1>1. PromiseInv => AlarmIsFullSpeed
    BY DEF PromiseInv
<1> QED
    BY <1>1, PromiseAlways, PTL

-----------------------------------------------------------------------------
(* The loop implements module Failsafe.                                    *)

LEMMA PromiseStep == PromiseInv /\ [EngineNext]_vars => [Promise!Next]_(Promise!fsVars)
<1> SUFFICES ASSUME PromiseInv, [EngineNext]_vars PROVE [Promise!Next]_(Promise!fsVars)
    OBVIOUS
<1>0. /\ TypeOK /\ OnlineAreListed /\ EngineTypeOK /\ FailsafeInv /\ FullInv /\ FloorInv
      /\ misses \in 0 .. PollFailures /\ PollFailures \in Nat /\ alarm \in BOOLEAN /\ open \in BOOLEAN
    BY RetryAssumption DEF PromiseInv, EngineTyped, OrderBase, EngineTypeOK
<1>1. CASE UNCHANGED <<alarm, misses, radio>>
    BY <1>1 DEF Promise!fsVars
<1>2. ASSUME NEW reply, PollAnswered(reply) PROVE Promise!Answer
    <2>1. pc = "poll" /\ open /\ misses' = 0 /\ UNCHANGED <<alarm, radio>>
        BY <1>2 DEF PollAnswered, linkVars
    <2>2. ~alarm
        BY <1>0, <2>1 DEF FailsafeInv
    <2> QED
        BY <2>1, <2>2 DEF Promise!Answer
<1>3. CASE PollFailed
    <2>1. CapAt(misses + 1, PollFailures) = IF misses < PollFailures THEN misses + 1 ELSE misses
        BY <1>0 DEF CapAt
    <2> QED
        BY <1>3, <2>1 DEF PollFailed, linkVars, Promise!Miss, Promise!Next
<1>4. CASE Judge
    <2>1. pc = "judge" /\ (alarm' <=> Lost) /\ UNCHANGED <<misses, radio>>
        BY <1>4 DEF Judge, linkVars
    <2>2. (alarm <=> ~open) /\ (~open => Lost)
        BY <1>0, <2>1 DEF FailsafeInv
    <2>3. Lost => misses = PollFailures
        BY <1>0 DEF Lost
    <2>4. alarm' \in BOOLEAN
        BY <1>4 DEF Judge, Lost
    <2>5. CASE ~alarm /\ Lost
        BY <2>1, <2>3, <2>4, <2>5 DEF Promise!Raise, Promise!Next
    <2>6. CASE alarm \/ ~Lost
        <3>1. alarm' = alarm
            BY <1>0, <2>1, <2>2, <2>4, <2>6
        <3> QED
            BY <1>1, <2>1, <3>1
    <2> QED
        BY <2>5, <2>6
<1>5. ASSUME NEW found, Reconnected(found) PROVE Promise!Return
    <2>1. pc = "recover" /\ Lost
        BY <1>5 DEF Reconnected, RetryDue
    <2>2. alarm
        BY <1>0, <2>1 DEF FailsafeInv
    <2> QED
        BY <1>5, <2>2 DEF Reconnected, Promise!Return
<1>6. ASSUME NEW m \in Mac, SendDue(m) \/ LastSend(m) PROVE Promise!Next
    <2>1. /\ Transmit(m) /\ open
          /\ UNCHANGED <<alarm, misses>>
        BY <1>6 DEF SendDue, LastSend, Transmit, coreVars
    <2>2. m \in DOMAIN groups /\ groups[m].target # None
        BY <2>1 DEF Transmit, Sent
    <2>3. groups[m].target \in AllowedDuties
        BY <1>0, <2>2 DEF FloorInv
    <2>4. ASSUME alarm PROVE groups[m].target \in FullDuties
        <3>1. CASE SendDue(m)
            BY <1>0, <2>4, <3>1 DEF SendDue, FullInv, FullTarget
        <3>2. CASE LastSend(m)
            BY <1>0, <2>1, <2>4, <3>2 DEF LastSend, FailsafeInv
        <3> QED
            BY <1>6, <3>1, <3>2
    <2>5. Promise!Command(m, groups[m].target)
        BY <2>1, <2>3, <2>4 DEF Transmit, Promise!Command
    <2> QED
        BY <2>3, <2>5 DEF Promise!Next
<1> QED
    BY <1>1, <1>2, <1>3, <1>4, <1>5, <1>6
    DEF vars, coreVars, linkVars, EngineNext, Host, Worker, Tick, SetPercent, Clear, Push, Stop, Drain, Apply,
        AllApplied, HeartbeatSent, HeartbeatNotSent, SweepGroups, DrivePassesOver, DriveTarget,
        SendNothing, Driven, RecoverWaits, ReconnectFailed, Publish, PublishTo, Pause, GoOn, Halt,
        NoLastSend, LastPublish, Promise!Next

\* The promise to the user: a row of failed polls and nothing else turns the
\* failsafe on, the dongle's return and nothing else turns it off, and while it
\* is on only full speed leaves.
THEOREM PromiseCorrect == EngineSpec => KeepsPromise
<1>1. EngineInit => Promise!Init
    BY DEF EngineInit, Promise!Init
<1> QED
    BY <1>1, PromiseStep, PromiseAlways, PTL DEF EngineSpec, KeepsPromise, Promise!Spec

-----------------------------------------------------------------------------
(* What a snapshot lists.                                                  *)

\* From the sweep to the snapshot the groups listed are those online.
SweptInv ==
    pc \in {"judge", "drive", "send", "recover", "publish"} =>
        Listed = {m \in DOMAIN groups : Online(groups[m])}

\* Every step keeps that.
LEMMA SweptIsKept == EngineTypeOK /\ SweptInv /\ [EngineNext]_vars => SweptInv'
<1> SUFFICES ASSUME EngineTypeOK, SweptInv, [EngineNext]_vars PROVE SweptInv'
    OBVIOUS
<1>0. \A m \in DOMAIN groups : groups[m] \in Group
    BY DEF EngineTypeOK, TypeOK
<1>1. ASSUME pc' \in {"judge", "drive", "send", "recover", "publish"} =>
                 pc \in {"judge", "drive", "send", "recover", "publish"},
             order' = order, DOMAIN groups' = DOMAIN groups,
             \A m \in DOMAIN groups : groups'[m].silence = groups[m].silence
      PROVE  SweptInv'
    BY <1>1 DEF SweptInv, Listed, Online
<1>2. ASSUME pc' \notin {"judge", "drive", "send", "recover", "publish"} PROVE SweptInv'
    BY <1>2 DEF SweptInv
<1>3. CASE SweepGroups
    <2>1. /\ order' = Rebuilt(groups') /\ DOMAIN groups' \subseteq DOMAIN groups
        BY <1>3 DEF SweepGroups, Sweep
    <2>2. DOMAIN groups \subseteq Mac /\ \A m \in Mac : m <= m
        BY AddressAssumption DEF EngineTypeOK, TypeOK
    <2>3. Listed' = {m \in DOMAIN groups' : Online(groups'[m])}
        BY <2>1, <2>2 DEF Rebuilt, Listed
    <2> QED
        BY <2>3 DEF SweptInv, Online
<1>4. ASSUME NEW m, DriveTarget(m) PROVE SweptInv'
    <2>1. SetTarget(m, FailsafePercent) \/ SetTarget(m, wanted[m])
        BY <1>4 DEF DriveTarget
    <2>2. /\ order' = order /\ DOMAIN groups' = DOMAIN groups
          /\ \A k \in DOMAIN groups : groups'[k].silence = groups[k].silence
        BY <1>0, <2>1 DEF SetTarget, Group
    <2> QED
        BY <1>1, <1>4, <2>2 DEF DriveTarget
<1>5. ASSUME NEW m, SendDue(m) PROVE SweptInv'
    <2>1. /\ order' = order /\ DOMAIN groups' = DOMAIN groups
          /\ \A k \in DOMAIN groups : groups'[k].silence = groups[k].silence
        BY <1>0, <1>5 DEF SendDue, Transmit, Sent, Group
    <2> QED
        BY <1>1, <1>5, <2>1 DEF SendDue
<1>6. CASE \/ UNCHANGED vars \/ Host \/ Judge \/ Driven \/ RecoverWaits \/ ReconnectFailed
           \/ \E m \in Mac : DrivePassesOver(m) \/ SendNothing(m)
           \/ \E found \in Pairing : Reconnected(found)
    BY <1>1, <1>6
    DEF vars, Host, SetPercent, Clear, Push, Stop, Judge, Driven, RecoverWaits, ReconnectFailed,
        DrivePassesOver, SendNothing, Reconnected, trackerVars, loopVars
<1>7. CASE \/ Drain \/ Apply \/ AllApplied \/ HeartbeatSent \/ HeartbeatNotSent \/ PollFailed
           \/ Publish \/ GoOn \/ Halt \/ LastPublish
           \/ \E reply \in Replies : PollAnswered(reply)
           \/ \E time \in Lapses \union {0} : Pause(time)
           \/ \E m \in Mac : LastSend(m) \/ NoLastSend(m)
    BY <1>2, <1>7
    DEF Drain, Apply, AllApplied, HeartbeatSent, HeartbeatNotSent, PollFailed, Publish, PublishTo, GoOn, Halt,
        LastPublish, PollAnswered, Pause, LastSend, NoLastSend
<1> QED
    BY <1>3, <1>4, <1>5, <1>6, <1>7 DEF EngineNext, Worker, Tick

\* The snapshot taken then lists no group twice and leaves none out.
LEMMA ListingStep == EngineTypeOK /\ SweptInv /\ GroupsAreListedOnce /\ [EngineNext]_vars => GroupsAreListedOnce'
<1> SUFFICES ASSUME EngineTypeOK, SweptInv, GroupsAreListedOnce, [EngineNext]_vars PROVE GroupsAreListedOnce'
    OBVIOUS
<1>1. CASE UNCHANGED snapshot /\ pc # "done" /\ pc' # "pause"
    BY <1>1 DEF GroupsAreListedOnce
<1>2. CASE UNCHANGED <<pc, snapshot, groups>>
    BY <1>2 DEF GroupsAreListedOnce, Bound, HasFans
<1>3. CASE Publish
    <2>1. snapshot'.groups = Published
        BY <1>3 DEF Publish, PublishTo
    <2>2. \A m \in Fans : Online(groups[m])
        BY <1>3 DEF Publish, SweptInv, Fans
    <2>3. ASSUME NEW d \in Published, NEW e \in Published, d.mac = e.mac PROVE d = e
        <3>1. \A x \in Published : \E m : \/ Online(groups[m]) /\ x = Described(m, TRUE)
                                          \/ ~Online(groups[m]) /\ x = Described(m, FALSE)
            BY <2>2 DEF Published
        <3>2. \A m, online : Described(m, online).mac = m
            BY DEF Described
        <3>3. PICK m : \/ Online(groups[m]) /\ d = Described(m, TRUE)
                       \/ ~Online(groups[m]) /\ d = Described(m, FALSE)
            BY <3>1
        <3>4. PICK k : \/ Online(groups[k]) /\ e = Described(k, TRUE)
                       \/ ~Online(groups[k]) /\ e = Described(k, FALSE)
            BY <3>1
        <3>5. d.mac = m /\ e.mac = k
            BY <3>2, <3>3, <3>4
        <3> QED
            BY <2>3, <3>3, <3>4, <3>5
    <2>4. {e.mac : e \in Published} = {m \in DOMAIN groups : Bound(groups[m]) /\ HasFans(groups[m])}
        <3>1. \A m, online : Described(m, online).mac = m
            BY DEF Described
        <3>2. \A m : m \in Listed <=> m \in DOMAIN groups /\ Online(groups[m])
            BY <1>3 DEF Publish, SweptInv
        <3>3. \A m : m \in Fans <=> m \in Listed /\ Bound(groups[m]) /\ HasFans(groups[m])
            BY DEF Fans
        <3>4. ASSUME NEW e \in Published PROVE e.mac \in DOMAIN groups /\ Bound(groups[e.mac]) /\ HasFans(groups[e.mac])
            <4>1. PICK m, online : /\ e = Described(m, online)
                                   /\ m \in DOMAIN groups /\ Bound(groups[m]) /\ HasFans(groups[m])
                BY <3>2, <3>3 DEF Published
            <4>2. e.mac = m
                BY <3>1, <4>1
            <4> QED
                BY <4>1, <4>2
        <3>5. ASSUME NEW m \in DOMAIN groups, Bound(groups[m]), HasFans(groups[m])
              PROVE  \E e \in Published : e.mac = m
            <4>1. CASE Online(groups[m])
                BY <3>1, <3>2, <3>3, <3>5, <4>1 DEF Published
            <4>2. CASE ~Online(groups[m])
                BY <3>1, <3>5, <4>2 DEF Published
            <4> QED
                BY <4>1, <4>2
        <3> QED
            BY <3>4, <3>5
    <2>5. groups' = groups
        BY <1>3 DEF Publish, PublishTo, trackerVars
    <2> QED
        BY <2>1, <2>3, <2>4, <2>5 DEF GroupsAreListedOnce, Bound, HasFans
<1>4. CASE LastPublish
    BY <1>4 DEF LastPublish, PublishTo, GroupsAreListedOnce
<1>5. CASE Host
    BY <1>2, <1>5 DEF Host, SetPercent, Clear, Push, Stop, loopVars, trackerVars
<1>6. CASE Worker /\ ~Publish /\ ~LastPublish
    <2>1. pc # "done" /\ pc' # "pause" /\ UNCHANGED snapshot
        BY <1>6
        DEF Worker, Tick, Drain, Apply, AllApplied, HeartbeatSent, HeartbeatNotSent, PollAnswered, PollFailed,
            SweepGroups, Judge, DrivePassesOver, DriveTarget, SendDue, SendNothing, Driven, RecoverWaits,
            ReconnectFailed, Reconnected, Pause, GoOn, Halt, LastSend, NoLastSend
    <2> QED
        BY <1>1, <2>1
<1> QED
    BY <1>2, <1>3, <1>4, <1>5, <1>6 DEF EngineNext, vars

\* engine.rs:583-620: while the loop runs a snapshot describes no group twice,
\* and what a tick publishes leaves none out.
THEOREM ListedOnceCorrect == EngineSpec => []GroupsAreListedOnce
<1>1. EngineInit => SweptInv /\ GroupsAreListedOnce
    BY DEF EngineInit, SweptInv, GroupsAreListedOnce
<1> QED
    BY <1>1, SweptIsKept, ListingStep, EngineTypeCorrect, PTL DEF EngineSpec

-----------------------------------------------------------------------------
(* The engine with its history.                                            *)

\* Steps with history are steps of the engine.
LEMMA HistorySteps == [HNext]_hvars => [EngineNext]_vars
<1> SUFFICES ASSUME HNext PROVE EngineNext
    BY DEF hvars
<1>1. CASE \E m \in Mac : HPush(m)
    BY <1>1 DEF HPush, EngineNext, Host
<1>2. CASE HApply \/ HHeartbeat
    BY <1>2 DEF HApply, HHeartbeat, EngineNext, Worker, Tick
<1>3. CASE \E m \in Mac : HDriveTarget(m) \/ HSendNothing(m)
    BY <1>3 DEF HDriveTarget, HSendNothing, EngineNext, Worker, Tick
<1>4. CASE (\E found \in Pairing : HReconnected(found)) \/ HReconnectFailed
    BY <1>4 DEF HReconnected, HReconnectFailed, EngineNext, Worker, Tick
<1>5. CASE \E time \in Lapses \union {0} : HPause(time)
    BY <1>5 DEF HPause, EngineNext, Worker
<1>6. CASE \/ Stop \/ Drain \/ AllApplied \/ HeartbeatNotSent
           \/ \E reply \in Replies : PollAnswered(reply)
           \/ PollFailed \/ SweepGroups \/ Judge
           \/ \E m \in Mac : DrivePassesOver(m) \/ SendDue(m)
           \/ Driven \/ RecoverWaits \/ Publish
           \/ GoOn \/ Halt
           \/ \E m \in Mac : LastSend(m) \/ NoLastSend(m)
           \/ LastPublish
    BY <1>6 DEF EngineNext, Host, Worker, Tick
<1> QED
    BY <1>1, <1>2, <1>3, <1>4, <1>5, <1>6 DEF HNext

\* So whatever holds of the engine holds with its history.
LEMMA HistoryRefines == HSpec => EngineSpec
<1>1. HInit => EngineInit
    BY DEF HInit
<1> QED
    BY <1>1, HistorySteps, PTL DEF HSpec, EngineSpec

-----------------------------------------------------------------------------
(* Heartbeats.                                                             *)

\* How many heartbeats and how many first forms have gone out agree with the
\* form the next one has.
GreetingInv ==
    /\ greeting \in [any: 0 .. 2, first: 0 .. 2]
    /\ FirstFormOnce

\* Every step keeps that.
LEMMA GreetingIsKept == EngineTypeOK /\ GreetingInv /\ [HNext]_hvars => GreetingInv'
<1> SUFFICES ASSUME EngineTypeOK, GreetingInv, [HNext]_hvars PROVE GreetingInv'
    OBVIOUS
<1>1. ASSUME UNCHANGED greeting, beat'.formed = beat.formed PROVE GreetingInv'
    BY <1>1 DEF GreetingInv, FirstFormOnce
<1>2. CASE HHeartbeat
    <2>1. beat'.formed = TRUE
        BY <1>2 DEF HHeartbeat, HeartbeatSent
    <2>2. greeting' = [any   |-> CapAt(greeting.any + 1, 2),
                       first |-> IF beat.formed THEN greeting.first ELSE CapAt(greeting.first + 1, 2)]
        BY <1>2 DEF HHeartbeat
    <2>3. greeting.any \in 0 .. 2 /\ greeting.first = CapAt(greeting.any, 1) /\ (beat.formed <=> greeting.any > 0)
        BY DEF GreetingInv, FirstFormOnce
    <2>4. CASE beat.formed
        <3>1. greeting'.any = CapAt(greeting.any + 1, 2) /\ greeting'.first = greeting.first
            BY <2>2, <2>4
        <3>2. greeting.any > 0
            BY <2>3, <2>4
        <3>3. /\ greeting'.any \in 1 .. 2 /\ greeting'.first = 1
            BY <2>3, <3>1, <3>2 DEF CapAt
        <3>4. greeting' \in [any: 0 .. 2, first: 0 .. 2] /\ greeting'.first = CapAt(greeting'.any, 1) /\ greeting'.any > 0
            BY <2>2, <3>3 DEF CapAt
        <3> QED
            BY <2>1, <3>4 DEF GreetingInv, FirstFormOnce
    <2>5. CASE ~beat.formed
        <3>1. greeting'.any = CapAt(greeting.any + 1, 2) /\ greeting'.first = CapAt(greeting.first + 1, 2)
            BY <2>2, <2>5
        <3>2. greeting.any = 0
            BY <2>3, <2>5
        <3>3. greeting'.any = 1 /\ greeting'.first = 1
            BY <2>3, <3>1, <3>2 DEF CapAt
        <3>4. greeting' \in [any: 0 .. 2, first: 0 .. 2] /\ greeting'.first = CapAt(greeting'.any, 1) /\ greeting'.any > 0
            BY <2>2, <3>3 DEF CapAt
        <3> QED
            BY <2>1, <3>4 DEF GreetingInv, FirstFormOnce
    <2> QED
        BY <2>4, <2>5
<1>3. ASSUME NEW found \in Pairing, HReconnected(found) PROVE GreetingInv'
    BY <1>3 DEF HReconnected, Reconnected, GreetingInv, FirstFormOnce, CapAt
<1>4. ASSUME NEW time \in Lapses \union {0}, HPause(time) PROVE GreetingInv'
    BY <1>1, <1>4 DEF HPause, Pause, EngineTypeOK
<1>5. CASE HNext /\ ~HHeartbeat /\ ~(\E found \in Pairing : HReconnected(found))
               /\ ~(\E time \in Lapses \union {0} : HPause(time))
    <2>1. UNCHANGED greeting /\ UNCHANGED beat
        BY <1>5
        DEF HNext, HPush, SetPercent, Clear, Push, HApply, Apply, HDriveTarget, DriveTarget, HSendNothing,
            SendNothing, HReconnectFailed, ReconnectFailed, Stop, Drain, AllApplied, HeartbeatNotSent,
            PollAnswered, PollFailed, SweepGroups, Judge, DrivePassesOver, SendDue, Driven, RecoverWaits,
            Publish, PublishTo, GoOn, Halt, LastSend, NoLastSend, LastPublish, historyVars, coreVars
    <2> QED
        BY <1>1, <2>1
<1>6. CASE UNCHANGED hvars
    BY <1>1, <1>6 DEF hvars, vars, historyVars
<1> QED
    BY <1>2, <1>3, <1>4, <1>5, <1>6

\* engine.rs:258-274, 385-397; heartbeat.rs:78-90: on each connection the first
\* heartbeat that goes out is of the first form and no later one is.
THEOREM FirstFormCorrect == HSpec => []FirstFormOnce
<1>1. HInit => GreetingInv
    BY DEF HInit, EngineInit, GreetingInv, FirstFormOnce, CapAt
<1>2. GreetingInv => FirstFormOnce
    BY DEF GreetingInv
<1> QED
    BY <1>1, <1>2, GreetingIsKept, HistoryRefines, EngineTypeCorrect, PTL DEF HSpec

-----------------------------------------------------------------------------
(* Targets.                                                                *)

\* Every step leaves targets only to devices that are asked for or forced.
LEMMA ReasonsAreKept == EngineTypeOK /\ TargetsHaveReasons /\ [HNext]_hvars => TargetsHaveReasons'
<1> SUFFICES ASSUME EngineTypeOK, TargetsHaveReasons, [HNext]_hvars PROVE TargetsHaveReasons'
    OBVIOUS
<1>0. TypeOK /\ \A m \in DOMAIN groups : groups[m] \in Group
    BY DEF EngineTypeOK, TypeOK
<1>1. ASSUME DOMAIN wanted \subseteq DOMAIN wanted', forced \subseteq forced',
             \A m \in DOMAIN groups' : groups'[m].target # None =>
                 m \in DOMAIN groups /\ groups'[m].target = groups[m].target
      PROVE  TargetsHaveReasons'
    BY <1>1 DEF TargetsHaveReasons
<1>2. ASSUME UNCHANGED groups, DOMAIN wanted \subseteq DOMAIN wanted', UNCHANGED forced
      PROVE  TargetsHaveReasons'
    BY <1>2 DEF TargetsHaveReasons
<1>3. CASE HApply
    <2>1. Head(taken) \in Request
        BY <1>3 DEF HApply, Apply, EngineTypeOK
    <2>2. CASE Head(taken).kind = "want"
        <3>1. ASSUME NEW m, NEW percent, Want(m, percent) PROVE UNCHANGED groups /\ DOMAIN wanted \subseteq DOMAIN wanted'
            BY <3>1 DEF Want, trackerVars
        <3>2. UNCHANGED groups /\ DOMAIN wanted \subseteq DOMAIN wanted'
            BY <1>3, <2>2, <3>1 DEF HApply, Apply
        <3>3. UNCHANGED forced
            BY <1>3, <2>2 DEF HApply
        <3> QED
            BY <1>2, <3>2, <3>3
    <2>3. CASE Head(taken).kind = "release"
        <3> DEFINE m == Head(taken).mac
        <3>1. Release(m) /\ forced' = forced \ {m}
            BY <1>3, <2>3 DEF HApply, Apply
        <3>2. \A k \in DOMAIN groups' : groups'[k].target # None =>
                  k # m /\ k \in DOMAIN groups /\ groups'[k].target = groups[k].target
            BY <1>0, <3>1 DEF Release, ClearTarget, Group
        <3>3. \A k \in DOMAIN wanted : k # m => k \in DOMAIN wanted'
            BY <3>1 DEF Release
        <3> QED
            BY <3>1, <3>2, <3>3 DEF TargetsHaveReasons
    <2> QED
        BY <2>1, <2>2, <2>3 DEF Request
<1>4. ASSUME NEW m \in Mac, HDriveTarget(m) PROVE TargetsHaveReasons'
    <2>1. DriveTarget(m) /\ UNCHANGED wanted /\ forced \subseteq forced'
        BY <1>4 DEF HDriveTarget, DriveTarget, coreVars
    <2>2. m \in DOMAIN wanted \/ m \in forced'
        BY <1>4 DEF HDriveTarget, DriveTarget
    <2>3. /\ DOMAIN groups' = DOMAIN groups
          /\ \A k \in DOMAIN groups : k # m => groups'[k].target = groups[k].target
        BY <1>0, <2>1, OneTarget DEF DriveTarget
    <2> QED
        BY <2>1, <2>2, <2>3 DEF TargetsHaveReasons
<1>5. ASSUME NEW reply \in Replies, PollAnswered(reply), UNCHANGED forced PROVE TargetsHaveReasons'
    BY <1>0, <1>1, <1>5, NoNewTargets DEF PollAnswered
<1>6. CASE SweepGroups /\ UNCHANGED forced
    BY <1>0, <1>1, <1>6, NoNewTargets DEF SweepGroups, coreVars
<1>7. ASSUME NEW m \in Mac, SendDue(m) \/ LastSend(m), UNCHANGED forced PROVE TargetsHaveReasons'
    BY <1>0, <1>1, <1>7, NoNewTargets DEF SendDue, LastSend, Transmit, coreVars
<1>8. ASSUME NEW time \in Lapses \union {0}, HPause(time) PROVE TargetsHaveReasons'
    BY <1>0, <1>1, <1>8, NoNewTargets DEF HPause, Pause
<1>9. CASE UNCHANGED hvars
    BY <1>2, <1>9 DEF hvars, vars, trackerVars, coreVars, historyVars
<1>10. ASSUME NEW m \in Mac, HPush(m), UNCHANGED forced PROVE TargetsHaveReasons'
    BY <1>2, <1>10 DEF HPush, SetPercent, Clear, Push, trackerVars, coreVars
<1>11. CASE HHeartbeat \/ HReconnectFailed \/ (\E m \in Mac : HSendNothing(m))
            \/ (\E found \in Pairing : HReconnected(found))
    BY <1>2, <1>11
    DEF HHeartbeat, HeartbeatSent, HReconnectFailed, ReconnectFailed, HSendNothing, SendNothing,
        HReconnected, Reconnected, trackerVars, coreVars
<1>12. CASE /\ \/ Stop \/ Drain \/ AllApplied \/ HeartbeatNotSent \/ PollFailed \/ Judge
               \/ \E m \in Mac : DrivePassesOver(m)
               \/ Driven \/ RecoverWaits \/ Publish \/ GoOn \/ Halt
               \/ \E m \in Mac : NoLastSend(m)
               \/ LastPublish
            /\ UNCHANGED historyVars
    BY <1>2, <1>12
    DEF Stop, Drain, AllApplied, HeartbeatNotSent, PollFailed, Judge, DrivePassesOver, Driven, RecoverWaits,
        Publish, PublishTo, GoOn, Halt, NoLastSend, LastPublish, trackerVars, coreVars, historyVars
<1> QED
    BY <1>3, <1>4, <1>5, <1>6, <1>7, <1>8, <1>9, <1>10, <1>11, <1>12 DEF HNext, historyVars

\* engine.rs:223-232, 473-508: a group has a target only because it is asked
\* for or because the failsafe gave it one since it was last released.
THEOREM ReasonsCorrect == HSpec => []TargetsHaveReasons
<1>1. HInit => TargetsHaveReasons
    BY DEF HInit, EngineInit, Init, TargetsHaveReasons
<1> QED
    BY <1>1, ReasonsAreKept, HistoryRefines, EngineTypeCorrect, PTL DEF HSpec

-----------------------------------------------------------------------------
(* Requests.                                                               *)

About(w, m) == {i \in 1 .. Len(w) : w[i].mac = m}
SaidBy(request) == IF request.kind = "want" THEN Clamped(request.percent) ELSE None

\* The requests w, on top of what is wanted now, come to what was said last.
Heeds(w, m, said, want) ==
    IF About(w, m) = {} THEN said = want
    ELSE \E i \in About(w, m) : (\A j \in About(w, m) : j <= i) /\ said = SaidBy(w[i])

\* One request more.
LEMMA OneMore ==
    ASSUME NEW w \in Seq(Request), NEW request \in Request, NEW m, NEW said, NEW want,
           Heeds(w, m, said, want)
    PROVE  Heeds(Append(w, request), m, IF request.mac = m THEN SaidBy(request) ELSE said, want)
<1> DEFINE more == Append(w, request)
<1>0. Len(w) \in Nat
    OBVIOUS
<1>1. Len(more) = Len(w) + 1 /\ more[Len(w) + 1] = request /\ \A i \in 1 .. Len(w) : more[i] = w[i]
    OBVIOUS
<1> HIDE DEF more
<1>2. CASE request.mac = m
    <2>1. Len(w) + 1 \in About(more, m) /\ \A j \in About(more, m) : j <= Len(w) + 1
        BY <1>0, <1>1, <1>2 DEF About
    <2> QED
        BY <1>1, <1>2, <2>1 DEF Heeds, more
<1>3. CASE request.mac # m
    <2>1. About(more, m) = About(w, m)
        BY <1>0, <1>1, <1>3 DEF About
    <2>2. \A i \in About(w, m) : more[i] = w[i]
        BY <1>1 DEF About
    <2> QED
        BY <1>3, <2>1, <2>2 DEF Heeds, more
<1> QED
    BY <1>2, <1>3

\* The first request applied.
LEMMA OneLess ==
    ASSUME NEW w \in Seq(Request), w # <<>>, NEW m, NEW said, NEW want,
           Heeds(w, m, said, want)
    PROVE  Heeds(Tail(w), m, said, IF Head(w).mac = m THEN SaidBy(Head(w)) ELSE want)
<1> DEFINE rest == Tail(w)
<1>0. Len(w) \in Nat /\ Len(w) > 0
    OBVIOUS
<1>1. Len(rest) = Len(w) - 1 /\ Head(w) = w[1] /\ \A i \in 1 .. Len(w) - 1 : rest[i] = w[i + 1]
    OBVIOUS
<1> HIDE DEF rest
<1>2. \A i \in Int : i \in About(rest, m) <=> i >= 1 /\ i + 1 \in About(w, m)
    BY <1>0, <1>1 DEF About
<1>3. About(w, m) \subseteq Int /\ About(rest, m) \subseteq Int /\ \A i \in About(w, m) : i >= 1
    BY DEF About
<1>4. 1 \in About(w, m) <=> Head(w).mac = m
    BY <1>0, <1>1 DEF About
<1>5. CASE About(rest, m) = {}
    <2>1. ASSUME NEW i \in About(w, m) PROVE i = 1
        <3>1. i \in Int /\ i >= 1 /\ i - 1 \in Int /\ (i - 1) + 1 = i
            BY <1>3
        <3>2. ~(i - 1 >= 1)
            BY <1>2, <1>5, <3>1
        <3> QED
            BY <3>1, <3>2
    <2>2. CASE Head(w).mac = m
        <3>1. PICK i \in About(w, m) : said = SaidBy(w[i])
            BY <1>4, <2>2 DEF Heeds
        <3> QED
            BY <1>1, <1>5, <2>1, <2>2, <3>1 DEF Heeds, rest
    <2>3. CASE Head(w).mac # m
        <3>1. About(w, m) = {}
            BY <1>4, <2>1, <2>3
        <3> QED
            BY <1>5, <2>3, <3>1 DEF Heeds, rest
    <2> QED
        BY <2>2, <2>3
<1>6. CASE About(rest, m) # {}
    <2>1. PICK k \in About(rest, m) : TRUE
        BY <1>6
    <2>2. k + 1 \in About(w, m) /\ k >= 1
        BY <1>2, <1>3, <2>1
    <2>3. PICK i \in About(w, m) : (\A j \in About(w, m) : j <= i) /\ said = SaidBy(w[i])
        BY <2>2 DEF Heeds
    <2>4. i \in Int /\ i - 1 >= 1
        BY <1>3, <2>1, <2>2, <2>3
    <2>5. i - 1 \in About(rest, m)
        BY <1>2, <2>3, <2>4
    <2>6. \A j \in About(rest, m) : j <= i - 1
        BY <1>2, <1>3, <2>3, <2>4
    <2>7. i - 1 \in 1 .. Len(w) - 1 /\ rest[i - 1] = w[i]
        BY <1>0, <1>1, <2>3, <2>4, <2>5 DEF About
    <2>8. \E last \in About(rest, m) : (\A j \in About(rest, m) : j <= last) /\ said = SaidBy(rest[last])
        BY <2>3, <2>5, <2>6, <2>7
    <2> QED
        BY <1>6, <2>8 DEF Heeds, rest
<1> QED
    BY <1>5, <1>6

\* Requests taken from the list are all applied before the loop goes on, and
\* nothing said is out of step with what is waiting and wanted.
Wish(m) == IF m \in DOMAIN wanted THEN wanted[m] ELSE None
LastSaid(m) == IF asked[m] = None THEN None ELSE Clamped(asked[m])

RequestInv ==
    /\ pc # "apply" => taken = <<>>
    /\ asked \in [Mac -> Asked \union {None}]
    /\ \A m \in Mac : Heeds(taken \o requests, m, LastSaid(m), Wish(m))

\* Every step keeps that.
LEMMA RequestsAreKept == EngineTypeOK /\ RequestInv /\ [HNext]_hvars => RequestInv'
<1> SUFFICES ASSUME EngineTypeOK, RequestInv, [HNext]_hvars PROVE RequestInv'
    OBVIOUS
<1>0. taken \in Seq(Request) /\ requests \in Seq(Request) /\ taken \o requests \in Seq(Request)
    BY DEF EngineTypeOK
<1>1. ASSUME UNCHANGED <<taken, requests, wanted, asked>>, pc' = "apply" => pc = "apply" \/ taken = <<>>,
             pc = "apply" /\ pc' # "apply" => taken = <<>>
      PROVE  RequestInv'
    BY <1>1 DEF RequestInv, LastSaid, Wish
<1>2. ASSUME NEW request \in Request, Push(request), asked' = [asked EXCEPT ![request.mac] =
                 IF request.kind = "want" THEN request.percent ELSE None]
      PROVE  RequestInv'
    <2>1. /\ requests' = Append(requests, request)
          /\ UNCHANGED <<taken, pc, wanted>>
        BY <1>2 DEF Push, loopVars, coreVars
    <2>2. taken' \o requests' = Append(taken \o requests, request)
        BY <1>0, <2>1
    <2>3. request.mac \in Mac /\ (request.kind = "want" => request.percent \in Asked /\ request.percent # None)
        <3>1. \A percent \in Asked : percent # None
            BY PercentAssumption, NoneAssumption
        <3>2. CASE request \in [kind: {"want"}, mac: Mac, percent: Asked]
            BY <3>1, <3>2
        <3>3. CASE request \in [kind: {"release"}, mac: Mac]
            BY <3>3
        <3> QED
            BY <3>2, <3>3 DEF Request
    <2>4. asked' \in [Mac -> Asked \union {None}]
        BY <1>2, <2>3 DEF RequestInv
    <2>5. ASSUME NEW m \in Mac PROVE Heeds(taken' \o requests', m, LastSaid(m)', Wish(m)')
        <3>1. Heeds(Append(taken \o requests, request), m,
                    IF request.mac = m THEN SaidBy(request) ELSE LastSaid(m), Wish(m))
            BY <1>0, OneMore DEF RequestInv
        <3>2. LastSaid(m)' = IF request.mac = m THEN SaidBy(request) ELSE LastSaid(m)
            BY <1>2, <2>3 DEF LastSaid, SaidBy, RequestInv
        <3>3. Wish(m)' = Wish(m)
            BY <2>1 DEF Wish
        <3> QED
            BY <2>2, <3>1, <3>2, <3>3
    <2> QED
        BY <2>1, <2>4, <2>5 DEF RequestInv
<1>3. ASSUME NEW m \in Mac, HPush(m) PROVE RequestInv'
    <2>1. ASSUME NEW percent \in Asked, SetPercent(m, percent), asked' = [asked EXCEPT ![m] = percent]
          PROVE  RequestInv'
        <3> DEFINE request == [kind |-> "want", mac |-> m, percent |-> percent]
        <3>1. request \in Request
            BY DEF Request
        <3> QED
            BY <1>2, <2>1, <3>1 DEF SetPercent
    <2>2. ASSUME Clear(m), asked' = [asked EXCEPT ![m] = None] PROVE RequestInv'
        <3> DEFINE request == [kind |-> "release", mac |-> m]
        <3>1. request \in Request
            BY DEF Request
        <3> QED
            BY <1>2, <2>2, <3>1 DEF Clear
    <2> QED
        BY <1>3, <2>1, <2>2 DEF HPush
<1>4. CASE Drain /\ UNCHANGED historyVars
    <2>1. taken = <<>> /\ taken' = requests /\ requests' = <<>> /\ pc' = "apply" /\ UNCHANGED <<wanted, asked>>
        BY <1>4 DEF Drain, RequestInv, coreVars, historyVars
    <2>2. taken' \o requests' = taken \o requests
        BY <1>0, <2>1
    <2> QED
        BY <2>1, <2>2 DEF RequestInv, LastSaid, Wish
<1>5. CASE HApply
    <2> DEFINE request == Head(taken)
    <2>1. taken # <<>> /\ taken' = Tail(taken) /\ pc = "apply" /\ UNCHANGED <<pc, requests, asked>>
        BY <1>5 DEF HApply, Apply, hostVars
    <2>2. request \in Request /\ request.mac \in Mac
        BY <1>0, <2>1 DEF Request
    <2>3. /\ taken \o requests # <<>> /\ Head(taken \o requests) = request
          /\ taken' \o requests' = Tail(taken \o requests)
        BY <1>0, <2>1
    <2>4. ASSUME NEW m \in Mac PROVE Wish(m)' = IF request.mac = m THEN SaidBy(request) ELSE Wish(m)
        <3>1. CASE request.kind = "want"
            <4>1. Want(request.mac, request.percent)
                BY <1>5, <3>1 DEF HApply, Apply
            <4> QED
                BY <3>1, <4>1 DEF Want, Wish, SaidBy
        <3>2. CASE request.kind = "release"
            <4>1. Release(request.mac)
                BY <1>5, <3>2 DEF HApply, Apply
            <4> QED
                BY <3>2, <4>1 DEF Release, Wish, SaidBy
        <3> QED
            BY <2>2, <3>1, <3>2 DEF Request
    <2>5. ASSUME NEW m \in Mac PROVE Heeds(taken' \o requests', m, LastSaid(m)', Wish(m)')
        <3>1. Heeds(Tail(taken \o requests), m, LastSaid(m), IF request.mac = m THEN SaidBy(request) ELSE Wish(m))
            BY <1>0, <2>3, OneLess DEF RequestInv
        <3>2. LastSaid(m)' = LastSaid(m)
            BY <2>1 DEF LastSaid
        <3> QED
            BY <2>3, <2>4, <3>1, <3>2
    <2> QED
        BY <2>1, <2>5 DEF RequestInv
<1>6. CASE UNCHANGED hvars
    BY <1>1, <1>6 DEF hvars, vars, historyVars
<1>7. CASE HHeartbeat \/ HReconnectFailed \/ (\E m \in Mac : HDriveTarget(m) \/ HSendNothing(m))
            \/ (\E found \in Pairing : HReconnected(found))
            \/ (\E time \in Lapses \union {0} : HPause(time))
    BY <1>1, <1>7
    DEF HHeartbeat, HeartbeatSent, HReconnectFailed, ReconnectFailed, HDriveTarget, DriveTarget, HSendNothing,
        SendNothing, HReconnected, Reconnected, HPause, Pause, coreVars, hostVars
<1>8. CASE /\ \/ Stop \/ AllApplied \/ HeartbeatNotSent
              \/ \E reply \in Replies : PollAnswered(reply)
              \/ PollFailed \/ SweepGroups \/ Judge
              \/ \E m \in Mac : DrivePassesOver(m) \/ SendDue(m)
              \/ Driven \/ RecoverWaits \/ Publish
              \/ GoOn \/ Halt
              \/ \E m \in Mac : LastSend(m) \/ NoLastSend(m)
              \/ LastPublish
           /\ UNCHANGED historyVars
    BY <1>1, <1>8
    DEF Stop, AllApplied, HeartbeatNotSent, PollAnswered, PollFailed, SweepGroups, Judge, DrivePassesOver,
        SendDue, Driven, RecoverWaits, Publish, PublishTo, GoOn, Halt, LastSend, NoLastSend, LastPublish,
        loopVars, coreVars, hostVars, historyVars
<1> QED
    BY <1>3, <1>4, <1>5, <1>6, <1>7, <1>8 DEF HNext, historyVars

\* engine.rs:216-232, 706-721, 782-791: requests are applied in the order they
\* were made, none twice and none dropped: what Core wants for a device,
\* with the requests still waiting on top, is what the host asked last.
THEOREM RequestsCorrect == HSpec => []LastRequestCounts
<1>1. HInit => RequestInv
    BY DEF HInit, EngineInit, RequestInv, LastSaid, Wish, Heeds, About
<1>2. RequestInv => LastRequestCounts
    BY DEF RequestInv, LastRequestCounts, LastSaid, Wish, Heeds, About, SaidBy
<1> QED
    BY <1>1, <1>2, RequestsAreKept, HistoryRefines, EngineTypeCorrect, PTL DEF HSpec

-----------------------------------------------------------------------------
(* What was done before the handles are given up.                          *)

\* A target that counts as sent is what the transmitter was last given.
SentIsOut ==
    \A m \in DOMAIN groups : groups[m].age # None => radio[m] = groups[m].target

Closed(m) ==
    /\ m \in DOMAIN groups
    /\ groups[m].target = FullSpeed(m)
    /\ radio[m] = FullSpeed(m) \/ m \in refused

\* With the failsafe in force the drive leaves full speed behind it.
ClosingInv ==
    /\ SentIsOut
    /\ alarm =>
        /\ pc = "send" => groups[FirstOf(todo)].target = FullSpeed(FirstOf(todo))
        /\ pc \in {"drive", "send"} => \A m \in Fans \ todo : Closed(m)
        /\ pc = "recover" => \A m \in Fans : Closed(m)

\* Only Sent makes a target count as sent.
LEMMA NoNewSends ==
    ASSUME TypeOK,
           \/ \E reply \in Replies : Observe(reply)
           \/ Sweep
           \/ \E m : ClearTarget(m)
           \/ \E m, percent : SetTarget(m, percent)
           \/ \E time : Elapse(time)
    PROVE  \A m \in DOMAIN groups' : groups'[m].age # None =>
               m \in DOMAIN groups /\ groups[m].age # None /\ groups'[m].target = groups[m].target
<1>0. \A m \in DOMAIN groups : groups[m] \in Group
    BY DEF TypeOK
<1>1. ASSUME NEW reply \in Replies, Observe(reply), NEW m \in DOMAIN groups', groups'[m].age # None
      PROVE  m \in DOMAIN groups /\ groups[m].age # None /\ groups'[m].target = groups[m].target
    <2>1. CASE m \notin DOMAIN reply
        BY <1>1, <2>1 DEF Observe
    <2>2. CASE m \in DOMAIN reply /\ m \in DOMAIN groups
        <3>1. groups'[m] = TakeSighting(groups[m], reply[m])
            BY <1>1, <2>2 DEF Observe
        <3> QED
            BY <1>0, <1>1, <2>2, <3>1 DEF TakeSighting, Group
    <2>3. CASE m \in DOMAIN reply /\ m \notin DOMAIN groups
        <3>1. groups'[m] = NewGroup(reply[m])
            BY <1>1, <2>3 DEF Observe
        <3> QED
            BY <1>1, <3>1 DEF NewGroup
    <2> QED
        BY <2>1, <2>2, <2>3
<1>2. CASE Sweep
    BY <1>2 DEF Sweep
<1>3. ASSUME NEW m, ClearTarget(m) PROVE
        \A k \in DOMAIN groups' : groups'[k].age # None =>
            k \in DOMAIN groups /\ groups[k].age # None /\ groups'[k].target = groups[k].target
    BY <1>0, <1>3 DEF ClearTarget, Group
<1>4. ASSUME NEW m, NEW percent, SetTarget(m, percent) PROVE
        \A k \in DOMAIN groups' : groups'[k].age # None =>
            k \in DOMAIN groups /\ groups[k].age # None /\ groups'[k].target = groups[k].target
    BY <1>0, <1>4 DEF SetTarget, Group
<1>5. ASSUME NEW time, Elapse(time) PROVE
        \A k \in DOMAIN groups' : k \in DOMAIN groups /\ groups'[k].target = groups[k].target /\
            (groups'[k].age # None => groups[k].age # None)
    BY <1>0, <1>5 DEF Elapse, Older, Group
<1> QED
    BY <1>1, <1>2, <1>3, <1>4, <1>5

\* Every step keeps SentIsOut.
LEMMA SentIsKept == EngineTypeOK /\ SentIsOut /\ [EngineNext]_vars => SentIsOut'
<1> SUFFICES ASSUME EngineTypeOK, SentIsOut, [EngineNext]_vars PROVE SentIsOut'
    OBVIOUS
<1>0. TypeOK /\ radio \in [Mac -> Duty \union {None}] /\ DOMAIN groups \subseteq Mac /\
      \A m \in DOMAIN groups : groups[m] \in Group
    BY DEF EngineTypeOK, TypeOK
<1>1. ASSUME UNCHANGED radio,
             \A m \in DOMAIN groups' : groups'[m].age # None =>
                m \in DOMAIN groups /\ groups[m].age # None /\ groups'[m].target = groups[m].target
      PROVE  SentIsOut'
    BY <1>1 DEF SentIsOut
<1>2. CASE UNCHANGED <<groups, radio>>
    BY <1>2 DEF SentIsOut
<1>3. ASSUME NEW m \in Mac, Transmit(m) PROVE SentIsOut'
    BY <1>0, <1>3 DEF Transmit, Sent, SentIsOut, Group
<1>4. ASSUME NEW reply \in Replies, PollAnswered(reply) PROVE SentIsOut'
    BY <1>0, <1>1, <1>4, NoNewSends DEF PollAnswered, linkVars
<1>5. CASE SweepGroups
    BY <1>0, <1>1, <1>5, NoNewSends DEF SweepGroups, linkVars
<1>6. CASE Apply
    <2>1. CASE UNCHANGED groups
        BY <1>2, <1>6, <2>1 DEF Apply, linkVars
    <2>2. ASSUME NEW m, ClearTarget(m) PROVE SentIsOut'
        BY <1>0, <1>1, <1>6, <2>2, NoNewSends DEF Apply, linkVars
    <2> QED
        BY <1>6, <2>1, <2>2 DEF Apply, Want, Release, trackerVars
<1>7. ASSUME NEW m \in Mac, DriveTarget(m) PROVE SentIsOut'
    BY <1>0, <1>1, <1>7, NoNewSends DEF DriveTarget, linkVars
<1>8. ASSUME NEW time, Pause(time) PROVE SentIsOut'
    BY <1>0, <1>1, <1>8, NoNewSends DEF Pause, linkVars
<1> QED
    BY <1>2, <1>3, <1>4, <1>5, <1>6, <1>7, <1>8
    DEF vars, trackerVars, linkVars, EngineNext, Host, Worker, Tick, SetPercent, Clear, Push, Stop, Drain,
        AllApplied, HeartbeatSent, HeartbeatNotSent, PollFailed, Judge, DrivePassesOver, SendDue,
        SendNothing, Driven, RecoverWaits, ReconnectFailed, Reconnected, Publish,
        PublishTo, GoOn, Halt, LastSend, NoLastSend, LastPublish

\* Steps that change neither targets nor what devices are, nor what was given
\* to the transmitter or refused, leave it settled whom the drive has behind it.
LEMMA SameClosed ==
    ASSUME OnlineAreListed, order' = order, DOMAIN groups' = DOMAIN groups,
           \A m \in DOMAIN groups : /\ groups'[m].target = groups[m].target
                                    /\ groups'[m].idn = groups[m].idn
                                    /\ groups'[m].shp = groups[m].shp,
           radio' = radio, refused \subseteq refused'
    PROVE  Fans' = Fans /\ \A m : Closed(m) => Closed(m)'
<1>1. Fans' = Fans
    BY SameFull
<1>2. ASSUME NEW m, Closed(m) PROVE Closed(m)'
    BY <1>2 DEF Closed, FullSpeed
<1> QED
    BY <1>1, <1>2

\* Every step keeps that.
LEMMA ClosingIsKept == PromiseInv /\ ClosingInv /\ [HNext]_hvars => ClosingInv'
<1> SUFFICES ASSUME PromiseInv, ClosingInv, [HNext]_hvars PROVE ClosingInv'
    OBVIOUS
<1>0. /\ EngineTypeOK /\ TypeOK /\ OnlineAreListed /\ SentIsOut
      /\ DOMAIN groups \subseteq Mac
      /\ \A m \in DOMAIN groups : groups[m] \in Group
    BY DEF PromiseInv, EngineTyped, OrderBase, ClosingInv, TypeOK
<1>a. SentIsOut'
    BY <1>0, HistorySteps, SentIsKept
<1>1. ASSUME UNCHANGED <<pc, todo, alarm, groups, order, radio, refused>> PROVE ClosingInv'
    <2>1. FirstOf(todo)' = FirstOf(todo) /\ Fans' = Fans
        BY <1>1 DEF FirstOf, Fans, Listed
    <2> QED
        BY <1>a, <1>1, <2>1 DEF ClosingInv, Closed, FullSpeed
<1>2. ASSUME pc' \notin {"drive", "send", "recover"} PROVE ClosingInv'
    BY <1>a, <1>2 DEF ClosingInv
<1>3. CASE Judge
    <2>1. todo' = Fans' /\ pc' = "drive"
        BY <1>3 DEF Judge, Fans, Listed, trackerVars
    <2> QED
        BY <1>a, <2>1 DEF ClosingInv
<1>4. ASSUME NEW m, DrivePassesOver(m) PROVE ClosingInv'
    BY <1>a, <1>4 DEF DrivePassesOver, coreVars, ClosingInv
<1>5. ASSUME NEW m \in Mac, HDriveTarget(m) PROVE ClosingInv'
    <2>1. DriveTarget(m) /\ refused' = refused /\ radio' = radio /\ alarm' = alarm /\ todo' = todo
          /\ pc = "drive" /\ pc' = "send" /\ m = FirstOf(todo)
        BY <1>5 DEF HDriveTarget, DriveTarget, coreVars, linkVars
    <2> SUFFICES ASSUME alarm PROVE ClosingInv'
        BY <1>a, <2>1 DEF ClosingInv
    <2>2. SetTarget(m, FailsafePercent)
        BY <2>1 DEF DriveTarget
    <2>3. FirstOf(todo)' = m
        BY <2>1, <2>2 DEF FirstOf, SetTarget
    <2>4. /\ order' = order /\ DOMAIN groups' = DOMAIN groups /\ m \in DOMAIN groups
          /\ \A k \in DOMAIN groups : groups'[k].idn = groups[k].idn /\ groups'[k].shp = groups[k].shp
          /\ groups'[m].target = FullSpeed(m)
          /\ \A k \in DOMAIN groups : k # m => groups'[k].target = groups[k].target
        <3>1. order' = order /\ \A k \in DOMAIN groups : groups'[k].idn = groups[k].idn /\ groups'[k].shp = groups[k].shp
            BY <1>0, <2>2 DEF SetTarget, Group
        <3>2. m \in DOMAIN groups /\ groups'[m].target = FullSpeed(m)
            BY <1>0, <2>2, OneTarget DEF FullSpeed
        <3> QED
            BY <1>0, <2>2, <3>1, <3>2, OneTarget
    <2>5. \A k \in DOMAIN groups : FullSpeed(k)' = FullSpeed(k)
        BY <2>4 DEF FullSpeed
    <2>6. Fans' = Fans
        BY <1>0, <2>4 DEF OnlineAreListed, Fans, Listed, Bound, HasFans
    <2>7. ASSUME NEW k, Closed(k) PROVE Closed(k)'
        BY <2>1, <2>4, <2>5, <2>7 DEF Closed
    <2>8. \A k \in Fans \ todo : Closed(k)
        BY <2>1 DEF ClosingInv
    <2> HIDE DEF Closed
    <2> QED
        BY <1>a, <2>1, <2>3, <2>4, <2>5, <2>6, <2>7, <2>8 DEF ClosingInv
<1>6. ASSUME NEW m \in Mac, (SendDue(m) /\ UNCHANGED refused) \/ HSendNothing(m) PROVE ClosingInv'
    <2>1. m = FirstOf(todo) /\ todo' = todo \ {m} /\ pc = "send" /\ pc' = "drive" /\ alarm' = alarm
        BY <1>6 DEF SendDue, HSendNothing, SendNothing, coreVars
    <2> SUFFICES ASSUME alarm PROVE ClosingInv'
        BY <1>a, <2>1 DEF ClosingInv
    <2>2. /\ order' = order /\ DOMAIN groups' = DOMAIN groups
          /\ \A k \in DOMAIN groups : /\ groups'[k].target = groups[k].target
                                      /\ groups'[k].idn = groups[k].idn
                                      /\ groups'[k].shp = groups[k].shp
        BY <1>0, <1>6 DEF SendDue, HSendNothing, SendNothing, Transmit, Sent, trackerVars, Group
    <2>3. Fans' = Fans
        BY <1>0, <2>2, SameFull
    <2>4. \A k \in DOMAIN groups : FullSpeed(k)' = FullSpeed(k)
        BY <2>2 DEF FullSpeed
    <2>5. groups[m].target = FullSpeed(m)
        BY <2>1 DEF ClosingInv
    <2>6. CASE SendDue(m) /\ UNCHANGED refused
        <3>1. radio' = [radio EXCEPT ![m] = groups[m].target] /\ m \in DOMAIN groups /\ refused' = refused
            BY <1>6, <2>6 DEF SendDue, Transmit, Sent
        <3>2. radio \in [Mac -> Duty \union {None}]
            BY <1>0 DEF EngineTypeOK
        <3>3. Closed(m)'
            BY <2>2, <2>4, <2>5, <3>1, <3>2 DEF Closed
        <3>4. ASSUME NEW k, k # m, Closed(k) PROVE Closed(k)'
            BY <1>0, <2>2, <2>4, <3>1, <3>2, <3>4 DEF Closed
        <3>5. \A k \in Fans \ todo : Closed(k)
            BY <2>1 DEF ClosingInv
        <3> HIDE DEF Closed
        <3> QED
            BY <1>a, <2>1, <2>3, <3>3, <3>4, <3>5 DEF ClosingInv
    <2>7. CASE HSendNothing(m)
        <3>1. radio' = radio /\ groups' = groups
            BY <2>7 DEF HSendNothing, SendNothing, trackerVars, linkVars
        <3>2. refused' = IF Due(groups[m]) THEN refused \union {m} ELSE refused
            BY <2>7 DEF HSendNothing
        <3>3. m \in Fans => Closed(m)'
            <4> SUFFICES ASSUME m \in Fans PROVE Closed(m)'
                OBVIOUS
            <4>1. m \in DOMAIN groups
                BY <1>0 DEF Fans, OnlineAreListed
            <4>2. CASE Due(groups[m])
                BY <2>4, <2>5, <3>1, <3>2, <4>1, <4>2 DEF Closed
            <4>3. CASE ~Due(groups[m])
                <5>1. groups[m].target # None
                    <6>1. FullSpeed(m) \in Duty
                        BY <1>0, <4>1, DeviceAssumption, PercentAssumption DEF FullSpeed, Group
                    <6> QED
                        BY <2>5, <6>1, NoneAssumption
                <5>2. groups[m].age # None
                    BY <4>3, <5>1 DEF Due
                <5>3. radio[m] = FullSpeed(m)
                    BY <1>0, <2>5, <4>1, <5>2 DEF SentIsOut
                <5> QED
                    BY <2>4, <2>5, <3>1, <4>1, <5>3 DEF Closed
            <4> QED
                BY <4>2, <4>3
        <3>4. ASSUME NEW k, Closed(k) PROVE Closed(k)'
            BY <2>2, <2>4, <3>1, <3>2, <3>4 DEF Closed
        <3>5. \A k \in Fans \ todo : Closed(k)
            BY <2>1 DEF ClosingInv
        <3> HIDE DEF Closed
        <3> QED
            BY <1>a, <2>1, <2>3, <3>3, <3>4, <3>5 DEF ClosingInv
    <2> QED
        BY <1>6, <2>6, <2>7
<1>7. CASE Driven /\ UNCHANGED historyVars
    <2>1. UNCHANGED <<groups, order, alarm, radio, refused>> /\ pc = "drive" /\ todo = {} /\ pc' = "recover"
        BY <1>7 DEF Driven, trackerVars, coreVars, linkVars, historyVars
    <2>2. Fans' = Fans /\ \A k : Closed(k) => Closed(k)'
        BY <1>0, <2>1, SameClosed
    <2>3. alarm => \A k \in Fans : Closed(k)
        BY <2>1 DEF ClosingInv
    <2> HIDE DEF Closed
    <2> QED
        BY <1>a, <2>1, <2>2, <2>3 DEF ClosingInv
<1>8. CASE UNCHANGED hvars \/ (\E m \in Mac : HPush(m) /\ UNCHANGED refused) \/ (Stop /\ UNCHANGED historyVars)
    BY <1>1, <1>8
    DEF hvars, vars, HPush, SetPercent, Clear, Push, Stop, trackerVars, loopVars, coreVars, linkVars, historyVars
<1>9. CASE \/ HApply \/ HHeartbeat \/ HReconnectFailed
           \/ \E found \in Pairing : HReconnected(found)
           \/ \E time \in Lapses \union {0} : HPause(time)
           \/ Drain \/ AllApplied \/ HeartbeatNotSent \/ PollFailed \/ SweepGroups
           \/ \E reply \in Replies : PollAnswered(reply)
           \/ RecoverWaits \/ Publish \/ GoOn \/ Halt
           \/ \E m \in Mac : LastSend(m) \/ NoLastSend(m)
           \/ LastPublish
    BY <1>2, <1>9
    DEF HApply, Apply, HHeartbeat, HeartbeatSent, HReconnectFailed, ReconnectFailed, HReconnected, Reconnected,
        HPause, Pause, Drain, AllApplied, HeartbeatNotSent, PollFailed, SweepGroups, PollAnswered, RecoverWaits,
        Publish, PublishTo, GoOn, Halt, LastSend, NoLastSend, LastPublish
<1> QED
    BY <1>3, <1>4, <1>5, <1>6, <1>7, <1>8, <1>9 DEF HNext, historyVars

\* engine.rs:362-366, 473-508: when the engine gives up handles it still
\* holds, every reachable group bound to the dongle has full speed for its
\* target, and its last command was full speed, unless the dongle refused
\* that very command in this tick.
THEOREM ClosingCorrect == HSpec => FullSpeedBeforeClosing
<1> DEFINE Closing ==
        pc = "recover" /\ open /\ (misses' = 0 \/ ~open') /\ Lost =>
            \A m \in Fans :
                /\ groups[m].target = FullSpeed(m)
                /\ radio[m] = FullSpeed(m) \/ m \in refused
<1>1. HInit => ClosingInv
    BY DEF HInit, EngineInit, Init, ClosingInv, SentIsOut
<1>2. PromiseInv /\ ClosingInv => Closing
    <2> SUFFICES ASSUME PromiseInv, ClosingInv, pc = "recover", Lost, NEW m \in Fans PROVE Closed(m)
        BY DEF Closed
    <2>1. alarm
        BY DEF PromiseInv, FailsafeInv
    <2> QED
        BY <2>1 DEF ClosingInv
<1>3. PromiseInv /\ ClosingInv /\ [HNext]_hvars => [Closing]_hvars
    BY <1>2
<1> QED
    BY <1>1, <1>3, ClosingIsKept, HistoryRefines, PromiseAlways, PTL DEF HSpec, FullSpeedBeforeClosing

-----------------------------------------------------------------------------
(* Retries.                                                                *)

\* The schedule of the Core is what is left of the wait due since the last
\* attempt, and the wait it keeps is the one to follow.
OutageInv ==
    /\ outage \in [wait: 0 .. RetryMax, since: 0 .. RetryMax]
    /\ open <=> outage.wait = 0
    /\ open => outage.since = 0
    /\ ~open =>
          /\ retryWait = CapAt(2 * outage.wait, RetryMax)
          /\ retryIn = IF outage.since < outage.wait THEN outage.wait - outage.since ELSE 0

\* Every step keeps that.
LEMMA OutageIsKept == EngineTypeOK /\ FailsafeInv /\ OutageInv /\ [HNext]_hvars => OutageInv'
<1> SUFFICES ASSUME EngineTypeOK, FailsafeInv, OutageInv, [HNext]_hvars PROVE OutageInv'
    OBVIOUS
<1>0. /\ RetryFirst \in Nat \ {0} /\ RetryMax \in Nat /\ RetryFirst < RetryMax
      /\ outage.wait \in 0 .. RetryMax /\ outage.since \in 0 .. RetryMax
      /\ None \notin Nat
    BY RetryAssumption, WaitsGrow, NoneAssumption DEF OutageInv
<1>1. ASSUME UNCHANGED <<outage, open, retryIn, retryWait>>
      PROVE  OutageInv'
    BY <1>1 DEF OutageInv
<1>2. CASE UNCHANGED hvars
    BY <1>1, <1>2 DEF hvars, vars, historyVars
<1>3. ASSUME NEW found \in Pairing, HReconnected(found)
      PROVE  OutageInv'
    <2>1. open' = TRUE /\ outage' = [wait |-> 0, since |-> 0]
        BY <1>3 DEF HReconnected, Reconnected
    <2> QED
        BY <1>0, <2>1 DEF OutageInv
<1>4. CASE HReconnectFailed
    <2> DEFINE w == IF outage.wait = 0 THEN RetryFirst ELSE CapAt(2 * outage.wait, RetryMax)
    <2>1. /\ open' = FALSE /\ retryIn' = retryWait /\ retryWait' = CapAt(2 * retryWait, RetryMax)
          /\ outage' = [wait |-> w, since |-> 0]
        BY <1>4 DEF HReconnectFailed, ReconnectFailed
    <2>2. w \in 1 .. RetryMax
        BY <1>0 DEF CapAt
    <2>3. retryWait = w
        BY <1>0 DEF OutageInv, FailsafeInv
    <2> HIDE DEF w
    <2>4. outage'.wait = w /\ outage'.since = 0 /\ outage' \in [wait: 0 .. RetryMax, since: 0 .. RetryMax]
        BY <1>0, <2>1, <2>2
    <2> QED
        BY <1>0, <2>1, <2>2, <2>3, <2>4 DEF OutageInv
<1>5. ASSUME NEW time \in Lapses \union {0}, HPause(time)
      PROVE  OutageInv'
    <2>1. /\ UNCHANGED <<open, retryWait>> /\ time \in Nat
          /\ retryIn' = IF retryIn = None THEN None ELSE IF retryIn > time THEN retryIn - time ELSE 0
        BY <1>5, TimeAssumption DEF HPause, Pause, linkVars
    <2>2. CASE open
        <3>1. outage' = outage
            BY <1>5, <2>2 DEF HPause, OutageInv
        <3> QED
            BY <2>1, <2>2, <3>1 DEF OutageInv
    <2>3. CASE ~open
        <3> DEFINE n == CapAt(outage.since + time, RetryMax)
        <3>1. outage.wait # 0 /\ retryIn = IF outage.since < outage.wait THEN outage.wait - outage.since ELSE 0
            BY <2>3 DEF OutageInv
        <3>2. outage' = [outage EXCEPT !.since = n]
            BY <1>5, <3>1 DEF HPause
        <3>3. n \in 0 .. RetryMax
            BY <1>0, <2>1 DEF CapAt
        <3>4. retryIn' = IF n < outage.wait THEN outage.wait - n ELSE 0
            BY <1>0, <2>1, <3>1 DEF CapAt
        <3> HIDE DEF n
        <3>5. /\ outage'.wait = outage.wait /\ outage'.since = n
              /\ outage' \in [wait: 0 .. RetryMax, since: 0 .. RetryMax]
            BY <3>2, <3>3 DEF OutageInv
        <3> QED
            BY <2>1, <2>3, <3>1, <3>4, <3>5 DEF OutageInv
    <2> QED
        BY <2>2, <2>3
<1>6. ASSUME NEW reply \in Replies, PollAnswered(reply), UNCHANGED historyVars
      PROVE  OutageInv'
    <2>1. open /\ open' = open /\ outage' = outage
        BY <1>6 DEF PollAnswered, linkVars, historyVars
    <2> QED
        BY <2>1 DEF OutageInv
<1>7. CASE (\E m \in Mac : HPush(m) /\ UNCHANGED <<forced, refused, greeting, outage>>) \/ HApply \/ HHeartbeat
    BY <1>1, <1>7 DEF HPush, SetPercent, Clear, Push, HApply, Apply, HHeartbeat, HeartbeatSent, coreVars, linkVars
<1>8. CASE \E m \in Mac : HDriveTarget(m) \/ HSendNothing(m)
    BY <1>1, <1>8 DEF HDriveTarget, DriveTarget, HSendNothing, SendNothing, coreVars, linkVars
<1>9. CASE /\ \/ Stop \/ Drain \/ AllApplied \/ HeartbeatNotSent
              \/ PollFailed \/ SweepGroups \/ Judge
              \/ \E m \in Mac : DrivePassesOver(m) \/ SendDue(m)
              \/ Driven \/ RecoverWaits \/ Publish
              \/ GoOn \/ Halt
              \/ \E m \in Mac : LastSend(m) \/ NoLastSend(m)
              \/ LastPublish
           /\ UNCHANGED historyVars
    <2>1. UNCHANGED <<open, retryIn, retryWait>>
        BY <1>9 DEF Stop, Drain, AllApplied, HeartbeatNotSent, PollFailed, SweepGroups, Judge, DrivePassesOver,
                    SendDue, Transmit, Driven, RecoverWaits, Publish, PublishTo, GoOn, Halt, LastSend, NoLastSend,
                    LastPublish, coreVars, linkVars
    <2> QED
        BY <1>1, <1>9, <2>1 DEF historyVars
<1> QED
    BY <1>2, <1>3, <1>4, <1>5, <1>6, <1>7, <1>8, <1>9 DEF HNext

\* What a step does at the point where the engine may reconnect.
LEMMA RetriesWhenDue ==
    ASSUME EngineTypeOK, FailsafeInv, OutageInv, HNext
    PROVE  /\ pc = "recover" /\ pc' # pc =>
                ((retryIn' # retryIn \/ misses' # misses) <=> Lost /\ outage.since >= outage.wait)
           /\ ChannelOf[dongle'] # ChannelOf[dongle] => 2 * outage.wait >= RetryMax
<1>0. /\ RetryFirst \in Nat \ {0} /\ RetryMax \in Nat /\ RetryFirst < RetryMax /\ PollFailures \in Nat \ {0}
      /\ outage.wait \in 0 .. RetryMax /\ outage.since \in 0 .. RetryMax
      /\ None \notin Nat /\ retryWait \in RetryFirst .. RetryMax /\ misses \in 0 .. PollFailures
    BY RetryAssumption, WaitsGrow, NoneAssumption DEF OutageInv, EngineTypeOK
<1>1. RetryDue <=> Lost /\ outage.since >= outage.wait
    <2>1. CASE open
        BY <1>0, <2>1 DEF RetryDue, OutageInv, FailsafeInv
    <2>2. CASE ~open
        BY <1>0, <2>2 DEF RetryDue, OutageInv
    <2> QED
        BY <2>1, <2>2
<1>2. ASSUME NEW found \in Pairing, HReconnected(found)
      PROVE  /\ misses' # misses /\ RetryDue
             /\ ChannelOf[dongle'] # ChannelOf[dongle] => 2 * outage.wait >= RetryMax
    <2>1. /\ RetryDue /\ misses' = 0 /\ dongle' = found
          /\ EveryChannel \/ ChannelOf[found] = ChannelOf[dongle]
        BY <1>2 DEF HReconnected, Reconnected
    <2>2. EveryChannel => 2 * outage.wait >= RetryMax
        BY <1>0 DEF EveryChannel, OutageInv, FailsafeInv, CapAt
    <2> QED
        BY <1>0, <2>1, <2>2 DEF RetryDue, Lost
<1>3. ASSUME HReconnectFailed
      PROVE  retryIn' # retryIn /\ RetryDue /\ dongle' = dongle
    BY <1>0, <1>3 DEF HReconnectFailed, ReconnectFailed, RetryDue
<1>4. CASE RecoverWaits
    BY <1>1, <1>4 DEF RecoverWaits, coreVars, linkVars
<1>5. CASE HNext /\ ~HReconnectFailed /\ ~RecoverWaits /\ ~(\E found \in Pairing : HReconnected(found))
    <2>1. dongle' = dongle
        BY <1>5 DEF HNext, HPush, SetPercent, Clear, Push, HApply, Apply, HHeartbeat, HeartbeatSent, HDriveTarget,
                    DriveTarget, HSendNothing, SendNothing, HPause, Pause, Stop, Drain, AllApplied,
                    HeartbeatNotSent, PollAnswered, PollFailed, SweepGroups, Judge, DrivePassesOver, SendDue,
                    Transmit, Driven, Publish, PublishTo, GoOn, Halt, LastSend, NoLastSend, LastPublish, linkVars
    <2>2. pc = "recover" => pc' = pc
        BY <1>5 DEF HNext, HPush, SetPercent, Clear, Push, HApply, Apply, HHeartbeat, HeartbeatSent, HDriveTarget,
                    DriveTarget, HSendNothing, SendNothing, HPause, Pause, Stop, Drain, AllApplied,
                    HeartbeatNotSent, PollAnswered, PollFailed, SweepGroups, Judge, DrivePassesOver, SendDue,
                    Driven, Publish, PublishTo, GoOn, Halt, LastSend, NoLastSend, LastPublish, loopVars
    <2> QED
        BY <2>1, <2>2
<1> QED
    BY <1>1, <1>2, <1>3, <1>4, <1>5

\* engine.rs:43-48, 362-412: attempts to reconnect come at once and then
\* after waits that double up to their cap, in the first tick that starts
\* late enough and in no other, and the channel is left only once the wait
\* has reached its cap; for any waits and ticks of any lengths.
THEOREM RetriesAreSpacedCorrect == HSpec => RetriesAreSpaced
<1> DEFINE Spaced ==
        /\ pc = "recover" /\ pc' # pc =>
                ((retryIn' # retryIn \/ misses' # misses) <=> Lost /\ outage.since >= outage.wait)
        /\ ChannelOf[dongle'] # ChannelOf[dongle] => 2 * outage.wait >= RetryMax
<1>1. HInit => OutageInv
    BY RetryAssumption DEF HInit, EngineInit, OutageInv
<1>2. EngineTypeOK /\ FailsafeInv /\ OutageInv /\ [HNext]_hvars => [Spaced]_hvars
    BY RetriesWhenDue
<1>3. EngineTyped => EngineTypeOK
    BY DEF EngineTyped
<1> QED
    BY <1>1, <1>2, <1>3, OutageIsKept, HistoryRefines, FailsafeAlways, PTL DEF HSpec, RetriesAreSpaced

-----------------------------------------------------------------------------
(***************************************************************************)
(* The loop over the contract of the dongle (module EngineOverLink).        *)
(***************************************************************************)
\* The engine seen from there has the same records; pc and open are in none.
LEMMA SameRecords ==
    /\ \A n, bound : Seen!CapAt(n, bound) = CapAt(n, bound)
    /\ \A g : /\ Seen!Online(g) = Online(g) /\ Seen!Bound(g) = Bound(g) /\ Seen!HasFans(g) = HasFans(g)
              /\ Seen!Acknowledged(g) = Acknowledged(g) /\ Seen!Due(g) = Due(g) /\ Seen!Kept(g) = Kept(g)
    /\ \A g, time : Seen!Older(g, time) = Older(g, time)
    /\ \A seen : Seen!NewGroup(seen) = NewGroup(seen)
    /\ \A g, seen : Seen!TakeSighting(g, seen) = TakeSighting(g, seen)
<1>1. \A n, bound : Seen!CapAt(n, bound) = CapAt(n, bound)
    BY DEF CapAt, Seen!CapAt
<1>2. ASSUME NEW g
      PROVE  /\ Seen!Online(g) = Online(g) /\ Seen!Bound(g) = Bound(g) /\ Seen!HasFans(g) = HasFans(g)
              /\ Seen!Acknowledged(g) = Acknowledged(g) /\ Seen!Due(g) = Due(g) /\ Seen!Kept(g) = Kept(g)
    BY DEF Online, Bound, HasFans, Applied, Acknowledged, Due, Kept, Seen!Online, Seen!Bound, Seen!HasFans,
           Seen!Applied, Seen!Acknowledged, Seen!Due, Seen!Kept
<1>3. ASSUME NEW g, NEW time PROVE Seen!Older(g, time) = Older(g, time)
    BY <1>1 DEF Older, Seen!Older
<1>4. ASSUME NEW seen PROVE Seen!NewGroup(seen) = NewGroup(seen)
    BY DEF NewGroup, Seen!NewGroup
<1>5. ASSUME NEW g, NEW seen PROVE Seen!TakeSighting(g, seen) = TakeSighting(g, seen)
    <2>1. \A vote, kept, s : /\ Seen!Settled(vote, kept, s) = Settled(vote, kept, s)
                             /\ Seen!NextVote(vote, kept, s) = NextVote(vote, kept, s)
        BY DEF Settled, NextVote, Seen!Settled, Seen!NextVote
    <2> QED
        BY <1>2, <2>1 DEF TakeSighting, Seen!TakeSighting
<1> QED
    BY <1>1, <1>2, <1>3, <1>4, <1>5

\* It has the same lists, and the same conditions for what is due.
LEMMA SameLists ==
    /\ \A gs : Seen!Rebuilt(gs) = Rebuilt(gs)
    /\ Seen!Fans = Fans
    /\ \A S : Seen!FirstOf(S) = FirstOf(S)
    /\ Seen!Replies = Replies
    /\ Seen!Published = Published
    /\ Seen!BeatDue = BeatDue /\ Seen!Lost = Lost /\ Seen!RetryDue = RetryDue /\ Seen!EveryChannel = EveryChannel
<1>1. Seen!Listed = Listed
    BY DEF Listed, Seen!Listed
<1>2. \A gs : Seen!Rebuilt(gs) = Rebuilt(gs)
    BY <1>1, SameRecords DEF Rebuilt, Seen!Rebuilt
<1>3. Seen!Fans = Fans
    BY <1>1, SameRecords DEF Fans, Seen!Fans
<1>4. \A S : Seen!FirstOf(S) = FirstOf(S)
    BY DEF FirstOf, Seen!FirstOf
<1>5. Seen!Replies = Replies
    BY DEF Replies, Seen!Replies, Sighting, Seen!Sighting
<1>6. Seen!Published = Published
    <2>1. \A m, online : Seen!Described(m, online) = Described(m, online)
        BY SameRecords DEF Described, Seen!Described
    <2> QED
        BY <1>3, <2>1, SameRecords DEF Published, Seen!Published
<1>7. Seen!BeatDue = BeatDue /\ Seen!Lost = Lost /\ Seen!RetryDue = RetryDue /\ Seen!EveryChannel = EveryChannel
    BY DEF BeatDue, Lost, RetryDue, EveryChannel, Seen!BeatDue, Seen!Lost, Seen!RetryDue, Seen!EveryChannel
<1> QED
    BY <1>2, <1>3, <1>4, <1>5, <1>6, <1>7

\* It drives the tracker as well.
LEMMA SameSteps ==
    /\ \A reply : Observe(reply) => Seen!Observe(reply)
    /\ Sweep => Seen!Sweep
    /\ \A m, percent : SetTarget(m, percent) => Seen!SetTarget(m, percent)
    /\ \A m : ClearTarget(m) => Seen!ClearTarget(m)
    /\ \A m : Sent(m) => Seen!Sent(m)
    /\ \A time : Elapse(time) => Seen!Elapse(time)
<1>1. ASSUME NEW reply, Observe(reply) PROVE Seen!Observe(reply)
    BY <1>1, SameRecords, SameLists DEF Observe, Seen!Observe
<1>2. Sweep => Seen!Sweep
    BY SameRecords, SameLists DEF Sweep, Seen!Sweep
<1>3. /\ \A m, percent : SetTarget(m, percent) => Seen!SetTarget(m, percent)
    /\ \A m : ClearTarget(m) => Seen!ClearTarget(m)
    BY DEF SetTarget, ClearTarget, Seen!SetTarget, Seen!ClearTarget
<1>4. \A m : Sent(m) => Seen!Sent(m)
    BY SameRecords DEF Sent, Seen!Sent
<1>5. \A time : Elapse(time) => Seen!Elapse(time)
    BY SameRecords DEF Elapse, Seen!Elapse
<1> QED
    BY <1>1, <1>2, <1>3, <1>4, <1>5

-----------------------------------------------------------------------------
\* While a reconnect is under way it was due, the handles are given up, and it
\* scans only when the loop asked for that.
OverInv == pc = "reopen" => RetryDue /\ ~open /\ (scan <=> EveryChannel)

\* What hosts do is what they do to the engine, in the middle of a reconnect too.
LEMMA HostIsSeen ==
    ASSUME Host, UNCHANGED calls
    PROVE  Seen!Host
<1> USE DEF calls, trackerVars, loopVars, coreVars, linkVars,
            Seen!trackerVars, Seen!loopVars, Seen!coreVars, Seen!linkVars
<1>1. ASSUME NEW request, Push(request)
      PROVE  Seen!Push(request)
    BY <1>1 DEF Push, Seen!Push
<1>2. ASSUME NEW m \in Mac, NEW percent \in Asked, SetPercent(m, percent)
      PROVE  Seen!SetPercent(m, percent)
    BY <1>1, <1>2 DEF SetPercent, Seen!SetPercent
<1>3. ASSUME NEW m \in Mac, Clear(m)
      PROVE  Seen!Clear(m)
    BY <1>1, <1>3 DEF Clear, Seen!Clear
<1>4. ASSUME Stop
      PROVE  Seen!Stop
    BY <1>4 DEF Stop, Seen!Stop
<1> QED
    BY <1>2, <1>3, <1>4 DEF Host, Seen!Host

\* What the worker does without the dongle.
LEMMA BetweenIsSeen ==
    ASSUME Between, UNCHANGED calls
    PROVE  Seen!Worker /\ pc # "reopen" /\ pc' # "reopen"
<1> USE DEF calls, trackerVars, loopVars, coreVars, linkVars, hostVars,
            Seen!trackerVars, Seen!loopVars, Seen!coreVars, Seen!linkVars, Seen!hostVars
<1>1. ASSUME Drain
      PROVE  Seen!Drain /\ pc # "reopen" /\ pc' # "reopen"
    BY <1>1 DEF Drain, Seen!Drain
<1>2. ASSUME Apply
      PROVE  Seen!Apply /\ pc # "reopen" /\ pc' # "reopen"
    <2>1. /\ \A m, percent : Want(m, percent) => Seen!Want(m, percent)
          /\ \A m : Release(m) => Seen!Release(m)
        BY SameRecords, SameSteps DEF Want, Release, Clamped, Seen!Want, Seen!Release, Seen!Clamped
    <2> QED
        BY <1>2, <2>1 DEF Apply, Seen!Apply
<1>3. ASSUME AllApplied
      PROVE  Seen!AllApplied /\ pc # "reopen" /\ pc' # "reopen"
    BY <1>3 DEF AllApplied, Seen!AllApplied
<1>4. ASSUME SweepGroups
      PROVE  Seen!SweepGroups /\ pc # "reopen" /\ pc' # "reopen"
    BY <1>4, SameSteps DEF SweepGroups, Seen!SweepGroups
<1>5. ASSUME Judge
      PROVE  Seen!Judge /\ pc # "reopen" /\ pc' # "reopen"
    BY <1>5, SameLists DEF Judge, Seen!Judge
<1>6. ASSUME NEW m \in Mac, DrivePassesOver(m)
      PROVE  Seen!DrivePassesOver(m) /\ pc # "reopen" /\ pc' # "reopen"
    BY <1>6, SameLists DEF DrivePassesOver, Seen!DrivePassesOver
<1>7. ASSUME NEW m \in Mac, DriveTarget(m)
      PROVE  Seen!DriveTarget(m) /\ pc # "reopen" /\ pc' # "reopen"
    BY <1>7, SameLists, SameSteps DEF DriveTarget, Seen!DriveTarget
<1>8. ASSUME Driven
      PROVE  Seen!Driven /\ pc # "reopen" /\ pc' # "reopen"
    BY <1>8 DEF Driven, Seen!Driven
<1>9. ASSUME RecoverWaits
      PROVE  Seen!RecoverWaits /\ pc # "reopen" /\ pc' # "reopen"
    BY <1>9, SameLists DEF RecoverWaits, Seen!RecoverWaits
<1>10. ASSUME Publish
       PROVE  Seen!Publish /\ pc # "reopen" /\ pc' # "reopen"
    BY <1>10, SameLists DEF Publish, PublishTo, Seen!Publish, Seen!PublishTo
<1>11. ASSUME NEW time \in Lapses \union {0}, Pause(time)
       PROVE  Seen!Pause(time) /\ pc # "reopen" /\ pc' # "reopen"
    BY <1>11, SameSteps, SameRecords, Zenon DEF Pause, Seen!Pause
<1>12. ASSUME GoOn
       PROVE  Seen!GoOn /\ pc # "reopen" /\ pc' # "reopen"
    BY <1>12 DEF GoOn, Seen!GoOn
<1>13. ASSUME Halt
       PROVE  Seen!Halt /\ pc # "reopen" /\ pc' # "reopen"
    BY <1>13, SameLists DEF Halt, Seen!Halt
<1>14. ASSUME LastPublish
       PROVE  Seen!LastPublish /\ pc # "reopen" /\ pc' # "reopen"
    BY <1>14, SameLists DEF LastPublish, PublishTo, Seen!LastPublish, Seen!PublishTo
<1> QED
    BY <1>1, <1>2, <1>3, <1>4, <1>5, <1>6, <1>7, <1>8, <1>9, <1>10, <1>11, <1>12, <1>13, <1>14
       DEF Between, Seen!Worker, Seen!Tick

\* A call of the dongle is what the engine takes it for, and the beginning of
\* a reconnect is nothing yet.
LEMMA CallsAreSeen ==
    ASSUME OverInv, Calls \/ NoHeartbeat
    PROVE  [Seen!Worker]_(Seen!vars) /\ OverInv'
<1> USE DEF trackerVars, loopVars, coreVars, linkVars, hostVars, calls,
            Seen!trackerVars, Seen!loopVars, Seen!coreVars, Seen!linkVars, Seen!hostVars
<1>1. /\ Succeeds => open /\ UNCHANGED <<open, dongle, held>>
      /\ Fails => UNCHANGED <<open, dongle, held>>
    BY DEF Succeeds, Fails, Contract!Succeed, Contract!Fail
<1>2. ASSUME CallHeartbeat \/ NoHeartbeat
      PROVE  (Seen!HeartbeatSent \/ Seen!HeartbeatNotSent) /\ pc' # "reopen"
    BY <1>1, <1>2, SameLists DEF CallHeartbeat, NoHeartbeat, Seen!HeartbeatSent, Seen!HeartbeatNotSent
<1>3. ASSUME CallPoll
      PROVE  (Seen!PollFailed \/ \E reply \in Seen!Replies : Seen!PollAnswered(reply)) /\ pc' # "reopen"
    <2>1. CASE /\ Succeeds /\ misses' = 0 /\ retryIn' = None /\ retryWait' = RetryFirst
               /\ \E reply \in Replies : Observe(reply)
        <3>1. PICK reply \in Replies : Observe(reply)
            BY <2>1
        <3>2. Seen!PollAnswered(reply)
            BY <1>1, <1>3, <2>1, <3>1, SameSteps DEF CallPoll, Seen!PollAnswered
        <3> QED
            BY <1>3, <3>2, SameLists DEF CallPoll
    <2>2. CASE /\ Fails /\ misses' = CapAt(misses + 1, PollFailures)
               /\ UNCHANGED <<trackerVars, retryIn, retryWait>>
        BY <1>1, <1>3, <2>2, SameRecords DEF CallPoll, Seen!PollFailed
    <2> QED
        BY <1>3, <2>1, <2>2 DEF CallPoll
<1>4. ASSUME NEW m \in Mac, SendStep(m)
      PROVE  (Seen!SendDue(m) \/ Seen!SendNothing(m)) /\ pc' # "reopen"
    BY <1>1, <1>4, SameRecords, SameLists, SameSteps
       DEF SendStep, CallSend, PassOn, Seen!SendDue, Seen!SendNothing, Seen!Transmit
<1>5. ASSUME NEW m \in Mac, LastSendStep(m)
      PROVE  (Seen!LastSend(m) \/ Seen!NoLastSend(m)) /\ pc' # "reopen"
    BY <1>1, <1>5, SameRecords, SameLists, SameSteps
       DEF LastSendStep, CallSend, PassOn, Seen!LastSend, Seen!NoLastSend, Seen!Transmit
<1>6. ASSUME CallReconnect
      PROVE  UNCHANGED Seen!vars /\ OverInv'
    <2>1. /\ pc = "recover" /\ pc' = "reopen" /\ RetryDue /\ held' = open /\ ~open' /\ scan' = EveryChannel
          /\ UNCHANGED <<groups, order, taken, todo, wanted, beat, misses, retryIn, retryWait, alarm, dongle,
                         radio, requests, stop, snapshot>>
        BY <1>6 DEF CallReconnect, Contract!GiveUp
    <2> QED
        BY <2>1 DEF Seen!vars, OverInv, RetryDue, Lost, EveryChannel
<1>7. ASSUME ReconnectReturns
      PROVE  (Seen!ReconnectFailed \/ \E found \in Pairing : Seen!Reconnected(found)) /\ pc' # "reopen"
    <2>1. /\ pc = "reopen" /\ pc' = "publish" /\ RetryDue /\ ~open /\ (scan <=> EveryChannel)
          /\ UNCHANGED <<trackerVars, taken, todo, wanted, radio, hostVars, snapshot>>
        BY <1>7 DEF ReconnectReturns, OverInv
    <2>2. CASE /\ dongle' \in Pairing /\ Contract!Reopened
               /\ misses' = 0 /\ retryIn' = None /\ retryWait' = RetryFirst
               /\ beat' = [formed |-> FALSE, age |-> None]
               /\ alarm' = FALSE /\ UNCHANGED held
        <3>1. open' = TRUE /\ (EveryChannel \/ ChannelOf[dongle'] = ChannelOf[dongle])
            BY <2>1, <2>2 DEF Contract!Reopened
        <3>2. Seen!Reconnected(dongle')
            BY <2>1, <2>2, <3>1, SameLists DEF Seen!Reconnected
        <3> QED
            BY <2>1, <2>2, <3>2
    <2>3. CASE /\ Fails /\ retryIn' = retryWait /\ retryWait' = CapAt(2 * retryWait, RetryMax)
               /\ UNCHANGED <<misses, beat, alarm>>
        BY <1>1, <2>1, <2>3, SameRecords, SameLists DEF Seen!ReconnectFailed
    <2> QED
        BY <1>7, <2>2, <2>3 DEF ReconnectReturns
<1> QED
    BY <1>2, <1>3, <1>4, <1>5, <1>6, <1>7 DEF Calls, OverInv, Seen!Worker, Seen!Tick

\* Every step keeps the invariant and is seen as one of the engine, or not at all.
LEMMA OverStep == OverInv /\ [OverNext]_ovars => [Seen!EngineNext]_(Seen!vars) /\ OverInv'
<1> SUFFICES ASSUME OverInv, [OverNext]_ovars
             PROVE  [Seen!EngineNext]_(Seen!vars) /\ OverInv'
    OBVIOUS
<1>1. CASE Host /\ UNCHANGED calls
    <2>1. UNCHANGED <<pc, open, scan, misses, retryIn, retryWait>>
        BY <1>1 DEF Host, SetPercent, Clear, Push, Stop, calls, loopVars, coreVars, linkVars
    <2> QED
        BY <1>1, <2>1, HostIsSeen DEF Seen!EngineNext, OverInv, RetryDue, Lost, EveryChannel
<1>2. CASE Between /\ UNCHANGED calls
    BY <1>2, BetweenIsSeen DEF Seen!EngineNext, OverInv
<1>3. CASE Calls \/ NoHeartbeat
    BY <1>3, CallsAreSeen DEF Seen!EngineNext
<1>4. CASE UNCHANGED ovars
    BY <1>4 DEF ovars, vars, calls, Seen!vars, OverInv, RetryDue, Lost, EveryChannel
<1> QED
    BY <1>1, <1>2, <1>3, <1>4 DEF OverNext

\* engine.rs:55-95, 369-412: on any dongle that keeps the contract of module
\* Link the loop is the engine of module Engine, whatever hosts do in the middle
\* of a reconnect; with KeepsLinkCorrect, that goes for the dongle of module
\* Dongle.
THEOREM EngineOverLinkCorrect == OverSpec => KeepsEngine
<1>1. OverInit => OverInv /\ Seen!EngineInit
    BY DEF OverInit, EngineInit, Init, OverInv, Seen!EngineInit, Seen!Init
<1> QED
    BY <1>1, OverStep, PTL DEF OverSpec, KeepsEngine, Seen!EngineSpec
============================================================================
