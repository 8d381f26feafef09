--------------------------- MODULE EngineOverLink ---------------------------
(***************************************************************************)
(* The fan loop over the contract of module Link: what module Engine takes *)
(* a call of the dongle to do at once is here left to the contract, which  *)
(* module Dongle keeps.  A reconnect gives up the handles first and comes  *)
(* back later; hosts put requests, stop and read snapshots in between.     *)
(*                                                                         *)
(* open and dongle are the dongle's own here.  The steps that call nothing *)
(* are those of Engine.                                                    *)
(***************************************************************************)
EXTENDS Engine

VARIABLES
    scan, outcome,  \* as in Link
    held            \* history: whether the handles were held when the reconnect began

calls == <<scan, outcome, held>>
ovars == <<vars, calls>>

Contract == INSTANCE Link WITH
    Channel <- {ChannelOf[d] : d \in Pairing}, channel <- ChannelOf[dongle]

OverInit == EngineInit /\ Contract!Init /\ held = FALSE

Succeeds == dongle' = dongle /\ Contract!Succeed /\ UNCHANGED held

Fails == dongle' = dongle /\ Contract!Fail /\ UNCHANGED held

-----------------------------------------------------------------------------
(* The calls.                                                              *)

CallHeartbeat ==
    /\ pc = "heartbeat" /\ BeatDue
    /\ \/ Succeeds /\ beat' = [formed |-> TRUE, age |-> 0]
       \/ Fails /\ UNCHANGED beat
    /\ pc' = "poll"
    /\ UNCHANGED <<trackerVars, taken, todo, wanted, misses, retryIn, retryWait, alarm, radio,
                   hostVars, snapshot>>

NoHeartbeat ==
    /\ pc = "heartbeat" /\ ~BeatDue
    /\ pc' = "poll"
    /\ UNCHANGED <<trackerVars, taken, todo, coreVars, linkVars, hostVars, snapshot, calls>>

CallPoll ==
    /\ pc = "poll"
    /\ \/ /\ Succeeds
          /\ misses' = 0 /\ retryIn' = None /\ retryWait' = RetryFirst
          /\ \E reply \in Replies : Observe(reply)
       \/ /\ Fails
          /\ misses' = CapAt(misses + 1, PollFailures)
          /\ UNCHANGED <<trackerVars, retryIn, retryWait>>
    /\ pc' = "sweep"
    /\ UNCHANGED <<taken, todo, wanted, beat, alarm, radio, hostVars, snapshot>>

\* send_group: a target sent is marked, one refused is not.
CallSend(m) ==
    /\ \/ Succeeds /\ Sent(m) /\ radio' = [radio EXCEPT ![m] = groups[m].target]
       \/ Fails /\ UNCHANGED <<trackerVars, radio>>
    /\ todo' = todo \ {m}
    /\ UNCHANGED <<taken, coreVars, hostVars, snapshot>>

\* A group that needs nothing sent.
PassOn(m) ==
    /\ todo' = todo \ {m}
    /\ UNCHANGED <<trackerVars, taken, coreVars, linkVars, hostVars, snapshot, calls>>

SendStep(m) ==
    /\ pc = "send" /\ m = FirstOf(todo)
    /\ \/ Due(groups[m]) /\ CallSend(m)
       \/ ~Due(groups[m]) /\ PassOn(m)
    /\ pc' = "drive"

LastSendStep(m) ==
    /\ pc = "shutdown" /\ todo # {} /\ m = FirstOf(todo)
    /\ LET wants == groups[m].target # None /\ ~Acknowledged(groups[m]) IN
       \/ wants /\ CallSend(m)
       \/ ~wants /\ PassOn(m)
    /\ UNCHANGED pc

\* A mistake: every attempt scans every channel.
ScanAtOnceVariant ==
    /\ pc = "recover" /\ RetryDue
    /\ dongle' = dongle /\ Contract!GiveUp /\ scan' = TRUE
    /\ held' = open
    /\ pc' = "reopen"
    /\ UNCHANGED <<trackerVars, taken, todo, coreVars, radio, hostVars, snapshot>>

CallReconnect ==
    /\ pc = "recover" /\ RetryDue
    /\ dongle' = dongle /\ Contract!GiveUp /\ scan' = EveryChannel
    /\ held' = open
    /\ pc' = "reopen"
    /\ UNCHANGED <<trackerVars, taken, todo, coreVars, radio, hostVars, snapshot>>

ReconnectReturns ==
    /\ pc = "reopen"
    /\ \/ /\ dongle' \in Pairing
          /\ Contract!Reopened
          /\ misses' = 0 /\ retryIn' = None /\ retryWait' = RetryFirst
          /\ beat' = [formed |-> FALSE, age |-> None]
          /\ alarm' = FALSE
          /\ UNCHANGED held
       \/ /\ Fails
          /\ retryIn' = retryWait
          /\ retryWait' = CapAt(2 * retryWait, RetryMax)
          /\ UNCHANGED <<misses, beat, alarm>>
    /\ pc' = "publish"
    /\ UNCHANGED <<trackerVars, taken, todo, wanted, radio, hostVars, snapshot>>

-----------------------------------------------------------------------------

Calls ==
    \/ CallHeartbeat \/ CallPoll \/ CallReconnect \/ ReconnectReturns
    \/ \E m \in Mac : SendStep(m) \/ LastSendStep(m)

\* What the worker does without the dongle.
Between ==
    \/ Drain \/ Apply \/ AllApplied \/ SweepGroups \/ Judge
    \/ \E m \in Mac : DrivePassesOver(m) \/ DriveTarget(m)
    \/ Driven \/ RecoverWaits \/ Publish
    \/ \E time \in Lapses \union {0} : Pause(time)
    \/ GoOn \/ Halt \/ LastPublish

OverNext ==
    \/ Calls
    \/ NoHeartbeat
    \/ (Host \/ Between) /\ UNCHANGED calls

OverSpec == OverInit /\ [][OverNext]_ovars

\* The worker is a thread that never waits for anyone: it sleeps, calls the
\* dongle, whose every call returns, or makes its next step.
LiveSpec == OverSpec /\ WF_ovars(Calls \/ NoHeartbeat \/ (Between /\ UNCHANGED calls))

-----------------------------------------------------------------------------
(* Properties.                                                             *)

\* Until a reconnect returns nobody but the dongle has seen it begin.
Seen == INSTANCE Engine WITH
    pc <- IF pc = "reopen" THEN "recover" ELSE pc,
    open <- IF pc = "reopen" THEN held ELSE open

\* engine.rs:55-95, 369-412: with any dongle that keeps the contract of the
\* trait Link the loop behaves as module Engine says, though the handles are
\* gone while a reconnect is under way and hosts act in the middle of it: what
\* holds of Engine holds of the loop on the dongle.
KeepsEngine == Seen!EngineSpec
============================================================================
