------------------------------ MODULE Failsafe ------------------------------
(***************************************************************************)
(* What the engine promises a user whose dongle may vanish, without how:   *)
(* "no fan below the floor, and every reachable fan at full speed while    *)
(* the dongle is lost and not yet back" (src/engine.rs:7-8).  A row of     *)
(* missed polls turns the failsafe on; as long as it is on no command but   *)
(* full speed leaves; only the dongle's return turns it off; no command    *)
(* ever names duties that are not allowed.                                 *)
(***************************************************************************)
EXTENDS Integers

CONSTANTS
    Mac, None,
    Allowed,        \* duties from the floor up
    Full,           \* duties that are full speed
    PollFailures

VARIABLES
    failsafe,  \* whether it is in force
    missed,    \* polls missed in a row, up to PollFailures
    command    \* per device, the last command that left

fsVars == <<failsafe, missed, command>>

Init ==
    /\ failsafe = FALSE
    /\ missed = 0
    /\ command = [m \in Mac |-> None]

Answer ==
    /\ ~failsafe
    /\ missed' = 0
    /\ UNCHANGED <<failsafe, command>>

Miss ==
    /\ missed' = IF missed < PollFailures THEN missed + 1 ELSE missed
    /\ UNCHANGED <<failsafe, command>>

Raise ==
    /\ ~failsafe /\ missed = PollFailures
    /\ failsafe' = TRUE
    /\ UNCHANGED <<missed, command>>

Return ==
    /\ failsafe
    /\ failsafe' = FALSE
    /\ missed' = 0
    /\ UNCHANGED command

Command(m, duty) ==
    /\ duty \in Allowed
    /\ failsafe => duty \in Full
    /\ command' = [command EXCEPT ![m] = duty]
    /\ UNCHANGED <<failsafe, missed>>

Next ==
    \/ Answer \/ Miss \/ Raise \/ Return
    \/ \E m \in Mac, duty \in Allowed : Command(m, duty)

Spec == Init /\ [][Next]_fsVars
============================================================================
