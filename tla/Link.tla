-------------------------------- MODULE Link --------------------------------
(***************************************************************************)
(* What the engine relies on when it calls the dongle (the trait Link of   *)
(* src/engine.rs): nothing succeeds without handles, handles are given up  *)
(* by a reopen only, and a reopen that does not scan comes back on the     *)
(* channel the dongle was on.                                              *)
(***************************************************************************)
CONSTANT Channel

VARIABLES
    open,     \* whether the handles are held
    channel,  \* the channel the dongle is taken to be on
    scan,     \* whether the reopen under way tries every channel
    outcome   \* of the last call, "none" before the first

linkVars == <<open, channel, scan, outcome>>

Init ==
    /\ open = TRUE
    /\ channel \in Channel
    /\ scan = FALSE
    /\ outcome = "none"

Succeed == open /\ outcome' = "ok" /\ scan' = FALSE /\ UNCHANGED <<open, channel>>

Fail == outcome' = "failed" /\ scan' = FALSE /\ UNCHANGED <<open, channel>>

GiveUp == open' = FALSE /\ scan' \in BOOLEAN /\ UNCHANGED <<channel, outcome>>

Reopened ==
    /\ ~open
    /\ open' = TRUE
    /\ channel' \in IF scan THEN Channel ELSE {channel}
    /\ outcome' = "ok"
    /\ scan' = FALSE

Next == Succeed \/ Fail \/ GiveUp \/ Reopened

Spec == Init /\ [][Next]_linkVars
============================================================================
