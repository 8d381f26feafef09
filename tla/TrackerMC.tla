------------------------------ MODULE TrackerMC -----------------------------
(* Constants for the runs of Tracker and TrackerHistory.                    *)
EXTENDS Tracker, TLC

CONSTANTS ours, theirs, here, there, elsewhere, fan, tall, strip

MCMaster == {ours, theirs}
MCOwnerOf == [i \in Identity |-> IF i = there THEN theirs ELSE ours]
MCPercent == {30, 100}
MCPrepare == [s \in Shape |-> [p \in Percent |-> IF s = tall /\ p < 60 THEN 60 ELSE p]]
MCAcks == {p \in Duty \X Duty : p[1] = p[2]}
============================================================================
