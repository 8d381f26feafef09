------------------------------ MODULE ProbeMC -------------------------------
(* A group of one fan, and two CL fans that chain from the right and run at *)
(* two speeds, or at one they skip that is near 59 %.                       *)
EXTENDS Probe

CONSTANTS one, turned

MCDeviceOf == [g \in Groups |->
    IF g = turned THEN [kind |-> 0, model |-> 40, fans |-> 2, right |-> TRUE]
                  ELSE [kind |-> 0, model |-> 20, fans |-> 1, right |-> FALSE]]

MCDuties(a, b) == [slot \in Slots |-> IF slot = 1 THEN a ELSE IF slot = 2 THEN b ELSE 0]

MCFirst == {[g \in Groups |-> IF g = turned THEN run ELSE MCDuties(20, 0)] :
                run \in {MCDuties(100, 200), MCDuties(155, 155)}}
=============================================================================
