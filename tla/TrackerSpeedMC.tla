--------------------------- MODULE TrackerSpeedMC ---------------------------
(* A group of three fans, and one of two CL fans that chain from the right. *)
EXTENDS TrackerSpeed, TrackerMC

MCThree == [kind |-> 0, model |-> 20, fans |-> 3, right |-> FALSE]
MCTurned == [kind |-> 0, model |-> 40, fans |-> 2, right |-> TRUE]
MCDevices == {MCThree, MCTurned}
MCFans == {s \in Shape : s.kind = 0 /\ s.fans > 0}
MCAsked == {30, 60}
MCSentDuties == {Commanded(s, p) : s \in MCDevices, p \in MCAsked}
MCReported == MCSentDuties \union {[slot \in Slots |-> IF slot <= 3 THEN 82 ELSE 0]}
MCCommand == [s \in Shape |-> [p \in Percent |-> Commanded(s, p)]]
MCMatches == {pair \in MCReported \X MCSentDuties : Matches(pair[1], pair[2])}
============================================================================
