------------------------------ MODULE EngineMC ------------------------------
(* Constants for the runs of Engine.                                        *)
EXTENDS Engine, TrackerMC

CONSTANTS first, swapped, moved

MCMasterOf == [d \in Pairing |-> IF d = swapped THEN theirs ELSE ours]
MCChannelOf == [d \in Pairing |-> IF d = moved THEN 2 ELSE 1]
MCTwoDuties == {30, 100}
============================================================================
