------------------------------ MODULE DongleMC ------------------------------
(* Constants for the run of Dongle: the default channel and another.       *)
EXTENDS Dongle

MCOthers == <<2>>
=============================================================================
