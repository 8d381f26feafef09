--------------------------- MODULE EngineHistoryMC --------------------------
(* EngineHistory with the constants of EngineMC.                            *)
EXTENDS EngineHistory, EngineMC
============================================================================
