-------------------------- MODULE EngineOverLinkMC --------------------------
(* EngineOverLink with the constants of EngineMC.                           *)
EXTENDS EngineOverLink, EngineMC
============================================================================
