------------------------------- MODULE LogMC -------------------------------
(* Module Log for TLC: ticks of three units, of which a sleep may end one   *)
(* late, work that is short or takes longer than a tick, and windows of two *)
(* ticks.                                                                   *)
EXTENDS Log

MCWork == {0, 4}
=============================================================================
