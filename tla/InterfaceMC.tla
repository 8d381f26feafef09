----------------------------- MODULE InterfaceMC ----------------------------
(* Two transmitters, of which only one may be there, and a receiver.        *)
EXTENDS Interface

CONSTANTS tx, other, rx

MCRoleOf == [p \in Path |-> IF p = rx THEN "receiver" ELSE "transmitter"]
=============================================================================
