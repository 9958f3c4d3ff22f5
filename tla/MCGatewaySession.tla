------------------------ MODULE MCGatewaySession ------------------------
(* Small instances of GatewaySession: a role of the account a1. *)
EXTENDS GatewaySession, TLC

CONSTANTS a1, r1

RoleOfA1 == r1 :> a1
Symmetry == Permutations(Socks)
=============================================================================
