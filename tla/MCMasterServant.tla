------------------------ MODULE MCMasterServant ------------------------
(* Small instances of MasterServant: a role guid of the account a1. *)
EXTENDS MasterServant, TLC

CONSTANTS a1, r1

RoleOfA1 == r1 :> a1
Symmetry == Permutations(Gates) \cup Permutations(Servants)
=============================================================================
