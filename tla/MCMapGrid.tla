---------------------------- MODULE MCMapGrid ----------------------------
(* Values for checking MapGrid. *)
EXTENDS MapGrid

CONSTANT m1

MCHome == [m \in Monsters |-> <<1, 0>>]
=============================================================================
