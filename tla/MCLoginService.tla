--------------------------- MODULE MCLoginService ---------------------------
(* Values for checking LoginService. *)
EXTENDS LoginService, TLC

Symmetry == Permutations(Names) \cup Permutations(Clients) \cup Permutations(Asks)
=============================================================================
