------------------------- MODULE MCSceneSession -------------------------
(* Values for checking SceneSession. *)
EXTENDS SceneSession, TLC

Symmetry == Permutations(Gates) \cup Permutations(Players) \cup Permutations(Sessions)
=============================================================================
