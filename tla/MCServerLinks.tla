--------------------------- MODULE MCServerLinks ---------------------------
(* Values for checking ServerLinks. *)
EXTENDS ServerLinks
=============================================================================
