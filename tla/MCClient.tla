------------------------------ MODULE MCClient ------------------------------
(* Instances of Client for TLC: two matches, one after the other. *)
EXTENDS Client
=============================================================================
