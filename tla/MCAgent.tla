------------------------------- MODULE MCAgent -------------------------------
(* Instances of Agent for TLC: one match, since matches share no record. *)
EXTENDS Agent

CONSTANTS m1, g1, g2
==============================================================================
