------------------------------ MODULE MCMatchGame -----------------------------
(* Instances of MatchGame for TLC: a duel. *)
EXTENDS MatchGame

CONSTANTS m1, alice, bob
==============================================================================
