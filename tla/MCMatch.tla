------------------------------- MODULE MCMatch -------------------------------
(* Instances of Match for TLC: one duel under faults. *)
EXTENDS Match, TLC

CONSTANTS m1, alice, bob, carol

OneDuel  == m1 :> {alice, bob}

(* The players of a duel are interchangeable. *)
DuelSymmetry == Permutations({alice, bob})
==============================================================================
