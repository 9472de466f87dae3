------------------------------- MODULE MCQueue -------------------------------
(* Instances of Queue for TLC. *)
EXTENDS Queue, TLC

CONSTANTS low, mid, high, alice, bob

(* Alice's rating moves between two brackets; nobody joins the lowest. *)
MovingRatings == (alice :> {mid, high}) @@ (bob :> {mid})

(* Three brackets in a row, as neighborBrackets lists them. *)
InARow == (low :> <<mid>>) @@ (mid :> <<low, high>>) @@ (high :> <<mid>>)
=============================================================================
