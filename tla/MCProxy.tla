------------------------------- MODULE MCProxy -------------------------------
(* Instances of Proxy for TLC: two duels of the same players, one after the *)
(* other.                                                                   *)
EXTENDS Proxy

CONSTANTS m1, m2, alice, bob, t1, t2
==============================================================================
