------------------------------- MODULE MCSignIn -------------------------------
(* Instances of SignIn for TLC: two tabs of one browser. *)
EXTENDS SignIn
==============================================================================
