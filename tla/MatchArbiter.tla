----------------------------- MODULE MatchArbiter -----------------------------
(***************************************************************************)
(* What the Match Durable Object promises about the outcome of a match,    *)
(* whatever order claims, forfeits, exits and errors arrive in: it is      *)
(* decided for one player or aborted, once, and everyone who is told a     *)
(* verdict is told that one.                                               *)
(***************************************************************************)
CONSTANTS Matches, PlayersOf

VARIABLES
  verdict,  \* "open", the winner, or "aborted"
  told      \* the verdicts that have been given out

Init ==
  /\ verdict = [m \in Matches |-> "open"]
  /\ told = [m \in Matches |-> {}]

(* Arbitration precedes any announcement. *)
Decide(m, w) ==
  /\ verdict[m] = "open"
  /\ verdict' = [verdict EXCEPT ![m] = w]
  /\ UNCHANGED told

(* An abort is announced as it is decided. *)
Abort(m) ==
  /\ verdict[m] = "open"
  /\ verdict' = [verdict EXCEPT ![m] = "aborted"]
  /\ told' = [told EXCEPT ![m] = @ \cup {"aborted"}]

Tell(m) ==
  /\ verdict[m] # "open"
  /\ told' = [told EXCEPT ![m] = @ \cup {verdict[m]}]
  /\ UNCHANGED verdict

Next == \E m \in Matches : (\E w \in PlayersOf[m] : Decide(m, w)) \/ Abort(m) \/ Tell(m)

Spec == Init /\ [][Next]_<<verdict, told>>
=============================================================================
