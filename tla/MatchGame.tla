------------------------------ MODULE MatchGame ------------------------------
(***************************************************************************)
(* The Fabric mod inside a match container (sisr-mod): one game at a time   *)
(* on the server thread, claims that are answered by other threads, and a   *)
(* server that ends with the game or is stopped from outside.               *)
(*                                                                         *)
(* Who wins is decided elsewhere: the Match Durable Object takes part as    *)
(* what it promises, MatchArbiter, which module Match implements.  A claim  *)
(* it decides is answered only after the Agent has stopped the container    *)
(* or failed to (match.ts:261-281, match-cleanup.ts:28).                    *)
(***************************************************************************)
EXTENDS Integers

CONSTANTS
  Match,        \* the MATCH_ID of the container
  Players,      \* ALLOWED_UUIDS; the router sends nobody else
  MaxLost,      \* bound: claims, answers, ready posts and stops that fail
  MaxCommands,  \* bound: /rir commands
  MaxJoins      \* bound: connections of all players

ASSUME GameAssumption ==
  /\ {MaxLost, MaxCommands, MaxJoins} \subseteq Nat
  /\ Players \cap {"none", "sent", "stopping", "failed", "nobody", "nothing", "open", "aborted"} = {}

VARIABLES
  game,      \* config (as mode), endingTicks >= 0 (ending), what finish() announced
  inFlight,  \* claimsInFlight
  claims,    \* the latest claim of each player, on its way through the system
  online,    \* the server's player list
  holds,     \* who has the target item in the inventory
  up,        \* the server runs
  ready,     \* the ready notification
  left,      \* joins, failures and commands that are left
  overlooked,  \* history: whose item came by a way the mod does not see, or
               \* was let go with a failed claim, and is not looked for since
  verdict, told  \* the arbiter's

vars == <<game, inFlight, claims, online, holds, up, ready, left, overlooked, verdict, told>>

DO == INSTANCE MatchArbiter
        WITH Matches <- {Match}, PlayersOf <- [m \in {Match} |-> Players]

-----------------------------------------------------------------------------
Fresh(mode) == [mode |-> mode, ending |-> FALSE, shown |-> "nothing"]
Running == game.mode \in {"match", "manual"}
Playing == Running /\ ~game.ending
Verdict == verdict[Match]
Use(k)  == left[k] > 0 /\ left' = [left EXCEPT ![k] = @ - 1]
Clear   == game' = Fresh("none") /\ inFlight' = {}
Release(p) == inFlight' = inFlight \ {p} /\ overlooked' = overlooked \cup (holds \cap {p})

(* Mutants of Finish: the game goes on; the last result is the one shown. *)
FinishOpen(result) ==
  game' = IF game.ending THEN game ELSE [game EXCEPT !.shown = result]

FinishAgain(result) == game' = [game EXCEPT !.ending = TRUE, !.shown = result]

Finish(result) ==
  game' = IF game.ending THEN game ELSE [game EXCEPT !.ending = TRUE, !.shown = result]

(* claim(): one request per player; without an API it ends the game at once. *)
Claim(p) ==
  IF p \in inFlight THEN UNCHANGED <<game, inFlight, claims>>
  ELSE /\ inFlight' = inFlight \cup {p}
       /\ IF game.mode = "manual" THEN Finish(p) /\ UNCHANGED claims
          ELSE claims' = [claims EXCEPT ![p] = "sent"] /\ UNCHANGED game

OnInventoryChanged(p) ==
  IF Playing /\ p \in holds' THEN Claim(p)
  ELSE UNCHANGED <<game, inFlight, claims>>

-----------------------------------------------------------------------------
(* The first tick reads the environment and starts the game of the match. *)
Boot ==
  /\ up /\ game.mode = "unread"
  /\ game' = Fresh("match")
  /\ ready' = "sent"
  /\ UNCHANGED <<inFlight, claims, online, holds, up, left, verdict, told, overlooked>>

(* Mutant of OnPlayerJoin: the inventory is not looked at. *)
JoinUnseen(p) ==
  /\ up /\ game.mode # "unread"
  /\ p \notin online
  /\ Use("join")
  /\ online' = online \cup {p}
  /\ overlooked' = overlooked \ {p}
  /\ UNCHANGED <<game, inFlight, claims, holds, up, ready, verdict, told>>

(* placeNewPlayer; a login takes more ticks than one. *)
OnPlayerJoin(p) ==
  /\ up /\ game.mode # "unread"
  /\ p \notin online
  /\ Use("join")
  /\ online' = online \cup {p}
  /\ UNCHANGED holds
  /\ OnInventoryChanged(p)
  /\ overlooked' = overlooked \ {p}
  /\ UNCHANGED <<up, ready, verdict, told>>

(* PlayerList.remove: the game of a match ends with its last player. *)
OnPlayerLeave(p) ==
  /\ up /\ p \in online
  /\ online' = online \ {p}
  /\ IF game.mode = "match" /\ online' = {}
     THEN Finish("nobody") ELSE UNCHANGED game
  /\ UNCHANGED <<inFlight, claims, holds, up, ready, left, verdict, told, overlooked>>

(* Inventory.add, the one way of obtaining an item the mod sees ... *)
PickUp(p) ==
  /\ up /\ p \in online
  /\ holds' = holds \cup {p}
  /\ OnInventoryChanged(p)
  /\ overlooked' = overlooked \ {p}
  /\ UNCHANGED <<online, up, ready, left, verdict, told>>

(* ... and the ways it does not: a slot that is set, a throw, a death. *)
MoveItem(p) ==
  /\ up /\ p \in online
  /\ \/ p \notin holds /\ holds' = holds \cup {p} /\ overlooked' = overlooked \cup {p}
     \/ p \in holds /\ holds' = holds \ {p} /\ overlooked' = overlooked \ {p}
  /\ UNCHANGED <<game, inFlight, claims, online, up, ready, left, verdict, told>>

(* Mutant of HandleClaimResponse: whoever claimed is announced. *)
ShowClaimant(p) ==
  /\ up /\ claims[p] \in {"failed", "nobody"} \cup Players
  /\ claims' = [claims EXCEPT ![p] = "none"]
  /\ IF game.mode # "match" \/ claims[p] = "failed"
     THEN Release(p) /\ UNCHANGED game
     ELSE Finish(p) /\ UNCHANGED <<inFlight, overlooked>>
  /\ UNCHANGED <<online, holds, up, ready, left, verdict, told>>

(* Mutant of HandleClaimResponse: a failed claim stays in flight. *)
KeepFailed(p) ==
  /\ up /\ claims[p] \in {"failed", "nobody"} \cup Players
  /\ claims' = [claims EXCEPT ![p] = "none"]
  /\ IF game.mode # "match" THEN Release(p) /\ UNCHANGED game
     ELSE UNCHANGED <<inFlight, overlooked>>
          /\ IF claims[p] = "failed" THEN UNCHANGED game
             ELSE Finish(IF claims[p] = "nobody" THEN p ELSE claims[p])
  /\ UNCHANGED <<online, holds, up, ready, left, verdict, told>>

(* On the server thread, if the server still takes tasks.  An answer that   *)
(* names no winner is taken for a win of the claimant.                      *)
HandleClaimResponse(p) ==
  /\ up /\ claims[p] \in {"failed", "nobody"} \cup Players
  /\ claims' = [claims EXCEPT ![p] = "none"]
  /\ IF game.mode # "match" \/ claims[p] = "failed"
     THEN Release(p) /\ UNCHANGED game
     ELSE /\ Finish(IF claims[p] = "nobody" THEN p ELSE claims[p])
          /\ UNCHANGED <<inFlight, overlooked>>
  /\ UNCHANGED <<online, holds, up, ready, left, verdict, told>>

(* Mutant of EndResult: the server goes on after the result. *)
EndResultOnly ==
  /\ up /\ Running /\ game.ending
  /\ Clear
  /\ UNCHANGED <<claims, online, holds, up, ready, left, verdict, told, overlooked>>

(* tick(): the result has been shown long enough; a match's server halts. *)
EndResult ==
  /\ up /\ Running /\ game.ending
  /\ Clear
  /\ up' = (game.mode = "manual")
  /\ UNCHANGED <<claims, online, holds, ready, left, verdict, told, overlooked>>

(* tick(): timeoutTicks have passed. *)
TimeOut ==
  /\ up /\ Playing
  /\ Finish("nobody")
  /\ UNCHANGED <<inFlight, claims, online, holds, up, ready, left, verdict, told, overlooked>>

(* /rir start and /rir stop, by an operator or from the console *)
StartManual ==
  /\ up /\ game.mode # "unread"
  /\ Use("command")
  /\ \/ /\ game' = Fresh("manual")
        /\ inFlight' = {} /\ holds' = {}
     \/ \E p \in online :  \* has the new target already
        /\ game' = [Fresh("manual") EXCEPT !.ending = TRUE, !.shown = p]
        /\ inFlight' = {p} /\ holds' = {p}
  /\ overlooked' = {}
  /\ UNCHANGED <<claims, online, up, ready, verdict, told>>

StopManual ==
  /\ up /\ Running
  /\ Use("command")
  /\ Clear
  /\ UNCHANGED <<claims, online, holds, up, ready, verdict, told, overlooked>>

(* stopServer: SIGTERM, by the cleanup of the decided match. *)
StopServer ==
  /\ up /\ Verdict # "open"
  /\ Clear
  /\ up' = FALSE
  /\ UNCHANGED <<claims, online, holds, ready, left, verdict, told, overlooked>>

-----------------------------------------------------------------------------
(* The Worker and the Match Durable Object *)

(* The one ready POST arrives, or is lost. *)
ReadyArrives ==
  /\ ready = "sent"
  /\ ready' = "known"
  /\ UNCHANGED <<game, inFlight, claims, online, holds, up, left, verdict, told, overlooked>>

ReadyFails ==
  /\ ready = "sent"
  /\ Use("fail")
  /\ ready' = "lost"
  /\ UNCHANGED <<game, inFlight, claims, online, holds, up, verdict, told, overlooked>>

(* The first claim decides the match; its answer awaits the cleanup. *)
DecideClaim(p) ==
  /\ claims[p] = "sent"
  /\ DO!Decide(Match, p)
  /\ claims' = [claims EXCEPT ![p] = "stopping"]
  /\ UNCHANGED <<game, inFlight, online, holds, up, ready, left, overlooked>>

(* The stop has succeeded when the server is down; or it has failed. *)
AnswerClaim(p) ==
  /\ claims[p] = "stopping"
  /\ \/ ~up /\ UNCHANGED left
     \/ up /\ Use("fail")
  /\ DO!Tell(Match)
  /\ claims' = [claims EXCEPT ![p] = p]
  /\ UNCHANGED <<game, inFlight, online, holds, up, ready, overlooked>>

(* A later claim is answered with the verdict at once.  After an abort the  *)
(* record is gone (404), or still there if it could not be cleared.         *)
AnswerLate(p) ==
  /\ claims[p] = "sent" /\ Verdict # "open"
  /\ \/ /\ Verdict # "aborted"
        /\ claims' = [claims EXCEPT ![p] = Verdict]
        /\ UNCHANGED left
     \/ /\ Verdict = "aborted"
        /\ claims' = [claims EXCEPT ![p] = "failed"]
        /\ UNCHANGED left
     \/ /\ Verdict = "aborted"
        /\ Use("fail")
        /\ claims' = [claims EXCEPT ![p] = "nobody"]
  /\ DO!Tell(Match)
  /\ UNCHANGED <<game, inFlight, online, holds, up, ready, overlooked>>

(* No answer in 4 s, whether or not the request has got through. *)
ClaimTimesOut(p) ==
  /\ claims[p] \in {"sent", "stopping"}
  /\ claims[p] = "sent" => Use("fail")
  /\ claims[p] = "stopping" => UNCHANGED left
  /\ claims' = [claims EXCEPT ![p] = "failed"]
  /\ UNCHANGED <<game, inFlight, online, holds, up, ready, overlooked, verdict, told>>

(* A forfeit on the website, an exit or hard timeout reported by the Agent. *)
Forfeit(w) ==
  /\ DO!Decide(Match, w)
  /\ UNCHANGED <<game, inFlight, claims, online, holds, up, ready, left, overlooked>>

Abort ==
  /\ DO!Abort(Match)
  /\ UNCHANGED <<game, inFlight, claims, online, holds, up, ready, left, overlooked>>

-----------------------------------------------------------------------------
Init ==
  /\ game = Fresh("unread")
  /\ inFlight = {}
  /\ claims = [p \in Players |-> "none"]
  /\ online = {} /\ holds = {} /\ overlooked = {}
  /\ up = TRUE
  /\ ready = "unsent"
  /\ left = [fail |-> MaxLost, command |-> MaxCommands, join |-> MaxJoins]
  /\ DO!Init

Ticks == Boot \/ EndResult \/ TimeOut
Answers(p) == AnswerClaim(p) \/ AnswerLate(p) \/ ClaimTimesOut(p)

Next ==
  \/ Ticks \/ StartManual \/ StopManual \/ StopServer
  \/ ReadyArrives \/ ReadyFails \/ Abort
  \/ \E p \in Players :
       \/ OnPlayerJoin(p) \/ OnPlayerLeave(p) \/ PickUp(p) \/ MoveItem(p)
       \/ HandleClaimResponse(p) \/ DecideClaim(p) \/ Answers(p) \/ Forfeit(p)

(* The server ticks and runs its tasks; a request ends, if only in its      *)
(* timeout; the cleanup of a decided match stops the container.             *)
Fairness ==
  /\ WF_vars(Ticks) /\ WF_vars(StopServer)
  /\ \A p \in Players : WF_vars(HandleClaimResponse(p)) /\ WF_vars(Answers(p))

Spec == Init /\ [][Next]_vars /\ Fairness

-----------------------------------------------------------------------------
TypeOK ==
  /\ game \in [mode : {"unread", "none", "match", "manual"}, ending : BOOLEAN,
               shown : {"nothing", "nobody"} \cup Players]
  /\ game.ending = (game.shown # "nothing")
  /\ inFlight \subseteq Players /\ online \subseteq Players /\ holds \subseteq Players
  /\ claims \in [Players -> {"none", "sent", "stopping", "failed", "nobody"} \cup Players]
  /\ up \in BOOLEAN /\ overlooked \subseteq Players
  /\ ready \in {"unsent", "sent", "known", "lost"}
  /\ left \in [fail : 0..MaxLost, command : 0..MaxCommands, join : 0..MaxJoins]
  /\ verdict \in [{Match} -> {"open", "aborted"} \cup Players]

(* The mod believes the Match Durable Object, not its own scan              *)
(* (ARCHITECTURE.MD:280): whatever the order of claims, answers, losses and *)
(* forfeits, it announces the canonical winner of the match, or somebody    *)
(* who claimed a match that had been aborted.                               *)
ShownIsCanonical ==
  game.mode = "match" /\ game.shown \in Players => Verdict \in {game.shown, "aborted"}

(* Nobody is kept from claiming by a claim that no answer can come to.      *)
InFlightIsAnswered ==
  \A p \in inFlight : claims[p] # "none" \/ game.ending

(* A claim lasts until it is answered, also if the player leaves, joins     *)
(* again or loses the item meanwhile: while the game goes on, the only ones *)
(* on the server who have the item and no claim in flight are those who got *)
(* it past Inventory.add, or whose claim has failed, and whom the mod has   *)
(* not looked at since.  "Each server tick, scan online players'            *)
(* inventories" (ARCHITECTURE.MD:280) would leave out nobody.               *)
HoldersHaveClaimed ==
  game.mode = "match" /\ Playing => (online \cap holds) \ overlooked \subseteq inFlight

(* One result is announced: a claim's answer, the timeout and the last      *)
(* player leaving do not overwrite each other.                              *)
OneResult == [][game.ending /\ game'.ending /\ game'.mode = game.mode /\ left.command = left'.command
                  => game'.shown = game.shown]_vars

(* One container = one match (ARCHITECTURE.MD:598): the server of a match   *)
(* halts by itself, unless an operator has taken it over.                   *)
ServerHalts == game.mode = "match" ~> ~up \/ left.command < MaxCommands

(* On winner declared (from claim response or WebSocket from Match DO):     *)
(* show a 10-second result screen (ARCHITECTURE.MD:281).                    *)
WinnerIsShown == \A p \in Players :
  up /\ Playing /\ claims[p] = "stopping" ~> game.shown # "nothing"
=============================================================================
