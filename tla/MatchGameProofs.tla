--------------------------- MODULE MatchGameProofs ---------------------------
(***************************************************************************)
(* Theorems about module MatchGame: any number of players, losses, commands *)
(* and connections.                                                         *)
(***************************************************************************)
EXTENDS MatchGame, TLAPS

(* What is on its way to the mod is the verdict of the arbiter. *)
ClaimsAreTrue ==
  \A p \in Players :
    /\ claims[p] \in Players => Verdict = claims[p]
    /\ claims[p] = "stopping" => Verdict = p
    /\ claims[p] = "nobody" => Verdict = "aborted"

(* Before the first tick nobody plays. *)
NobodyYet == game.mode = "unread" => inFlight = {} /\ online = {}

GameInv ==
  /\ TypeOK /\ ClaimsAreTrue /\ NobodyYet
  /\ ShownIsCanonical /\ InFlightIsAnswered /\ HoldersHaveClaimed

-----------------------------------------------------------------------------
Games == [mode : {"unread", "none", "match", "manual"}, ending : BOOLEAN,
          shown : {"nothing", "nobody"} \cup Players]

LEMMA InitHolds == Init => GameInv
<1> SUFFICES ASSUME Init PROVE GameInv
  OBVIOUS
<1>1. game.mode = "unread" /\ game.shown = "nothing" /\ game.ending = FALSE
      /\ game \in [mode : {"unread", "none", "match", "manual"}, ending : BOOLEAN,
                   shown : {"nothing", "nobody"} \cup Players]
  BY DEF Init, Fresh
<1>2. \A q \in Players : claims[q] = "none"
  BY DEF Init
<1>3. TypeOK
  BY <1>1, GameAssumption DEF Init, DO!Init, TypeOK
<1>4. ClaimsAreTrue
  BY <1>2, GameAssumption DEF ClaimsAreTrue
<1> QED
  BY <1>1, <1>3, <1>4
     DEF Init, GameInv, NobodyYet, ShownIsCanonical, InFlightIsAnswered, HoldersHaveClaimed

LEMMA FreshTyped ==
  ASSUME NEW mode \in {"unread", "none", "match", "manual"}
  PROVE  Fresh(mode) \in Games /\ Fresh(mode).mode = mode /\ Fresh(mode).shown = "nothing"
         /\ Fresh(mode).ending = FALSE
BY DEF Fresh, Games

LEMMA FinishEnds ==
  ASSUME TypeOK, NEW result \in {"nobody"} \cup Players, Finish(result)
  PROVE  /\ game' \in Games /\ game'.mode = game.mode /\ game'.ending = TRUE
         /\ game'.shown = IF game.ending THEN game.shown ELSE result
BY GameAssumption DEF TypeOK, Finish, Games

LEMMA UseLeaves ==
  ASSUME TypeOK, NEW k \in {"fail", "command", "join"}, Use(k)
  PROVE  left' \in [fail : 0..MaxLost, command : 0..MaxCommands, join : 0..MaxJoins]
BY GameAssumption DEF TypeOK, Use

LEMMA ClaimMakes ==
  ASSUME TypeOK, NEW p \in Players, Claim(p)
  PROVE  /\ game' \in Games /\ game'.mode = game.mode
         /\ inFlight' = inFlight \cup {p}
         /\ \/ claims' = claims
            \/ claims' = [claims EXCEPT ![p] = "sent"] 
         /\ \/ game' = game
            \/ game.mode = "manual" /\ game'.ending = TRUE
         /\ p \in inFlight \/ claims'[p] = "sent" \/ game'.ending = TRUE
         /\ game'.ending = (game'.shown # "nothing")
<1>1. game \in Games /\ game.ending = (game.shown # "nothing")
  BY DEF TypeOK, Games
<1>2. CASE p \in inFlight
  BY <1>1, <1>2 DEF Claim
<1>3. CASE p \notin inFlight /\ game.mode = "manual"
  <2>1. Finish(p) /\ claims' = claims /\ inFlight' = inFlight \cup {p}
    BY <1>3 DEF Claim
  <2>2. /\ game' \in Games /\ game'.mode = game.mode /\ game'.ending = TRUE
        /\ game'.shown = IF game.ending THEN game.shown ELSE p
    BY <2>1, FinishEnds
  <2>3. game'.shown # "nothing"
    BY <1>1, <2>2, GameAssumption
  <2> QED
    BY <1>3, <2>1, <2>2, <2>3
<1>4. CASE p \notin inFlight /\ game.mode # "manual"
  <2>1. /\ claims' = [claims EXCEPT ![p] = "sent"] /\ claims'[p] = "sent"
        /\ game' = game /\ inFlight' = inFlight \cup {p}
    BY <1>4 DEF Claim, TypeOK
  <2> QED
    BY <1>1, <2>1
<1> QED
  BY <1>2, <1>3, <1>4

(* Looking at the inventory: a claim, unless one is under way. *)
LEMMA InventoryLooked ==
  ASSUME TypeOK, NEW p \in Players, OnInventoryChanged(p)
  PROVE  /\ game' \in Games /\ game'.mode = game.mode /\ game'.ending = (game'.shown # "nothing")
         /\ game' = game \/ (game.mode = "manual" /\ game'.ending = TRUE)
         /\ inFlight' \in {inFlight, inFlight \cup {p}}
         /\ Playing /\ p \in holds' => p \in inFlight'
         /\ p \in inFlight' \ inFlight => claims'[p] = "sent" \/ game'.ending = TRUE
         /\ claims' \in {claims, [claims EXCEPT ![p] = "sent"]}
         /\ game.mode = "unread" => inFlight' = inFlight
<1>1. CASE Playing /\ p \in holds'
  <2>1. Claim(p)
    BY <1>1 DEF OnInventoryChanged
  <2>2. game.mode # "unread"
    BY <1>1 DEF Playing, Running
  <2>3. p \in inFlight => game' = game /\ inFlight' = inFlight /\ claims' = claims
    BY <2>1 DEF Claim
  <2> QED
    BY <2>1, <2>2, <2>3, <1>1, ClaimMakes DEF TypeOK, Games
<1>2. CASE ~(Playing /\ p \in holds')
  BY <1>2 DEF OnInventoryChanged, TypeOK, Games
<1> QED
  BY <1>1, <1>2

(* A player's item or presence has changed, and the mod looks. *)
LEMMA LookKeeps ==
  ASSUME GameInv, NEW p \in Players, OnInventoryChanged(p),
         verdict' = verdict, up' = up, ready' = ready,
         left' \in [fail : 0..MaxLost, command : 0..MaxCommands, join : 0..MaxJoins],
         online' \subseteq Players, holds' \subseteq Players,
         game.mode = "unread" => online' = online,
         online' \cap holds' \subseteq (online \cap holds) \cup {p},
         p \in online' \cap holds' => p \in holds',
         overlooked' = overlooked \ {p}
  PROVE  GameInv'
<1>1. /\ TypeOK /\ ClaimsAreTrue /\ NobodyYet /\ ShownIsCanonical /\ InFlightIsAnswered
      /\ HoldersHaveClaimed
  BY DEF GameInv
<1>2. /\ game' \in Games /\ game'.mode = game.mode /\ game'.ending = (game'.shown # "nothing")
      /\ game' = game \/ (game.mode = "manual" /\ game'.ending = TRUE)
      /\ inFlight' \in {inFlight, inFlight \cup {p}}
      /\ Playing /\ p \in holds' => p \in inFlight'
      /\ p \in inFlight' \ inFlight => claims'[p] = "sent" \/ game'.ending = TRUE
      /\ claims' \in {claims, [claims EXCEPT ![p] = "sent"]}
      /\ game.mode = "unread" => inFlight' = inFlight
  BY <1>1, InventoryLooked
<1>3. claims' \in [Players -> {"none", "sent", "stopping", "failed", "nobody"} \cup Players]
  BY <1>1, <1>2 DEF TypeOK
<1>4. \A q \in Players : claims'[q] = claims[q] \/ claims'[q] = "sent"
  BY <1>1, <1>2 DEF TypeOK
<1>5. TypeOK'
  BY <1>1, <1>2, <1>3 DEF TypeOK, Games
<1>6. ClaimsAreTrue'
  BY <1>1, <1>4, GameAssumption DEF ClaimsAreTrue, Verdict
<1>7. NobodyYet'
  BY <1>1, <1>2 DEF NobodyYet
<1>8. ShownIsCanonical'
  BY <1>1, <1>2 DEF ShownIsCanonical, Verdict
<1>9. InFlightIsAnswered'
  BY <1>1, <1>2, <1>4 DEF InFlightIsAnswered, TypeOK
<1>10. HoldersHaveClaimed'
  BY <1>1, <1>2 DEF HoldersHaveClaimed, Playing, Running
<1> QED
  BY <1>5, <1>6, <1>7, <1>8, <1>9, <1>10 DEF GameInv

LEMMA OnPlayerJoinKeeps ==
  ASSUME GameInv, NEW p \in Players, OnPlayerJoin(p)
  PROVE  GameInv'
BY LookKeeps, UseLeaves DEF OnPlayerJoin, GameInv, TypeOK

LEMMA PickUpKeeps ==
  ASSUME GameInv, NEW p \in Players, PickUp(p)
  PROVE  GameInv'
BY LookKeeps DEF PickUp, GameInv, TypeOK, NobodyYet

-----------------------------------------------------------------------------
(* The answers *)

LEMMA HandleClaimResponseKeeps ==
  ASSUME GameInv, NEW p \in Players, HandleClaimResponse(p)
  PROVE  GameInv'
<1>1. /\ TypeOK /\ ClaimsAreTrue /\ NobodyYet /\ ShownIsCanonical /\ InFlightIsAnswered
      /\ HoldersHaveClaimed
  BY DEF GameInv
<1>2. /\ claims' \in [Players -> {"none", "sent", "stopping", "failed", "nobody"} \cup Players]
      /\ claims'[p] = "none" /\ \A q \in Players \ {p} : claims'[q] = claims[q]
  BY <1>1 DEF HandleClaimResponse, TypeOK
<1>3. verdict' = verdict /\ left' = left /\ online' = online /\ holds' = holds
      /\ up' = up /\ ready' = ready
  BY DEF HandleClaimResponse
<1>4. ClaimsAreTrue'
  BY <1>1, <1>2, <1>3, GameAssumption DEF ClaimsAreTrue, Verdict
<1>5. CASE game.mode # "match" \/ claims[p] = "failed"
  <2>1. inFlight' = inFlight \ {p} /\ game' = game /\ overlooked' = overlooked \cup (holds \cap {p})
    BY <1>5 DEF HandleClaimResponse, Release
  <2>2. TypeOK' /\ NobodyYet' /\ ShownIsCanonical'
    BY <1>1, <1>2, <1>3, <2>1 DEF TypeOK, NobodyYet, ShownIsCanonical, Verdict
  <2>3. InFlightIsAnswered'
    BY <1>1, <1>2, <2>1 DEF InFlightIsAnswered, TypeOK
  <2>4. HoldersHaveClaimed'
    BY <1>1, <1>3, <2>1 DEF HoldersHaveClaimed, Playing, Running
  <2> QED
    BY <1>4, <2>2, <2>3, <2>4 DEF GameInv
<1>6. CASE game.mode = "match" /\ claims[p] # "failed"
  <2>1. PICK result \in Players : result = IF claims[p] = "nobody" THEN p ELSE claims[p]
    BY <1>6 DEF HandleClaimResponse
  <2>2. Finish(result) /\ inFlight' = inFlight /\ overlooked' = overlooked
    BY <1>6, <2>1 DEF HandleClaimResponse
  <2>3. /\ game' \in Games /\ game'.mode = game.mode /\ game'.ending = TRUE
        /\ game'.shown = IF game.ending THEN game.shown ELSE result
    BY <1>1, <2>2, FinishEnds
  <2>4. Verdict \in {result, "aborted"}
    BY <1>1, <2>1, GameAssumption DEF ClaimsAreTrue, HandleClaimResponse
  <2>5. TypeOK'
    BY <1>1, <1>2, <1>3, <2>2, <2>3, GameAssumption DEF TypeOK, Games
  <2>6. ShownIsCanonical'
    BY <1>1, <1>3, <2>3, <2>4 DEF ShownIsCanonical, Verdict
  <2>7. NobodyYet' /\ InFlightIsAnswered' /\ HoldersHaveClaimed'
    BY <1>6, <2>3 DEF NobodyYet, InFlightIsAnswered, HoldersHaveClaimed, Playing
  <2> QED
    BY <1>4, <2>5, <2>6, <2>7 DEF GameInv
<1> QED
  BY <1>5, <1>6

LEMMA StartManualKeeps ==
  ASSUME GameInv, StartManual
  PROVE  GameInv'
<1>1. TypeOK /\ ClaimsAreTrue
  BY DEF GameInv
<1>2. left' \in [fail : 0..MaxLost, command : 0..MaxCommands, join : 0..MaxJoins]
  BY <1>1, UseLeaves DEF StartManual
<1>3. /\ game' \in Games /\ game'.mode = "manual" /\ game'.ending = (game'.shown # "nothing")
      /\ inFlight' \subseteq Players /\ holds' \subseteq Players
      /\ inFlight' # {} => game'.ending = TRUE
  <2>1. CASE game' = Fresh("manual") /\ inFlight' = {} /\ holds' = {}
    BY <2>1, FreshTyped
  <2>2. CASE \E q \in online : /\ game' = [Fresh("manual") EXCEPT !.ending = TRUE, !.shown = q]
                               /\ inFlight' = {q} /\ holds' = {q}
    <3>1. PICK q \in Players : /\ game' = [Fresh("manual") EXCEPT !.ending = TRUE, !.shown = q]
                               /\ inFlight' = {q} /\ holds' = {q}
      BY <2>2, <1>1 DEF TypeOK
    <3>2. game' \in Games /\ game'.mode = "manual" /\ game'.ending = TRUE /\ game'.shown = q
      BY <3>1, FreshTyped DEF Games
    <3> QED
      BY <3>1, <3>2, GameAssumption
  <2> QED
    BY <2>1, <2>2 DEF StartManual
<1>4. /\ verdict' = verdict /\ claims' = claims /\ online' = online /\ up' = up /\ ready' = ready
      /\ overlooked' = {}
  BY DEF StartManual
<1>5. TypeOK'
  BY <1>1, <1>2, <1>3, <1>4 DEF TypeOK, Games
<1>6. ClaimsAreTrue'
  BY <1>1, <1>2, <1>4 DEF ClaimsAreTrue, Verdict
<1>7. NobodyYet' /\ ShownIsCanonical' /\ InFlightIsAnswered' /\ HoldersHaveClaimed'
  BY <1>3 DEF NobodyYet, ShownIsCanonical, InFlightIsAnswered, HoldersHaveClaimed
<1> QED
  BY <1>5, <1>6, <1>7 DEF GameInv

-----------------------------------------------------------------------------
(* The other steps, a conjunct of the invariant at a time. *)

LEMMA BootKeeps ==
  ASSUME GameInv, Boot
  PROVE  GameInv'
<1> USE GameAssumption DEF GameInv, TypeOK, Boot
<1>1. TypeOK'
  BY FreshTyped DEF Games, Playing, Running, Verdict
<1>2. ClaimsAreTrue'
  BY FreshTyped DEF ClaimsAreTrue, Verdict
<1>3. NobodyYet'
  BY FreshTyped DEF NobodyYet, Playing, Running
<1>4. ShownIsCanonical'
  BY FreshTyped DEF ShownIsCanonical, ClaimsAreTrue, Verdict
<1>5. InFlightIsAnswered'
  BY FreshTyped DEF InFlightIsAnswered, NobodyYet, Verdict
<1>6. HoldersHaveClaimed'
  BY FreshTyped DEF HoldersHaveClaimed, NobodyYet, Playing, Running, Verdict
<1> QED
  BY <1>1, <1>2, <1>3, <1>4, <1>5, <1>6

LEMMA OnPlayerLeaveKeeps ==
  ASSUME GameInv, NEW p \in Players, OnPlayerLeave(p)
  PROVE  GameInv'
<1> USE GameAssumption DEF GameInv, TypeOK, OnPlayerLeave
<1>1. TypeOK'
  BY FinishEnds DEF Games, Playing, Running, Verdict
<1>2. ClaimsAreTrue'
  BY FinishEnds DEF ClaimsAreTrue, Verdict
<1>3. NobodyYet'
  BY FinishEnds DEF NobodyYet, Playing, Running
<1>4. ShownIsCanonical'
  <2>1. CASE game.mode = "match" /\ Finish("nobody")
    <3>1. game'.mode = game.mode /\ game'.shown = (IF game.ending THEN game.shown ELSE "nobody")
      BY <2>1, FinishEnds
    <3> QED
      BY <3>1 DEF ShownIsCanonical, Verdict
  <2>2. CASE UNCHANGED game
    BY <2>2 DEF ShownIsCanonical, Verdict
  <2> QED
    BY <2>1, <2>2
<1>5. InFlightIsAnswered'
  BY FinishEnds DEF InFlightIsAnswered, NobodyYet, Verdict
<1>6. HoldersHaveClaimed'
  BY FinishEnds DEF HoldersHaveClaimed, NobodyYet, Playing, Running, Verdict
<1> QED
  BY <1>1, <1>2, <1>3, <1>4, <1>5, <1>6

LEMMA MoveItemKeeps ==
  ASSUME GameInv, NEW p \in Players, MoveItem(p)
  PROVE  GameInv'
<1> USE GameAssumption DEF GameInv, TypeOK, MoveItem
<1>1. TypeOK'
  BY DEF Games, Playing, Running, Verdict
<1>2. ClaimsAreTrue'
  BY DEF ClaimsAreTrue, Verdict
<1>3. NobodyYet'
  BY DEF NobodyYet, Playing, Running
<1>4. ShownIsCanonical'
  BY DEF ShownIsCanonical, ClaimsAreTrue, Verdict
<1>5. InFlightIsAnswered'
  BY DEF InFlightIsAnswered, NobodyYet, Verdict
<1>6. HoldersHaveClaimed'
  BY DEF HoldersHaveClaimed, NobodyYet, Playing, Running, Verdict
<1> QED
  BY <1>1, <1>2, <1>3, <1>4, <1>5, <1>6

LEMMA EndResultKeeps ==
  ASSUME GameInv, EndResult
  PROVE  GameInv'
<1> USE GameAssumption DEF GameInv, TypeOK, EndResult, Clear
<1>1. TypeOK'
  BY FreshTyped DEF Games, Playing, Running, Verdict
<1>2. ClaimsAreTrue'
  BY FreshTyped DEF ClaimsAreTrue, Verdict
<1>3. NobodyYet'
  BY FreshTyped DEF NobodyYet, Playing, Running
<1>4. ShownIsCanonical'
  BY FreshTyped DEF ShownIsCanonical, ClaimsAreTrue, Verdict
<1>5. InFlightIsAnswered'
  BY FreshTyped DEF InFlightIsAnswered, NobodyYet, Verdict
<1>6. HoldersHaveClaimed'
  BY FreshTyped DEF HoldersHaveClaimed, NobodyYet, Playing, Running, Verdict
<1> QED
  BY <1>1, <1>2, <1>3, <1>4, <1>5, <1>6

LEMMA TimeOutKeeps ==
  ASSUME GameInv, TimeOut
  PROVE  GameInv'
<1> USE GameAssumption DEF GameInv, TypeOK, TimeOut
<1>1. TypeOK'
  BY FinishEnds DEF Games, Playing, Running, Verdict
<1>2. ClaimsAreTrue'
  BY FinishEnds DEF ClaimsAreTrue, Verdict
<1>3. NobodyYet'
  BY FinishEnds DEF NobodyYet, Playing, Running
<1>4. ShownIsCanonical'
  BY FinishEnds DEF ShownIsCanonical, ClaimsAreTrue, Verdict
<1>5. InFlightIsAnswered'
  BY FinishEnds DEF InFlightIsAnswered, NobodyYet, Verdict
<1>6. HoldersHaveClaimed'
  BY FinishEnds DEF HoldersHaveClaimed, NobodyYet, Playing, Running, Verdict
<1> QED
  BY <1>1, <1>2, <1>3, <1>4, <1>5, <1>6

LEMMA StopManualKeeps ==
  ASSUME GameInv, StopManual
  PROVE  GameInv'
<1> USE GameAssumption DEF GameInv, TypeOK, StopManual, Clear
<1>1. TypeOK'
  BY FreshTyped, UseLeaves DEF Games, Playing, Running, Verdict
<1>2. ClaimsAreTrue'
  BY FreshTyped, UseLeaves DEF ClaimsAreTrue, Verdict
<1>3. NobodyYet'
  BY FreshTyped, UseLeaves DEF NobodyYet, Playing, Running
<1>4. ShownIsCanonical'
  BY FreshTyped, UseLeaves DEF ShownIsCanonical, ClaimsAreTrue, Verdict
<1>5. InFlightIsAnswered'
  BY FreshTyped, UseLeaves DEF InFlightIsAnswered, NobodyYet, Verdict
<1>6. HoldersHaveClaimed'
  BY FreshTyped, UseLeaves DEF HoldersHaveClaimed, NobodyYet, Playing, Running, Verdict
<1> QED
  BY <1>1, <1>2, <1>3, <1>4, <1>5, <1>6

LEMMA StopServerKeeps ==
  ASSUME GameInv, StopServer
  PROVE  GameInv'
<1> USE GameAssumption DEF GameInv, TypeOK, StopServer, Clear
<1>1. TypeOK'
  BY FreshTyped DEF Games, Playing, Running, Verdict
<1>2. ClaimsAreTrue'
  BY FreshTyped DEF ClaimsAreTrue, Verdict
<1>3. NobodyYet'
  BY FreshTyped DEF NobodyYet, Playing, Running
<1>4. ShownIsCanonical'
  BY FreshTyped DEF ShownIsCanonical, ClaimsAreTrue, Verdict
<1>5. InFlightIsAnswered'
  BY FreshTyped DEF InFlightIsAnswered, NobodyYet, Verdict
<1>6. HoldersHaveClaimed'
  BY FreshTyped DEF HoldersHaveClaimed, NobodyYet, Playing, Running, Verdict
<1> QED
  BY <1>1, <1>2, <1>3, <1>4, <1>5, <1>6

LEMMA ReadyArrivesKeeps ==
  ASSUME GameInv, ReadyArrives
  PROVE  GameInv'
<1> USE GameAssumption DEF GameInv, TypeOK, ReadyArrives
<1>1. TypeOK'
  BY DEF Games, Playing, Running, Verdict
<1>2. ClaimsAreTrue'
  BY DEF ClaimsAreTrue, Verdict
<1>3. NobodyYet'
  BY DEF NobodyYet, Playing, Running
<1>4. ShownIsCanonical'
  BY DEF ShownIsCanonical, ClaimsAreTrue, Verdict
<1>5. InFlightIsAnswered'
  BY DEF InFlightIsAnswered, NobodyYet, Verdict
<1>6. HoldersHaveClaimed'
  BY DEF HoldersHaveClaimed, NobodyYet, Playing, Running, Verdict
<1> QED
  BY <1>1, <1>2, <1>3, <1>4, <1>5, <1>6

LEMMA ReadyFailsKeeps ==
  ASSUME GameInv, ReadyFails
  PROVE  GameInv'
<1> USE GameAssumption DEF GameInv, TypeOK, ReadyFails
<1>1. TypeOK'
  BY UseLeaves DEF Games, Playing, Running, Verdict
<1>2. ClaimsAreTrue'
  BY UseLeaves DEF ClaimsAreTrue, Verdict
<1>3. NobodyYet'
  BY UseLeaves DEF NobodyYet, Playing, Running
<1>4. ShownIsCanonical'
  BY UseLeaves DEF ShownIsCanonical, ClaimsAreTrue, Verdict
<1>5. InFlightIsAnswered'
  BY UseLeaves DEF InFlightIsAnswered, NobodyYet, Verdict
<1>6. HoldersHaveClaimed'
  BY UseLeaves DEF HoldersHaveClaimed, NobodyYet, Playing, Running, Verdict
<1> QED
  BY <1>1, <1>2, <1>3, <1>4, <1>5, <1>6

LEMMA DecideClaimKeeps ==
  ASSUME GameInv, NEW p \in Players, DecideClaim(p)
  PROVE  GameInv'
<1> USE GameAssumption DEF GameInv, TypeOK, DecideClaim, DO!Decide
<1>1. TypeOK'
  BY DEF Games, Playing, Running, Verdict
<1>2. ClaimsAreTrue'
  BY DEF ClaimsAreTrue, Verdict
<1>3. NobodyYet'
  BY DEF NobodyYet, Playing, Running
<1>4. ShownIsCanonical'
  BY DEF ShownIsCanonical, ClaimsAreTrue, Verdict
<1>5. InFlightIsAnswered'
  BY DEF InFlightIsAnswered, NobodyYet, Verdict
<1>6. HoldersHaveClaimed'
  BY DEF HoldersHaveClaimed, NobodyYet, Playing, Running, Verdict
<1> QED
  BY <1>1, <1>2, <1>3, <1>4, <1>5, <1>6

LEMMA AnswerClaimKeeps ==
  ASSUME GameInv, NEW p \in Players, AnswerClaim(p)
  PROVE  GameInv'
<1> USE GameAssumption DEF GameInv, TypeOK, AnswerClaim, DO!Tell
<1>1. TypeOK'
  BY UseLeaves DEF Games, Playing, Running, Verdict
<1>2. ClaimsAreTrue'
  BY UseLeaves DEF ClaimsAreTrue, Verdict
<1>3. NobodyYet'
  BY UseLeaves DEF NobodyYet, Playing, Running
<1>4. ShownIsCanonical'
  BY UseLeaves DEF ShownIsCanonical, ClaimsAreTrue, Verdict
<1>5. InFlightIsAnswered'
  BY UseLeaves DEF InFlightIsAnswered, NobodyYet, Verdict
<1>6. HoldersHaveClaimed'
  BY UseLeaves DEF HoldersHaveClaimed, NobodyYet, Playing, Running, Verdict
<1> QED
  BY <1>1, <1>2, <1>3, <1>4, <1>5, <1>6

LEMMA AnswerLateKeeps ==
  ASSUME GameInv, NEW p \in Players, AnswerLate(p)
  PROVE  GameInv'
<1> USE GameAssumption DEF GameInv, TypeOK, AnswerLate, DO!Tell
<1>1. TypeOK'
  BY UseLeaves DEF Games, Playing, Running, Verdict
<1>2. ClaimsAreTrue'
  BY UseLeaves DEF ClaimsAreTrue, Verdict
<1>3. NobodyYet'
  BY UseLeaves DEF NobodyYet, Playing, Running
<1>4. ShownIsCanonical'
  BY UseLeaves DEF ShownIsCanonical, ClaimsAreTrue, Verdict
<1>5. InFlightIsAnswered'
  BY UseLeaves DEF InFlightIsAnswered, NobodyYet, Verdict
<1>6. HoldersHaveClaimed'
  BY UseLeaves DEF HoldersHaveClaimed, NobodyYet, Playing, Running, Verdict
<1> QED
  BY <1>1, <1>2, <1>3, <1>4, <1>5, <1>6

LEMMA ClaimTimesOutKeeps ==
  ASSUME GameInv, NEW p \in Players, ClaimTimesOut(p)
  PROVE  GameInv'
<1> USE GameAssumption DEF GameInv, TypeOK, ClaimTimesOut
<1>1. TypeOK'
  BY UseLeaves DEF Games, Playing, Running, Verdict
<1>2. ClaimsAreTrue'
  BY UseLeaves DEF ClaimsAreTrue, Verdict
<1>3. NobodyYet'
  BY UseLeaves DEF NobodyYet, Playing, Running
<1>4. ShownIsCanonical'
  BY UseLeaves DEF ShownIsCanonical, ClaimsAreTrue, Verdict
<1>5. InFlightIsAnswered'
  BY UseLeaves DEF InFlightIsAnswered, NobodyYet, Verdict
<1>6. HoldersHaveClaimed'
  BY UseLeaves DEF HoldersHaveClaimed, NobodyYet, Playing, Running, Verdict
<1> QED
  BY <1>1, <1>2, <1>3, <1>4, <1>5, <1>6

LEMMA ForfeitKeeps ==
  ASSUME GameInv, NEW p \in Players, Forfeit(p)
  PROVE  GameInv'
<1> USE GameAssumption DEF GameInv, TypeOK, Forfeit, DO!Decide
<1>1. TypeOK'
  BY DEF Games, Playing, Running, Verdict
<1>2. ClaimsAreTrue'
  BY DEF ClaimsAreTrue, Verdict
<1>3. NobodyYet'
  BY DEF NobodyYet, Playing, Running
<1>4. ShownIsCanonical'
  BY DEF ShownIsCanonical, ClaimsAreTrue, Verdict
<1>5. InFlightIsAnswered'
  BY DEF InFlightIsAnswered, NobodyYet, Verdict
<1>6. HoldersHaveClaimed'
  BY DEF HoldersHaveClaimed, NobodyYet, Playing, Running, Verdict
<1> QED
  BY <1>1, <1>2, <1>3, <1>4, <1>5, <1>6

LEMMA AbortKeeps ==
  ASSUME GameInv, Abort
  PROVE  GameInv'
<1> USE GameAssumption DEF GameInv, TypeOK, Abort, DO!Abort
<1>1. TypeOK'
  BY DEF Games, Playing, Running, Verdict
<1>2. ClaimsAreTrue'
  BY DEF ClaimsAreTrue, Verdict
<1>3. NobodyYet'
  BY DEF NobodyYet, Playing, Running
<1>4. ShownIsCanonical'
  BY DEF ShownIsCanonical, ClaimsAreTrue, Verdict
<1>5. InFlightIsAnswered'
  BY DEF InFlightIsAnswered, NobodyYet, Verdict
<1>6. HoldersHaveClaimed'
  BY DEF HoldersHaveClaimed, NobodyYet, Playing, Running, Verdict
<1> QED
  BY <1>1, <1>2, <1>3, <1>4, <1>5, <1>6

LEMMA NextKeeps == GameInv /\ [Next]_vars => GameInv'
<1> SUFFICES ASSUME GameInv, [Next]_vars PROVE GameInv'
  OBVIOUS
<1>1. CASE UNCHANGED vars
  BY <1>1 DEF vars, GameInv, TypeOK, ClaimsAreTrue, NobodyYet, ShownIsCanonical, InFlightIsAnswered,
              HoldersHaveClaimed, Playing, Running, Verdict
<1>2. CASE Next
  BY <1>2, BootKeeps, OnPlayerJoinKeeps, OnPlayerLeaveKeeps, PickUpKeeps, MoveItemKeeps,
     HandleClaimResponseKeeps, EndResultKeeps, TimeOutKeeps, StartManualKeeps, StopManualKeeps,
     StopServerKeeps, ReadyArrivesKeeps, ReadyFailsKeeps, DecideClaimKeeps, AnswerClaimKeeps,
     AnswerLateKeeps, ClaimTimesOutKeeps, ForfeitKeeps, AbortKeeps DEF Next, Ticks, Answers
<1> QED
  BY <1>1, <1>2

-----------------------------------------------------------------------------
THEOREM Invariance == Spec => []GameInv
<1>1. Init => GameInv
  BY InitHolds
<1>2. GameInv /\ [Next]_vars => GameInv'
  BY NextKeeps
<1> QED
  BY <1>1, <1>2, PTL DEF Spec

(* Types: a result is shown exactly while the game is ending. *)
THEOREM TypeCorrect == Spec => []TypeOK
<1>1. GameInv => TypeOK
  BY DEF GameInv
<1> QED
  BY <1>1, Invariance, PTL

(* The mod announces the winner the arbiter has decided for, whatever the   *)
(* order of claims, answers, losses, forfeits and commands                  *)
(* (ItemObtainObserver.finish, ARCHITECTURE.MD:280).                        *)
THEOREM ShownCorrect == Spec => []ShownIsCanonical
<1>1. GameInv => ShownIsCanonical
  BY DEF GameInv
<1> QED
  BY <1>1, Invariance, PTL

(* claimsInFlight holds nobody whose claim has been answered, lost or       *)
(* dropped, while the game goes on.                                         *)
THEOREM InFlightCorrect == Spec => []InFlightIsAnswered
<1>1. GameInv => InFlightIsAnswered
  BY DEF GameInv
<1> QED
  BY <1>1, Invariance, PTL

(* The players on the server with the item and without a claim in flight    *)
(* are those the mod has not looked at since they got it past Inventory.add *)
(* or since their claim failed; not only while nothing fails (claim,        *)
(* handleClaimResponse).                                                    *)
THEOREM HoldersCorrect == Spec => []HoldersHaveClaimed
<1>1. GameInv => HoldersHaveClaimed
  BY DEF GameInv
<1> QED
  BY <1>1, Invariance, PTL

-----------------------------------------------------------------------------
(* A step that ends a game that is ending already announces nothing new.    *)
LEMMA FinishedStays ==
  ASSUME game.ending, NEW result, Finish(result)
  PROVE  game' = game
BY DEF Finish

LEMMA CommandsCount ==
  ASSUME TypeOK, Use("command")
  PROVE  left'.command # left.command
BY GameAssumption DEF TypeOK, Use

LEMMA StepsShowOnce ==
  ASSUME TypeOK, [Next]_vars, game.ending, game'.ending, game'.mode = game.mode,
         left.command = left'.command
  PROVE  game'.shown = game.shown
<1>1. CASE Boot \/ EndResult \/ StopServer
  BY <1>1, FreshTyped DEF Boot, EndResult, StopServer, Clear
<1>2. CASE StartManual \/ StopManual
  BY <1>2, CommandsCount DEF StartManual, StopManual
<1>3. CASE TimeOut \/ \E p \in Players : OnPlayerLeave(p) \/ HandleClaimResponse(p)
  BY <1>3, FinishedStays DEF TimeOut, Playing, OnPlayerLeave, HandleClaimResponse
<1>4. CASE \E p \in Players : OnPlayerJoin(p) \/ PickUp(p)
  BY <1>4 DEF OnPlayerJoin, PickUp, OnInventoryChanged, Playing
<1>5. CASE \/ ReadyArrives \/ ReadyFails \/ Abort
           \/ \E p \in Players : MoveItem(p) \/ DecideClaim(p) \/ Answers(p) \/ Forfeit(p)
  BY <1>5 DEF ReadyArrives, ReadyFails, Abort, MoveItem, DecideClaim, Answers, AnswerClaim, AnswerLate,
              ClaimTimesOut, Forfeit
<1>6. CASE UNCHANGED vars
  BY <1>6 DEF vars
<1> QED
  BY <1>1, <1>2, <1>3, <1>4, <1>5, <1>6 DEF Next, Ticks

(* finish() takes the first result of a game and no other one: in every     *)
(* step of every behaviour.                                                 *)
THEOREM OneResultShown == Spec => OneResult
<1>1. TypeOK /\ [Next]_vars =>
        [game.ending /\ game'.ending /\ game'.mode = game.mode /\ left.command = left'.command
           => game'.shown = game.shown]_vars
  BY StepsShowOnce
<1> QED
  BY <1>1, TypeCorrect, PTL DEF Spec, OneResult
=============================================================================
