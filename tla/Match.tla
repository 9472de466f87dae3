-------------------------------- MODULE Match --------------------------------
(***************************************************************************)
(* The Match Durable Objects (sisr-workers/worker/match.ts), one per match *)
(* id, with everything they share: the rows of D1, the route:<uuid> keys   *)
(* of KV and the match containers behind the Agent.                        *)
(*                                                                         *)
(* Claim, forfeit, exit and the fatal-error cleanup run inside             *)
(* blockConcurrencyWhile: `op` is the one that is running, and while it    *)
(* runs the object is delivered nothing else, neither a new request nor    *)
(* the continuation of /ready or /internal/seed, which do not block.  A    *)
(* call that leaves the object (a D1 batch, a KV put or delete, an Agent   *)
(* stop) is an element of `net` from the moment it is issued to the moment *)
(* it takes effect or is lost, so it may land after the object that issued *)
(* it has moved on, failed or been reset.                                  *)
(*                                                                         *)
(* `Faults` says which parts of the platform may fail.                     *)
(***************************************************************************)
EXTENDS Integers, FiniteSets

CONSTANTS
  Matches,    \* match ids
  Players,    \* Minecraft uuids
  PlayersOf,  \* the two players of each match
  None,       \* SQL NULL / JSON null
  Faults,     \* what may fail in this instance, a subset of FaultKinds
  MaxFaults   \* and how often, in all

FaultKinds ==
  {"d1",      \* a D1 call fails, or commits and its answer is lost
   "kv",      \* a KV put or delete fails
   "storage", \* a write to the object's own storage fails
   "agent",   \* a call to or from the Agent is lost
   "hub",     \* the broadcast to the Velocity hub object fails
   "queue",   \* a KV put of the queue's formMatch fails
   "reset",   \* the object is evicted or crashes between two steps
   "late"}    \* a call is given up on by its caller and may land afterwards

ASSUME MatchAssumption ==
  /\ IsFiniteSet(Matches)
  /\ IsFiniteSet(Players)
  /\ None \notin Players
  /\ None \notin Matches
  /\ Players \cap {"open", "aborted", "ended"} = {}
  /\ PlayersOf \in [Matches -> SUBSET Players]
  /\ \A m \in Matches : Cardinality(PlayersOf[m]) = 2
  /\ Faults \subseteq FaultKinds
  /\ MaxFaults \in Nat

VARIABLES
  meta,       \* DO storage: the 'meta' record of each match
  op,         \* the blockConcurrencyWhile callback each object is running
  rdy,        \* progress of the container's one POST /ready
  fatal,      \* a failed request waits to run cleanupAfterFatalError
  seed,       \* progress of the queue's one POST /internal/seed
  before,     \* eloBefore of each player, as the queue entry carried it
  row,        \* D1: the row of matches with its match_players
  users,      \* D1: users
  route,      \* KV: route:<uuid>
  net,        \* calls in flight
  container,  \* the container of each match
  exits,      \* exit notifications of the Agent are in flight
  faults,     \* failures so far
  told,       \* history: every verdict a client or the mod has been given
  decided     \* history: every winner D1 has recorded for the match

objectVars == <<meta, op, rdy, fatal>>
queueVars  == <<seed, before>>
d1Vars     == <<row, users, decided>>
agentVars  == <<container, exits>>
vars == <<objectVars, queueVars, d1Vars, route, net, agentVars, faults, told>>

-----------------------------------------------------------------------------
(* Values *)

Winners == Players \cup {None}
NoMeta  == [exists |-> FALSE, ready |-> FALSE, winner |-> None, ended |-> FALSE]
NewMeta == [NoMeta EXCEPT !.exists = TRUE]
NoRow   == [exists |-> FALSE, winner |-> None, rated |-> {}]
NewRow  == [NoRow EXCEPT !.exists = TRUE]
NoRoute == [match |-> None, ready |-> FALSE]
Idle    == [kind |-> "none", pc |-> "idle", who |-> None, winner |-> None]

(* A rating is the set of matches whose result it contains: the code writes *)
(* eloBefore + delta, a value computed from the rating the player had when  *)
(* queueing.                                                                *)
Metas   == [exists : BOOLEAN, ready : BOOLEAN, winner : Winners, ended : BOOLEAN]
Rows    == [exists : BOOLEAN, winner : Winners, rated : SUBSET Players]
Users   == [matches : Nat, wins : Nat, elo : SUBSET Matches]
Routes  == [match : Matches \cup {None}, ready : BOOLEAN]
Ops     == [kind : {"none", "claim", "forfeit", "exit", "fatal"},
            pc : {"idle", "check", "persist", "persisted", "recorded", "closing", "cleanup"},
            who : Winners, winner : Winners]
Calls   == [match : Matches, by : {"match", "queue"},
            do : {"insert", "commit", "drop", "route", "unroute", "stop"},
            who : Winners]
Verdicts == Players \cup {"aborted", "ended"}

ReadyPoints == {"none", "refused", "routing", "rejected", "notify", "done"}
SeedPoints  == {"none", "allocated", "inserting", "inserted", "seeded", "formed",
                "unallocated", "failed", "abandoned"}

Call(m, by, do, who) == [match |-> m, by |-> by, do |-> do, who |-> who]

ServiceOf(c) == CASE c.do \in {"insert", "commit", "drop"} -> "d1"
                  [] c.do \in {"route", "unroute"} -> "kv"
                  [] OTHER -> "agent"

InFlight(m, dos) == {c \in net : c.match = m /\ c.by = "match" /\ c.do \in dos}

Opponent(m, p) == CHOOSE q \in PlayersOf[m] : q # p

-----------------------------------------------------------------------------
TypeOK ==
  /\ meta \in [Matches -> Metas]
  /\ op \in [Matches -> Ops]
  /\ rdy \in [Matches -> ReadyPoints]
  /\ fatal \in [Matches -> BOOLEAN]
  /\ seed \in [Matches -> SeedPoints]
  /\ before \in [Matches -> [Players -> SUBSET Matches]]
  /\ row \in [Matches -> Rows]
  /\ users \in [Players -> Users]
  /\ route \in [Players -> Routes]
  /\ net \subseteq Calls
  /\ container \in [Matches -> {"none", "running", "expiring", "exited"}]
  /\ exits \in [Matches -> BOOLEAN]
  /\ faults \in 0..MaxFaults
  /\ told \in [Matches -> SUBSET Verdicts]
  /\ decided \in [Matches -> SUBSET Players]

Init ==
  /\ meta = [m \in Matches |-> NoMeta]
  /\ op = [m \in Matches |-> Idle]
  /\ rdy = [m \in Matches |-> "none"]
  /\ fatal = [m \in Matches |-> FALSE]
  /\ seed = [m \in Matches |-> "none"]
  /\ before = [m \in Matches |-> [p \in Players |-> {}]]
  /\ row = [m \in Matches |-> NoRow]
  /\ users = [p \in Players |-> [matches |-> 0, wins |-> 0, elo |-> {}]]
  /\ route = [p \in Players |-> NoRoute]
  /\ net = {}
  /\ container = [m \in Matches |-> "none"]
  /\ exits = [m \in Matches |-> FALSE]
  /\ faults = 0
  /\ told = [m \in Matches |-> {}]
  /\ decided = [m \in Matches |-> {}]

-----------------------------------------------------------------------------
(* Failures *)

Fails(kind) == kind \in Faults /\ faults < MaxFaults /\ faults' = faults + 1

Works == UNCHANGED faults

(* The platform terminates and resets an object: whatever it was awaiting   *)
(* is forgotten; its storage and the calls it has issued are not.  The      *)
(* caller of an interrupted seed sees an error.                             *)
DropInFlight(m) ==
  /\ rdy' = [rdy EXCEPT ![m] = IF @ \in {"none", "refused"} THEN @ ELSE "done"]
  /\ fatal' = [fatal EXCEPT ![m] = FALSE]
  /\ seed' = [seed EXCEPT ![m] =
                IF @ \in {"inserting", "inserted", "seeded"} THEN "failed" ELSE @]

(* An HTTPException (404, 403) thrown inside blockConcurrencyWhile: fetch   *)
(* answers its status and changes nothing, unless the platform resets an    *)
(* object whose callback has thrown.                                        *)
ThrowHttp(m) == UNCHANGED <<rdy, fatal, seed>> \/ DropInFlight(m)

(* Any other error thrown by the running callback: fetch's catch goes on to *)
(* cleanupAfterFatalError, unless the platform resets the object first.     *)
Throw(m) ==
  /\ op' = [op EXCEPT ![m] = Idle]
  /\ \/ fatal' = [fatal EXCEPT ![m] = TRUE] /\ UNCHANGED <<rdy, seed>>
     \/ DropInFlight(m)

Reset(m) ==
  /\ Fails("reset")
  /\ op' = [op EXCEPT ![m] = Idle]
  /\ DropInFlight(m)
  /\ UNCHANGED <<meta, before, d1Vars, route, net, agentVars, told>>

-----------------------------------------------------------------------------
(* The queue forms the match (queue.ts formMatch; in full in module Queue) *)

BeingFormed(n) ==
  \/ seed[n] \notin {"none", "formed", "abandoned"}
  \/ \E c \in net : c.match = n /\ c.by = "queue"

(* A waiter is in the hands of one formMatch at a time, its cleanup         *)
(* included; a player whose match is under way may queue again.             *)
FreeToForm(m) ==
  /\ seed[m] = "none"
  /\ \A n \in Matches : BeingFormed(n) => PlayersOf[n] \cap PlayersOf[m] = {}

RouteTo(m, S) == [p \in Players |-> IF p \in S THEN [match |-> m, ready |-> FALSE] ELSE route[p]]

(* allocateMatch: the Agent starts the container, then both routes are put. *)
Allocate(m) ==
  /\ FreeToForm(m)
  /\ seed' = [seed EXCEPT ![m] = "allocated"]
  /\ before' = [before EXCEPT ![m] = [p \in Players |-> users[p].elo]]
  /\ container' = [container EXCEPT ![m] = "running"]
  /\ route' = RouteTo(m, PlayersOf[m])
  /\ UNCHANGED <<objectVars, d1Vars, net, exits, faults, told>>

(* The start fails, or its answer is lost; or a route cannot be put.  The   *)
(* queue then holds `allocated` to be false, whether a container runs.      *)
AllocateFails(m) ==
  /\ FreeToForm(m)
  /\ seed' = [seed EXCEPT ![m] = "unallocated"]
  /\ \/ /\ Fails("agent")
        /\ container' = container \/ container' = [container EXCEPT ![m] = "running"]
        /\ UNCHANGED route
     \/ /\ Fails("queue")
        /\ container' = [container EXCEPT ![m] = "running"]
        /\ \E S \in SUBSET PlayersOf[m] : S # PlayersOf[m] /\ route' = RouteTo(m, S)
  /\ UNCHANGED <<objectVars, before, d1Vars, net, exits, told>>

(* handleSeed up to the D1 batch. *)
SeedInsert(m) ==
  /\ seed[m] = "allocated"
  /\ op[m] = Idle
  /\ seed' = [seed EXCEPT ![m] = "inserting"]
  /\ net' = net \cup {Call(m, "match", "insert", None)}
  /\ UNCHANGED <<objectVars, before, d1Vars, route, agentVars, faults, told>>

(* The batch has been answered: storage.put('meta'), and the response. *)
SeedStore(m) ==
  /\ seed[m] = "inserted"
  /\ op[m] = Idle
  /\ \/ /\ meta' = [meta EXCEPT ![m] = NewMeta]
        /\ seed' = [seed EXCEPT ![m] = "seeded"]
        /\ Works
     \/ /\ Fails("storage")
        /\ seed' = [seed EXCEPT ![m] = "failed"]
        /\ UNCHANGED meta
  /\ UNCHANGED <<op, rdy, fatal, before, d1Vars, route, net, agentVars, told>>

(* The seed's response reaches the queue, which puts the pending keys and   *)
(* sends match_found.                                                       *)
Formed(m) ==
  /\ seed[m] = "seeded"
  /\ \/ seed' = [seed EXCEPT ![m] = "formed"] /\ Works
     \/ seed' = [seed EXCEPT ![m] = "failed"] /\ Fails("queue")
  /\ UNCHANGED <<objectVars, before, d1Vars, route, net, agentVars, told>>

(* formMatch's catch: cleanupMatchResources deletes the routes and the      *)
(* rows, and stops the container if `allocated`; the object keeps its meta. *)
FormFailed(m) ==
  /\ seed[m] \in {"failed", "unallocated"}
  /\ seed' = [seed EXCEPT ![m] = "abandoned"]
  /\ net' = net \cup {Call(m, "queue", "unroute", p) : p \in PlayersOf[m]}
                \cup {Call(m, "queue", "drop", None)}
                \cup (IF seed[m] = "failed" THEN {Call(m, "queue", "stop", None)} ELSE {})
  /\ UNCHANGED <<objectVars, before, d1Vars, route, agentVars, faults, told>>

-----------------------------------------------------------------------------
(* POST /ready: does not block, so other requests run between its steps.    *)

(* The handler looks at readyAt only: not at winnerUuid, not at endedAt. *)
StartsReady(m) == meta[m].exists /\ ~meta[m].ready

ReadyStart(m) ==
  /\ rdy[m] = "none"
  /\ container[m] # "none"
  /\ op[m] = Idle
  /\ \/ /\ StartsReady(m)
        /\ meta' = [meta EXCEPT ![m].ready = TRUE]
        /\ rdy' = [rdy EXCEPT ![m] = "routing"]
        /\ net' = net \cup {Call(m, "match", "route", p) : p \in PlayersOf[m]}
        /\ UNCHANGED fatal
        /\ Works
     \/ /\ StartsReady(m)
        /\ Fails("storage")
        /\ rdy' = [rdy EXCEPT ![m] = "refused"]
        /\ fatal' = [fatal EXCEPT ![m] = TRUE]
        /\ UNCHANGED <<meta, net>>
     \/ /\ ~StartsReady(m)
        /\ rdy' = [rdy EXCEPT ![m] = "refused"]
        /\ UNCHANGED <<meta, fatal, net>>
        /\ Works
  /\ UNCHANGED <<op, queueVars, d1Vars, route, agentVars, told>>

(* Every put has been answered: match_ready goes to the players, and to the *)
(* hub, whose failure is not caught.                                        *)
ReadyRouted(m) ==
  /\ rdy[m] = "routing"
  /\ op[m] = Idle
  /\ InFlight(m, {"route"}) = {}
  /\ rdy' = [rdy EXCEPT ![m] = "notify"]
  /\ UNCHANGED <<meta, op, fatal, queueVars, d1Vars, route, net, agentVars, faults, told>>

ReadyNotified(m) ==
  /\ rdy[m] = "notify"
  /\ op[m] = Idle
  /\ rdy' = [rdy EXCEPT ![m] = "done"]
  /\ UNCHANGED <<meta, op, fatal, queueVars, d1Vars, route, net, agentVars, faults, told>>

ReadyFails(m) ==
  /\ op[m] = Idle
  /\ \/ rdy[m] = "rejected" /\ Works
     \/ rdy[m] = "notify" /\ Fails("hub")
  /\ rdy' = [rdy EXCEPT ![m] = "done"]
  /\ fatal' = [fatal EXCEPT ![m] = TRUE]
  /\ UNCHANGED <<meta, op, queueVars, d1Vars, route, net, agentVars, told>>

-----------------------------------------------------------------------------
(* POST /claim and POST /forfeit *)

(* requireMeta is the callback's first step. *)
Enter(m, kind, p) ==
  /\ op[m] = Idle
  /\ \/ /\ meta[m].exists
        /\ op' = [op EXCEPT ![m] = [kind |-> kind, pc |-> "check", who |-> p, winner |-> None]]
        /\ UNCHANGED <<rdy, fatal, seed>>
     \/ /\ ~meta[m].exists
        /\ ThrowHttp(m)
        /\ UNCHANGED op
  /\ UNCHANGED <<meta, before, d1Vars, route, net, agentVars, faults, told>>

(* The mod claims for a player of its match, who was let in because /ready  *)
(* got as far as its routes; the request may be delayed at will.            *)
Claim(m, p) ==
  /\ rdy[m] \notin {"none", "refused"}
  /\ p \in PlayersOf[m]
  /\ Enter(m, "claim", p)

(* Any signed-in user may name the match in a forfeit. *)
Forfeit(m, p) ==
  /\ seed[m] = "formed"
  /\ Enter(m, "forfeit", p)

\* Mutation: the forfeiter's opponent is not looked up.
WinnerIfGrantedNoOpponent(m) == IF op[m].kind = "claim" THEN op[m].who ELSE None

WinnerIfGranted(m) == IF op[m].kind = "claim" THEN op[m].who ELSE Opponent(m, op[m].who)

\* Mutation: persistWinner runs without asking whether the match is decided.
KnownVerdictUnchecked(m) == {}

(* findPersistedWinner's answer, then the copy in meta, then endedAt. *)
KnownVerdict(m) ==
  IF row[m].winner # None THEN {row[m].winner}
  ELSE IF meta[m].winner # None THEN {meta[m].winner}
  ELSE IF meta[m].ended THEN {"ended"} ELSE {}

AlreadyDecided(m) ==
  /\ op[m].pc = "check"
  /\ KnownVerdict(m) # {}
  /\ meta' = [meta EXCEPT ![m].winner = IF row[m].winner # None THEN row[m].winner ELSE @]
  /\ told' = [told EXCEPT ![m] = @ \cup KnownVerdict(m)]
  /\ op' = [op EXCEPT ![m] = Idle]
  /\ UNCHANGED <<rdy, fatal, queueVars, d1Vars, route, net, agentVars, faults>>

(* The look-up in D1 fails, or the winner it found cannot be stored. *)
CheckFails(m) ==
  /\ op[m].pc = "check"
  /\ Fails("d1") \/ (row[m].winner # None /\ Fails("storage"))
  /\ Throw(m)
  /\ UNCHANGED <<meta, before, d1Vars, route, net, agentVars, told>>

NotAPlayer(m) ==
  /\ op[m].pc = "check"
  /\ KnownVerdict(m) = {}
  /\ op[m].who \notin PlayersOf[m]
  /\ op' = [op EXCEPT ![m] = Idle]
  /\ ThrowHttp(m)
  /\ UNCHANGED <<meta, before, d1Vars, route, net, agentVars, faults, told>>

(* persistWinner issues its one D1 batch. *)
Persist(m) ==
  /\ op[m].pc = "check"
  /\ KnownVerdict(m) = {}
  /\ op[m].who \in PlayersOf[m]
  /\ op' = [op EXCEPT ![m] = [@ EXCEPT !.pc = "persist", !.winner = WinnerIfGranted(m)]]
  /\ net' = net \cup {Call(m, "match", "commit", WinnerIfGranted(m))}
  /\ UNCHANGED <<meta, rdy, fatal, queueVars, d1Vars, route, agentVars, faults, told>>

(* The batch has committed: the result goes to storage, failure is logged. *)
Record(m) ==
  /\ op[m].pc = "persisted"
  /\ op' = [op EXCEPT ![m].pc = "recorded"]
  /\ \/ meta' = [meta EXCEPT ![m] = [@ EXCEPT !.winner = op[m].winner, !.ended = TRUE]] /\ Works
     \/ Fails("storage") /\ UNCHANGED meta
  /\ UNCHANGED <<rdy, fatal, queueVars, d1Vars, route, net, agentVars, told>>

(* match_result to the sockets and, best effort, to the hub. *)
AnnounceResult(m) ==
  /\ op[m].pc = "recorded"
  /\ op' = [op EXCEPT ![m].pc = "closing"]
  /\ told' = [told EXCEPT ![m] = @ \cup {op[m].winner}]
  /\ UNCHANGED <<meta, rdy, fatal, queueVars, d1Vars, route, net, agentVars, faults>>

(* GET /state and the match_state a new socket is sent show meta's winner. *)
ShowState(m) ==
  /\ op[m] = Idle
  /\ meta[m].winner # None
  /\ told' = [told EXCEPT ![m] = @ \cup {meta[m].winner}]
  /\ UNCHANGED <<objectVars, queueVars, d1Vars, route, net, agentVars, faults>>

-----------------------------------------------------------------------------
(* POST /exit, cleanupAfterFatalError and cleanupMatch *)

\* Mutation: an exit notification is taken at its word.
LooksOverNever(m) == FALSE

(* markContainerExited asks storage, not D1, whether the match is decided. *)
LooksOver(m) == meta[m].ended \/ meta[m].winner # None

(* The death of a container may be notified more than once. *)
Exit(m) ==
  /\ exits[m]
  /\ op[m] = Idle
  /\ \E more \in BOOLEAN : exits' = [exits EXCEPT ![m] = more]
  /\ \/ /\ meta[m].exists /\ ~LooksOver(m)
        /\ op' = [op EXCEPT ![m] = [kind |-> "exit", pc |-> "closing", who |-> None, winner |-> None]]
        /\ told' = [told EXCEPT ![m] = @ \cup {"aborted"}]
        /\ UNCHANGED <<rdy, fatal, seed>>
     \/ /\ meta[m].exists /\ LooksOver(m)
        /\ UNCHANGED <<op, told, rdy, fatal, seed>>
     \/ /\ ~meta[m].exists
        /\ ThrowHttp(m)
        /\ UNCHANGED <<op, told>>
  /\ UNCHANGED <<meta, before, d1Vars, route, net, container, faults>>

(* The winner a fatal cleanup goes by: meta's copy, else D1's, whose        *)
(* look-up may fail and then counts as "none".                              *)
FatalWinner(m, w) ==
  \/ w = (IF meta[m].winner # None THEN meta[m].winner ELSE row[m].winner) /\ Works
  \/ meta[m].winner = None /\ w = None /\ Fails("d1")

Fatal(m) ==
  /\ fatal[m]
  /\ op[m] = Idle
  /\ fatal' = [fatal EXCEPT ![m] = FALSE]
  /\ \/ /\ ~meta[m].exists
        /\ UNCHANGED <<op, told>>
        /\ Works
     \/ /\ meta[m].exists
        /\ \E w \in Winners :
             /\ FatalWinner(m, w)
             /\ op' = [op EXCEPT ![m] =
                         [kind |-> "fatal", pc |-> "closing", who |-> None, winner |-> w]]
             /\ told' = IF w = None THEN [told EXCEPT ![m] = @ \cup {"aborted"}] ELSE told
  /\ UNCHANGED <<meta, rdy, queueVars, d1Vars, route, net, agentVars>>

\* Mutation: a decided match leaves its container to the hard timeout.
CleanupCallsNoStop(m) ==
  {Call(m, "match", "unroute", p) : p \in PlayersOf[m]}
    \cup (IF op[m].winner = None THEN {Call(m, "match", "drop", None)} ELSE {})

(* deleteD1 and clearStorage go together: an abort is a cleanup without a   *)
(* winner.  Only an exit does not stop the container.                       *)
CleanupCalls(m) ==
  {Call(m, "match", "unroute", p) : p \in PlayersOf[m]}
    \cup (IF op[m].winner = None THEN {Call(m, "match", "drop", None)} ELSE {})
    \cup (IF op[m].kind = "exit" THEN {} ELSE {Call(m, "match", "stop", None)})

CleanupStart(m) ==
  /\ op[m].pc = "closing"
  /\ op' = [op EXCEPT ![m].pc = "cleanup"]
  /\ net' = net \cup CleanupCalls(m)
  /\ UNCHANGED <<meta, rdy, fatal, queueVars, d1Vars, route, agentVars, faults, told>>

(* Promise.allSettled: goes on when each call has succeeded or failed. *)
Settled(m) == InFlight(m, {"unroute", "drop", "stop"}) = {}

\* Mutation: an aborted match keeps its meta.
ClearStorageNever(m) == meta' = meta

ClearStorage(m) ==
  meta' = [meta EXCEPT ![m] = IF op[m].winner = None THEN NoMeta ELSE @]

CleanupFinish(m) ==
  /\ op[m].pc = "cleanup"
  /\ op' = [op EXCEPT ![m] = Idle]
  /\ \/ Settled(m) /\ ClearStorage(m) /\ Works
     \/ Settled(m) /\ op[m].winner = None /\ UNCHANGED meta /\ Fails("storage")
     \/ ~Settled(m) /\ ClearStorage(m) /\ Fails("late")
  /\ UNCHANGED <<rdy, fatal, queueVars, d1Vars, route, net, agentVars, told>>

-----------------------------------------------------------------------------
(* Calls take effect, and are answered: an answer matters to the handler    *)
(* that awaits it, if it still does.                                        *)

Persisting(c) == op[c.match].pc = "persist" /\ op[c.match].winner = c.who

(* D1 or KV answers, or with a fault the answer is lost. *)
AnswerInsert(c) ==
  \/ seed' = [seed EXCEPT ![c.match] = IF @ = "inserting" THEN "inserted" ELSE @] /\ Works
  \/ seed[c.match] = "inserting" /\ Fails("d1") /\ seed' = [seed EXCEPT ![c.match] = "failed"]

D1Insert(c) ==
  /\ c.do = "insert"
  /\ net' = net \ {c}
  /\ row' = [row EXCEPT ![c.match] = IF @.exists THEN @ ELSE NewRow]
  /\ AnswerInsert(c)
  /\ UNCHANGED <<objectVars, before, users, decided, route, agentVars, told>>

(* The batch of persistWinner: every statement carries its own guard, and   *)
(* the code does not look at how many rows were changed.                    *)
\* Mutation: the users update without its elo_after IS NULL guard.
UnratedUnguarded(m) == IF row[m].exists THEN PlayersOf[m] ELSE {}

Unrated(m) == IF row[m].exists THEN PlayersOf[m] \ row[m].rated ELSE {}

\* Mutation: the matches update without winner_uuid IS NULL.
SetsWinnerUnguarded(m) == row[m].exists

SetsWinner(m) == row[m].exists /\ row[m].winner = None

RatedUser(m, w, p) ==
  [matches |-> users[p].matches + 1,
   wins    |-> users[p].wins + (IF p = w THEN 1 ELSE 0),
   elo     |-> before[m][p] \cup {m}]

ApplyBatch(m, w) ==
  /\ row' = [row EXCEPT ![m].winner = IF SetsWinner(m) THEN w ELSE @,
                        ![m].rated = @ \cup Unrated(m)]
  /\ users' = [p \in Players |-> IF p \in Unrated(m) THEN RatedUser(m, w, p) ELSE users[p]]
  /\ decided' = [decided EXCEPT ![m] = IF SetsWinner(m) THEN @ \cup {w} ELSE @]

D1Commit(c) ==
  /\ c.do = "commit"
  /\ net' = net \ {c}
  /\ ApplyBatch(c.match, c.who)
  /\ \/ /\ Persisting(c)
        /\ op' = [op EXCEPT ![c.match].pc = "persisted"]
        /\ UNCHANGED <<rdy, fatal, seed>>
        /\ Works
     \/ /\ Persisting(c)
        /\ Fails("d1")
        /\ Throw(c.match)
     \/ /\ ~Persisting(c)
        /\ UNCHANGED <<op, rdy, fatal, seed>>
        /\ Works
  /\ UNCHANGED <<meta, before, route, agentVars, told>>

D1Drop(c) ==
  /\ c.do = "drop"
  /\ net' = net \ {c}
  /\ row' = [row EXCEPT ![c.match] = NoRow]
  /\ UNCHANGED <<objectVars, queueVars, users, decided, route, agentVars, faults, told>>

KvPut(c) ==
  /\ c.do = "route"
  /\ net' = net \ {c}
  /\ route' = [route EXCEPT ![c.who] = [match |-> c.match, ready |-> TRUE]]
  /\ UNCHANGED <<objectVars, queueVars, d1Vars, agentVars, faults, told>>

(* The key is the player's, whichever match it names by now. *)
KvDelete(c) ==
  /\ c.do = "unroute"
  /\ net' = net \ {c}
  /\ route' = [route EXCEPT ![c.who] = NoRoute]
  /\ UNCHANGED <<objectVars, queueVars, d1Vars, agentVars, faults, told>>

(* A stop is not notified if its event finds the match tracked and marked   *)
(* Stopping; one handled after the match is untracked, or a second event of *)
(* the same death, is.                                                      *)
StopEvents(m) ==
  \/ UNCHANGED exits
  \/ container[m] # "exited" /\ exits' = [exits EXCEPT ![m] = TRUE]

AgentStop(c) ==
  /\ c.do = "stop"
  /\ net' = net \ {c}
  /\ container' = [container EXCEPT ![c.match] = "exited"]
  /\ StopEvents(c.match)
  /\ UNCHANGED <<objectVars, queueVars, d1Vars, route, faults, told>>

(* The handler that awaits the call sees it fail. *)
Rejected(c) ==
  \/ /\ c.do = "insert"
     /\ seed' = [seed EXCEPT ![c.match] = IF @ = "inserting" THEN "failed" ELSE @]
     /\ UNCHANGED <<op, rdy, fatal>>
  \/ /\ c.do = "commit" /\ Persisting(c)
     /\ Throw(c.match)
  \/ /\ c.do = "commit" /\ ~Persisting(c)
     /\ UNCHANGED <<op, rdy, fatal, seed>>
  \/ /\ c.do = "route"
     /\ rdy' = [rdy EXCEPT ![c.match] = IF @ = "routing" THEN "rejected" ELSE @]
     /\ UNCHANGED <<op, fatal, seed>>
  \/ /\ c.do \in {"drop", "unroute", "stop"}
     /\ UNCHANGED <<op, rdy, fatal, seed>>

(* The call fails before it has an effect. *)
Lose(c) ==
  /\ Fails(ServiceOf(c))
  /\ net' = net \ {c}
  /\ Rejected(c)
  /\ UNCHANGED <<meta, before, d1Vars, route, agentVars, told>>

(* The caller gives up, the call does not (a cleanup: see CleanupFinish). *)
GiveUp(c) ==
  /\ c.do \in {"insert", "commit", "route"}
  /\ Fails("late")
  /\ Rejected(c)
  /\ UNCHANGED <<meta, before, d1Vars, route, net, agentVars, told>>

-----------------------------------------------------------------------------
(* The container and the Agent's watch over it (in full in module Agent) *)

(* It stops on its own: its exit events become POSTs of /exit, unless lost. *)
ContainerExits(m) ==
  /\ container[m] = "running"
  /\ container' = [container EXCEPT ![m] = "exited"]
  /\ \/ exits' = [exits EXCEPT ![m] = TRUE] /\ Works
     \/ Fails("agent") /\ UNCHANGED exits
  /\ UNCHANGED <<objectVars, queueVars, d1Vars, route, net, told>>

(* The hard timeout notifies first and stops the container afterwards. *)
ContainerTimesOut(m) ==
  /\ container[m] = "running"
  /\ container' = [container EXCEPT ![m] = "expiring"]
  /\ exits' = [exits EXCEPT ![m] = TRUE]
  /\ UNCHANGED <<objectVars, queueVars, d1Vars, route, net, faults, told>>

ContainerExpires(m) ==
  /\ container[m] = "expiring"
  /\ container' = [container EXCEPT ![m] = "exited"]
  /\ StopEvents(m)
  /\ UNCHANGED <<objectVars, queueVars, d1Vars, route, net, faults, told>>

-----------------------------------------------------------------------------
(* A step the object takes on its own, once it has been given the work. *)
ObjectStep(m) ==
  \/ SeedInsert(m) \/ SeedStore(m) \/ Formed(m) \/ FormFailed(m)
  \/ ReadyRouted(m) \/ ReadyNotified(m) \/ ReadyFails(m)
  \/ AlreadyDecided(m) \/ CheckFails(m) \/ NotAPlayer(m) \/ Persist(m)
  \/ Record(m) \/ AnnounceResult(m)
  \/ Fatal(m) \/ CleanupStart(m) \/ CleanupFinish(m)

Request(m) ==
  \/ Allocate(m) \/ AllocateFails(m)
  \/ ReadyStart(m)
  \/ \E p \in Players : Claim(m, p) \/ Forfeit(m, p)
  \/ Exit(m)
  \/ ShowState(m)

CallStep(c) ==
  \/ D1Insert(c) \/ D1Commit(c) \/ D1Drop(c)
  \/ KvPut(c) \/ KvDelete(c) \/ AgentStop(c)
  \/ Lose(c)

ContainerStep(m) == ContainerExits(m) \/ ContainerTimesOut(m) \/ ContainerExpires(m)

Next ==
  \/ \E m \in Matches : Request(m) \/ ObjectStep(m) \/ ContainerStep(m) \/ Reset(m)
  \/ \E c \in net : CallStep(c) \/ GiveUp(c)

(* An object runs its own continuations and an issued call ends; nobody has *)
(* to send a request, and nothing has to fail.                              *)
Fairness ==
  /\ \A m \in Matches : WF_vars(ObjectStep(m))
  /\ \A m \in Matches : WF_vars(\E c \in net : c.match = m /\ CallStep(c))

Spec == Init /\ [][Next]_vars /\ Fairness

-----------------------------------------------------------------------------
(* Properties *)

(* D1 records at most one winner for a match, for good: whatever fails, no  *)
(* later batch, not even one that lands after its caller has given it up,   *)
(* replaces the winner of an earlier one (persistWinner's IS NULL guard).   *)
OneWinner == \A m \in Matches : \A v, w \in decided[m] : v = w

(* A player's match and win counters count exactly the matches decided with *)
(* them in it, each once, whatever fails, is retried or lands late.         *)
PlayedIn(p) == {m \in Matches : p \in PlayersOf[m] /\ decided[m] # {}}
WonBy(p)    == {m \in Matches : p \in decided[m]}

EachMatchCountedOnce ==
  \A p \in Players : /\ users[p].matches = Cardinality(PlayedIn(p))
                     /\ users[p].wins = Cardinality(WonBy(p))

(* "First call wins; subsequent calls see the existing winner and respond   *)
(* truthfully": a winner anyone has been told of is the winner D1 holds.    *)
ToldIsRecorded == \A m \in Matches : \A w \in told[m] \cap Players : row[m].winner = w

(* No two people are ever told of different winners of a match. *)
OneWinnerTold == \A m \in Matches : \A v, w \in told[m] \cap Players : v = w

(* The record of a decided match is kept. *)
DecidedIsKept == \A m \in Matches : decided[m] # {} => row[m].winner \in decided[m]

(* A decided match gives its container back. *)
DecidedIsStopped == \A m \in Matches : decided[m] # {} ~> container[m] = "exited"

(* The outcome of a match as its players see it: module MatchArbiter. *)
Verdict == [m \in Matches |->
              IF decided[m] # {} THEN CHOOSE w \in decided[m] : TRUE
              ELSE IF "aborted" \in told[m] THEN "aborted" ELSE "open"]

Arbiter == INSTANCE MatchArbiter WITH verdict <- Verdict, told <- told

ImplementsArbiter == Arbiter!Spec
=============================================================================
