-------------------------------- MODULE Proxy --------------------------------
(***************************************************************************)
(* The router plugin of the Velocity proxy (SisrProxy.java): players are    *)
(* sent to the server of their match when they log in, by a route lookup,   *)
(* or while they are online, by match_ready events on a WebSocket; servers  *)
(* are registered when somebody needs them and unregistered when somebody   *)
(* notices that they are empty.                                             *)
(*                                                                         *)
(* Events and scheduled tasks run on threads of their own.  A step is one   *)
(* call that changes Velocity's table or dynamicServers, with the looks at  *)
(* them that precede it; no lock spans two of them.                         *)
(***************************************************************************)
EXTENDS Integers

CONSTANTS
  Matches,   \* matches, each with the one name its server is registered by
  Players,   \* the players of all of them
  None,
  Threads,   \* bound: tasks at the same time
  MaxRegs,   \* bound: registrations of one server
  MaxLogins  \* bound: logins

ASSUME ProxyAssumption ==
  /\ None \notin Matches
  /\ None \notin Players
  /\ Players # {}
  /\ MaxRegs \in Nat \ {0}
  /\ MaxLogins \in Nat

VARIABLES
  regs,      \* registrations of each server so far
  listed,    \* the matches whose server is registered (by the latest of them)
  dynamic,   \* dynamicServers
  at,        \* where each player is: the match and the registration
  tasks,     \* what the threads are at
  socket,    \* the event socket: connecting, open, or a reconnect is scheduled
  logins,    \* how often somebody has logged in
  server,    \* the server of each match: booting, ready or gone
  routes,    \* the Worker: the match each player has a route to that is ready
  raced      \* history: servers somebody was registering or on the way to while
             \* somebody was cleaning up

vars == <<regs, listed, dynamic, at, tasks, socket, logins, server, routes, raced>>

-----------------------------------------------------------------------------
Offline  == [m |-> None, reg |-> 0]
Choosing == [m |-> None, reg |-> 1]
IdleTask == [pc |-> "idle", m |-> None, reg |-> 0, p |-> None, todo |-> {}]

Is(t, pc) == tasks[t].pc = pc
On(p) == at[p].m # None

(* Mutant of Occupied: a stale look, before anybody has come. *)
OccupiedNot(m) == FALSE

Occupied(m) == \E p \in Players : at[p] = [m |-> m, reg |-> regs[m]]

Continue(t, pc) == tasks' = [tasks EXCEPT ![t].pc = pc]
Cleaning(m)     == \E t \in Threads : tasks[t].m = m /\ tasks[t].pc \in {"unregister", "forget"}
First(set)      == CHOOSE x \in set : TRUE
OnTheWay(m)     == \E t \in Threads :
  tasks[t].m = m /\ tasks[t].pc \in {"register", "put", "enter", "move"}
Race(m, during) == raced' = IF during THEN raced \cup {m} ELSE raced

Spawn(task) ==
  LET free == {t \in Threads : Is(t, "idle")} IN
  /\ free # {}
  /\ tasks' = [tasks EXCEPT ![CHOOSE t \in free : TRUE] = task]
Cleanup(todo) == IF todo = {} THEN IdleTask ELSE [IdleTask EXCEPT !.pc = "clean", !.todo = todo]

(* Mutant of Rest: a loop with nothing left to do does not end. *)
RestStuck(task, p) == [task EXCEPT !.todo = @ \ {p}]

Rest(task, p) == IF task.todo = {p} THEN IdleTask ELSE [task EXCEPT !.todo = @ \ {p}]

-----------------------------------------------------------------------------
(* onPlayerChooseInitialServer *)

Login(p) ==
  /\ at[p] = Offline
  /\ logins < MaxLogins
  /\ logins' = logins + 1
  /\ at' = [at EXCEPT ![p] = Choosing]
  /\ Spawn([IdleTask EXCEPT !.pc = "fetch", !.p = p])
  /\ UNCHANGED <<regs, listed, dynamic, socket, server, routes, raced>>

FetchRoute(t) ==
  /\ Is(t, "fetch")
  /\ routes[tasks[t].p] # None
  /\ tasks' = [tasks EXCEPT ![t].pc = "lookup", ![t].m = routes[tasks[t].p]]
  /\ UNCHANGED <<regs, listed, dynamic, at, socket, logins, server, routes, raced>>

(* The player is disconnected; that event cleans up in its turn. *)
TurnAway(t) ==
  /\ at' = [at EXCEPT ![tasks[t].p] = Offline]
  /\ tasks' = [tasks EXCEPT ![t] = Cleanup(dynamic)]
  /\ UNCHANGED <<regs, listed, dynamic, socket, logins, server, routes, raced>>

(* No route, none that is ready, or no answer. *)
NoRoute(t) == Is(t, "fetch") /\ TurnAway(t)

(* registerRoute *)
Registered(t) == IF tasks[t].p # None THEN "enter" ELSE "move"

LookUp(t) ==
  LET m == tasks[t].m IN
  /\ Is(t, "lookup")
  /\ tasks' = [tasks EXCEPT ![t] =
       IF m \in listed THEN [@ EXCEPT !.pc = "put", !.reg = regs[m]]
       ELSE [@ EXCEPT !.pc = "register"]]
  /\ Race(m, Cleaning(m))
  /\ UNCHANGED <<regs, listed, dynamic, at, socket, logins, server, routes>>

(* registerServer gives back what another thread has registered since. *)
Register(t) ==
  LET m == tasks[t].m IN
  /\ Is(t, "register")
  /\ m \in listed \/ regs[m] < MaxRegs
  /\ regs' = IF m \in listed THEN regs ELSE [regs EXCEPT ![m] = @ + 1]
  /\ listed' = listed \cup {m}
  /\ tasks' = [tasks EXCEPT ![t].pc = "put", ![t].reg = regs'[m]]
  /\ UNCHANGED <<dynamic, at, socket, logins, server, routes, raced>>

(* Mutant of Put: dynamicServers is left as it is. *)
PutNot(t) ==
  /\ Is(t, "put")
  /\ Continue(t, Registered(t))
  /\ UNCHANGED <<regs, listed, dynamic, at, socket, logins, server, routes, raced>>

Put(t) ==
  /\ Is(t, "put")
  /\ dynamic' = dynamic \cup {tasks[t].m}
  /\ Continue(t, Registered(t))
  /\ UNCHANGED <<regs, listed, at, socket, logins, server, routes, raced>>

Here(t) == [m |-> tasks[t].m, reg |-> tasks[t].reg]

Enter(t) ==
  /\ Is(t, "enter")
  /\ server[tasks[t].m] = "ready"
  /\ at' = [at EXCEPT ![tasks[t].p] = Here(t)]
  /\ tasks' = [tasks EXCEPT ![t] = IdleTask]
  /\ UNCHANGED <<regs, listed, dynamic, socket, logins, server, routes, raced>>

(* The server is not there: kicked while connecting. *)
EnterFails(t) == Is(t, "enter") /\ server[tasks[t].m] = "gone" /\ TurnAway(t)

-----------------------------------------------------------------------------
(* moveReadyPlayers: whoever is not connected to a server is left alone; a  *)
(* player who has moved leaves a server that may be empty now.              *)
Move(t, p) ==
  /\ Is(t, "move") /\ p = First(tasks[t].todo)
  /\ On(p) /\ at[p].m # tasks[t].m
  /\ server[tasks[t].m] = "ready"
  /\ at' = [at EXCEPT ![p] = Here(t)]
  /\ \E other \in Threads \ {t} :
       /\ Is(other, "idle")
       /\ tasks' = [tasks EXCEPT ![t] = Rest(@, p), ![other] = Cleanup({at[p].m})]
  /\ UNCHANGED <<regs, listed, dynamic, socket, logins, server, routes, raced>>

(* Mutant of MoveNot: a player who is on some server stays there. *)
MoveNotOnline(t, p) ==
  /\ Is(t, "move") /\ p = First(tasks[t].todo)
  /\ tasks' = [tasks EXCEPT ![t] = Rest(@, p)]
  /\ UNCHANGED <<regs, listed, dynamic, at, socket, logins, server, routes, raced>>

MoveNot(t, p) ==
  /\ Is(t, "move") /\ p = First(tasks[t].todo)
  /\ ~On(p) \/ at[p].m = tasks[t].m \/ server[tasks[t].m] = "gone"
  /\ tasks' = [tasks EXCEPT ![t] = Rest(@, p)]
  /\ UNCHANGED <<regs, listed, dynamic, at, socket, logins, server, routes, raced>>

-----------------------------------------------------------------------------
(* Mutant of Disconnect: nothing is cleaned up. *)
DisconnectOnly(p) ==
  /\ On(p)
  /\ at' = [at EXCEPT ![p] = Offline]
  /\ UNCHANGED <<regs, listed, dynamic, tasks, socket, logins, server, routes, raced>>

(* onDisconnect, and onKickedFromServer, which disconnects the player *)
Disconnect(p) ==
  /\ On(p)
  /\ at' = [at EXCEPT ![p] = Offline]
  /\ Spawn(Cleanup(dynamic))
  /\ UNCHANGED <<regs, listed, dynamic, socket, logins, server, routes, raced>>

(* cleanupIfEmpty, for one name after another *)
Check(t, m) ==
  LET rest == Cleanup(tasks[t].todo \ {m})
      due(pc) == [tasks[t] EXCEPT !.pc = pc, !.m = m, !.todo = @ \ {m}] IN
  /\ Is(t, "clean") /\ m = First(tasks[t].todo)
  /\ tasks' = [tasks EXCEPT ![t] =
       IF m \notin dynamic THEN rest
       ELSE IF m \notin listed THEN due("forget")
       ELSE IF Occupied(m) THEN rest ELSE due("unregister")]
  /\ Race(m, tasks'[t].m = m /\ OnTheWay(m))
  /\ UNCHANGED <<regs, listed, dynamic, at, socket, logins, server, routes>>

Unregister(t) ==
  /\ Is(t, "unregister")
  /\ listed' = listed \ {tasks[t].m}
  /\ Continue(t, "forget")
  /\ UNCHANGED <<regs, dynamic, at, socket, logins, server, routes, raced>>

Forget(t) ==
  /\ Is(t, "forget")
  /\ dynamic' = dynamic \ {tasks[t].m}
  /\ tasks' = [tasks EXCEPT ![t] = Cleanup(@.todo)]
  /\ UNCHANGED <<regs, listed, at, socket, logins, server, routes, raced>>

-----------------------------------------------------------------------------
(* connectEventSocket and the listener *)
SocketOpens ==
  /\ socket = "connecting"
  /\ socket' = "open"
  /\ UNCHANGED <<regs, listed, dynamic, at, tasks, logins, server, routes, raced>>

(* A connection that cannot be made, or that closes or fails. *)
SocketLost ==
  /\ socket \in {"connecting", "open"}
  /\ socket' = "scheduled"
  /\ UNCHANGED <<regs, listed, dynamic, at, tasks, logins, server, routes, raced>>

Reconnect ==
  /\ socket = "scheduled"
  /\ socket' = "connecting"
  /\ UNCHANGED <<regs, listed, dynamic, at, tasks, logins, server, routes, raced>>

-----------------------------------------------------------------------------
(* The Worker, and the servers of the matches *)

(* handleReady, and handleEvent of the event that follows the routes; an    *)
(* event there is no socket for is lost.  Matches are alike: one order will *)
(* do.                                                                      *)
BecomeReady(m) ==
  /\ server[m] = "booting"
  /\ m = First({booting \in Matches : server[booting] = "booting"})
  /\ server' = [server EXCEPT ![m] = "ready"]
  /\ routes' = [p \in Players |-> m]
  /\ IF socket = "open"
     THEN Spawn([IdleTask EXCEPT !.pc = "lookup", !.m = m, !.todo = Players])
     ELSE UNCHANGED tasks
  /\ UNCHANGED <<regs, listed, dynamic, at, socket, logins, raced>>

(* The match is over, the routes are deleted, the container is stopped. *)
EndMatch(m) ==
  /\ server[m] = "ready"
  /\ server' = [server EXCEPT ![m] = "gone"]
  /\ routes' = [p \in Players |-> None]
  /\ UNCHANGED <<regs, listed, dynamic, at, tasks, socket, logins, raced>>

-----------------------------------------------------------------------------
Init ==
  /\ regs = [m \in Matches |-> 0]
  /\ listed = {} /\ dynamic = {} /\ raced = {}
  /\ at = [p \in Players |-> Offline]
  /\ tasks = [t \in Threads |-> IdleTask]
  /\ socket = "connecting" /\ logins = 0
  /\ server = [m \in Matches |-> "booting"]
  /\ routes = [p \in Players |-> None]

Works(t) ==
  \/ FetchRoute(t) \/ LookUp(t) \/ Register(t) \/ Put(t) \/ Enter(t) \/ EnterFails(t)
  \/ Unregister(t) \/ Forget(t)
  \/ \E p \in Players : Move(t, p) \/ MoveNot(t, p)
  \/ \E m \in Matches : Check(t, m)

TurnedOut(p) == On(p) /\ server[at[p].m] = "gone" /\ Disconnect(p)

Next ==
  \/ \E t \in Threads : Works(t) \/ NoRoute(t)
  \/ \E p \in Players : Login(p) \/ Disconnect(p)
  \/ \E m \in Matches : BecomeReady(m) \/ EndMatch(m)
  \/ SocketOpens \/ SocketLost \/ Reconnect

(* Tasks run, a lookup ends in its timeout at the latest, players of a      *)
(* server that has stopped lose their connection, the socket reconnects.    *)
Fairness ==
  /\ \A t \in Threads : WF_vars(Works(t) \/ NoRoute(t))
  /\ \A p \in Players : WF_vars(TurnedOut(p))
  /\ WF_vars(SocketOpens \/ Reconnect)

Spec == Init /\ [][Next]_vars /\ Fairness

-----------------------------------------------------------------------------
TypeOK ==
  /\ regs \in [Matches -> 0..MaxRegs]
  /\ listed \subseteq Matches /\ dynamic \subseteq Matches /\ raced \subseteq Matches
  /\ at \in [Players -> [m : Matches \cup {None}, reg : 0..MaxRegs]]
  /\ \A t \in Threads : tasks[t].m \in Matches \cup {None} /\ tasks[t].reg \in 0..MaxRegs
  /\ \A t \in Threads : (Is(t, "clean") \/ Is(t, "move")) => tasks[t].todo # {}
  /\ socket \in {"connecting", "open", "scheduled"}
  /\ logins \in 0..MaxLogins
  /\ server \in [Matches -> {"booting", "ready", "gone"}]
  /\ routes \in [Players -> Matches \cup {None}]

(* A server somebody is on is registered, by the registration they came     *)
(* by, unless it was cleaned up while somebody was on the way to it.        *)
OccupiedIsListed == \A p \in Players :
  On(p) => at[p].m \in raced \/ (at[p].m \in listed /\ at[p].reg = regs[at[p].m])

(* No registration is forgotten, so that no cleanup will ever remove it,    *)
(* unless it was made while another thread was cleaning up.                 *)
NoneIsForgotten == \A m \in listed \ dynamic :
  m \in raced \/ \E t \in Threads : tasks[t].m = m /\ tasks[t].pc \in {"put", "forget"}

(* The registration table is kept clean (ARCHITECTURE.MD:263): the server   *)
(* of a match that has ended with players on it is unregistered.            *)
TableIsCleaned == \A m \in Matches :
  server[m] = "gone" /\ (\E p \in Players : at[p].m = m) ~> m \notin listed \/ m \in raced

(* Whoever an event is about and is online on another server is moved.      *)
ReadyPlayersMove == \A p \in Players, m \in Matches :
  (\E t \in Threads : tasks[t].m = m /\ p \in tasks[t].todo /\ On(p)
     /\ tasks[t].pc \in {"lookup", "register", "put", "move"})
    ~> at[p].m = m \/ ~On(p) \/ server[m] = "gone"
=============================================================================
