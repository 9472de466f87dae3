----------------------------- MODULE ProxyProofs -----------------------------
(***************************************************************************)
(* Theorems about module Proxy, for any matches, players, threads and       *)
(* bounds: whatever is not raced is in order.                               *)
(***************************************************************************)
EXTENDS Proxy, TLAPS

(* What a task of a thread carries at each point. *)
Points == {"idle", "fetch", "lookup", "register", "put", "enter", "move", "clean", "unregister",
           "forget"}

Tasks == [pc : Points, m : Matches \cup {None}, reg : 0..MaxRegs, p : Players \cup {None},
          todo : SUBSET (Players \cup Matches)]

TaskOK(k) ==
  /\ k.pc \in {"idle", "fetch", "clean"} <=> k.m = None
  /\ k.pc \in {"fetch", "enter"} => k.p \in Players
  /\ k.pc = "move" \/ (k.pc \in {"lookup", "register", "put"} /\ k.p = None) =>
       k.todo \subseteq Players /\ k.todo # {}
  /\ k.pc \in {"clean", "unregister", "forget"} => k.todo \subseteq Matches
  /\ k.pc = "clean" => k.todo # {}

Typed ==
  /\ TypeOK
  /\ tasks \in [Threads -> Tasks]
  /\ \A t \in Threads : TaskOK(tasks[t])

(* Whoever has registered a server and still uses it uses the registration  *)
(* that Velocity lists.                                                     *)
UsesTheListed == \A t \in Threads :
  tasks[t].pc \in {"put", "enter", "move"} =>
    tasks[t].m \in raced \/ (tasks[t].m \in listed /\ tasks[t].reg = regs[tasks[t].m])

(* A server that is being cleaned up has nobody on it or on the way to it.  *)
CleansTheEmpty == \A t \in Threads :
  tasks[t].pc \in {"unregister", "forget"} =>
    \/ tasks[t].m \in raced
    \/ ~OnTheWay(tasks[t].m) /\ \A p \in Players : at[p].m # tasks[t].m

(* What is about to be forgotten is not listed any more. *)
ForgetsTheGone == \A t \in Threads :
  tasks[t].pc = "forget" => tasks[t].m \in raced \/ tasks[t].m \notin listed

Safe ==
  /\ UsesTheListed
  /\ CleansTheEmpty
  /\ ForgetsTheGone
  /\ OccupiedIsListed
  /\ NoneIsForgotten

ProxyInv == Typed /\ Safe

-----------------------------------------------------------------------------
(* Values *)

LEMMA IdleTaskIs ==
  /\ IdleTask \in Tasks /\ TaskOK(IdleTask)
  /\ IdleTask.pc = "idle" /\ IdleTask.m = None /\ IdleTask.p = None /\ IdleTask.reg = 0
  /\ IdleTask.todo = {}
BY ProxyAssumption DEF IdleTask, Tasks, Points, TaskOK

LEMMA CleanupIs ==
  ASSUME NEW S, S \subseteq Matches
  PROVE  /\ Cleanup(S) \in Tasks /\ TaskOK(Cleanup(S))
         /\ Cleanup(S).pc \in {"idle", "clean"} /\ Cleanup(S).m = None
<1>1. CASE S = {}
  BY <1>1, IdleTaskIs DEF Cleanup
<1>2. CASE S # {}
  <2>1. Cleanup(S) = [pc |-> "clean", m |-> None, reg |-> 0, p |-> None, todo |-> S]
    BY <1>2 DEF Cleanup, IdleTask
  <2>2. S \in SUBSET (Players \cup Matches)
    OBVIOUS
  <2> QED
    BY <1>2, <2>1, <2>2, ProxyAssumption DEF Tasks, Points, TaskOK
<1> QED
  BY <1>1, <1>2

LEMMA FirstIn == ASSUME NEW S, S # {} PROVE First(S) \in S
BY DEF First

LEMMA RestIs ==
  ASSUME NEW k \in Tasks, TaskOK(k), k.pc = "move", NEW p \in k.todo
  PROVE  /\ Rest(k, p) \in Tasks /\ TaskOK(Rest(k, p))
         /\ \/ Rest(k, p).pc = "idle"
            \/ Rest(k, p).pc = "move" /\ Rest(k, p).m = k.m /\ Rest(k, p).reg = k.reg
<1>1. CASE k.todo = {p}
  BY <1>1, IdleTaskIs DEF Rest
<1>2. CASE k.todo # {p}
  <2>1. PICK S : S = k.todo \ {p}
    OBVIOUS
  <2>2. Rest(k, p) = [k EXCEPT !.todo = S]
    BY <1>2, <2>1 DEF Rest
  <2>3. S \in SUBSET (Players \cup Matches) /\ S \subseteq Players /\ S # {}
    BY <1>2, <2>1 DEF Tasks, TaskOK
  <2>4. /\ Rest(k, p).pc = "move" /\ Rest(k, p).m = k.m /\ Rest(k, p).reg = k.reg
        /\ Rest(k, p).p = k.p /\ Rest(k, p).todo = S /\ Rest(k, p) \in Tasks
    BY <2>2, <2>3 DEF Tasks
  <2> QED
    BY <2>3, <2>4 DEF TaskOK
<1> QED
  BY <1>1, <1>2

LEMMA TasksTyped ==
  ASSUME Typed, NEW t \in Threads, NEW k \in Tasks, TaskOK(k), tasks' = [tasks EXCEPT ![t] = k]
  PROVE  tasks' \in [Threads -> Tasks] /\ \A u \in Threads : TaskOK(tasks'[u])
BY DEF Typed

(* The type of the tasks is all that TypeOK asks of them. *)
LEMMA TypedFrom ==
  ASSUME tasks' \in [Threads -> Tasks], \A u \in Threads : TaskOK(tasks'[u]),
         regs' \in [Matches -> 0..MaxRegs],
         listed' \subseteq Matches, dynamic' \subseteq Matches, raced' \subseteq Matches,
         at' \in [Players -> [m : Matches \cup {None}, reg : 0..MaxRegs]],
         socket' \in {"connecting", "open", "scheduled"}, logins' \in 0..MaxLogins,
         server' \in [Matches -> {"booting", "ready", "gone"}],
         routes' \in [Players -> Matches \cup {None}]
  PROVE  Typed'
BY DEF Typed, TypeOK, Tasks, TaskOK, Is

LEMMA SpawnIs ==
  ASSUME Typed, NEW k, Spawn(k)
  PROVE  \E t \in Threads : tasks[t].pc = "idle" /\ tasks' = [tasks EXCEPT ![t] = k]
BY DEF Spawn, Is

LEMMA AtNowhere ==
  /\ Offline \in [m : Matches \cup {None}, reg : 0..MaxRegs] /\ Offline.m = None
  /\ Choosing \in [m : Matches \cup {None}, reg : 0..MaxRegs] /\ Choosing.m = None
BY ProxyAssumption DEF Offline, Choosing

LEMMA InitHolds == Init => ProxyInv
<1> SUFFICES ASSUME Init
             PROVE  ProxyInv
  OBVIOUS
<1>1. \A t \in Threads : tasks[t] = IdleTask
  BY DEF Init
<1>2. \A p \in Players : at[p].m = None
  BY AtNowhere DEF Init
<1>3. Typed
  BY <1>1, IdleTaskIs, AtNowhere, ProxyAssumption DEF Init, Typed, TypeOK, Is
<1>4. Safe
  BY <1>1, <1>2, IdleTaskIs DEF Init, Safe, UsesTheListed, CleansTheEmpty, ForgetsTheGone,
     OccupiedIsListed, NoneIsForgotten, On
<1> QED
  BY <1>3, <1>4 DEF ProxyInv

-----------------------------------------------------------------------------
(* Steps that bring nobody to a server and use no registration *)

(* A task that goes on where it was, or begins or ends something else. *)
Follows(t) ==
  \/ tasks'[t].pc = tasks[t].pc /\ tasks'[t].m = tasks[t].m /\ tasks'[t].reg = tasks[t].reg
  \/ tasks[t].pc \notin {"put", "forget"} /\ tasks'[t].pc \in {"idle", "fetch", "lookup", "clean"}

LEMMA QuietSafe ==
  ASSUME Typed, Safe, UNCHANGED <<regs, listed, dynamic, raced>>,
         \A t \in Threads : Follows(t),
         \A p \in Players : at'[p] = at[p] \/ at'[p].m = None
  PROVE  Safe'
<1>1. UsesTheListed'
  BY DEF Safe, UsesTheListed, Follows
<1>2. ASSUME NEW m
      PROVE  OnTheWay(m)' => OnTheWay(m)
  BY DEF OnTheWay, Follows
<1>3. CleansTheEmpty'
  <2> SUFFICES ASSUME NEW t \in Threads, NEW m, tasks'[t].pc \in {"unregister", "forget"},
                      tasks'[t].m = m, m \notin raced
               PROVE  ~OnTheWay(m)' /\ \A p \in Players : at'[p].m # m
    BY DEF CleansTheEmpty, OnTheWay
  <2>1. tasks[t].pc = tasks'[t].pc /\ tasks[t].m = m
    BY DEF Follows
  <2>2. ~OnTheWay(m) /\ \A p \in Players : at[p].m # m
    BY <2>1 DEF Safe, CleansTheEmpty
  <2>3. ~OnTheWay(m)'
    BY <1>2, <2>2
  <2>4. m # None
    BY <2>1 DEF Typed, TaskOK
  <2>5. \A p \in Players : at'[p].m # m
    BY <2>2, <2>4
  <2> QED
    BY <2>3, <2>5
<1>4. ForgetsTheGone'
  BY DEF Safe, ForgetsTheGone, Follows
<1>5. OccupiedIsListed'
  BY DEF Safe, OccupiedIsListed, On
<1>6. NoneIsForgotten'
  BY DEF Safe, NoneIsForgotten, Follows
<1> QED
  BY <1>1, <1>3, <1>4, <1>5, <1>6 DEF Safe

(* One task changes, to one that uses no registration. *)
LEMMA OneTaskFollows ==
  ASSUME Typed, NEW t \in Threads, tasks[t].pc \notin {"put", "forget"},
         NEW k, k.pc \in {"idle", "fetch", "lookup", "clean"}, tasks' = [tasks EXCEPT ![t] = k]
  PROVE  \A u \in Threads : Follows(u)
BY DEF Follows, Typed

LEMMA LoginKeeps ==
  ASSUME ProxyInv, NEW p \in Players, Login(p)
  PROVE  ProxyInv'
<1>1. /\ UNCHANGED <<regs, listed, dynamic, socket, server, routes, raced>>
      /\ at' = [at EXCEPT ![p] = Choosing] /\ logins' = logins + 1 /\ logins < MaxLogins
  BY DEF Login
<1>0. PICK k : k = [IdleTask EXCEPT !.pc = "fetch", !.p = p]
  OBVIOUS
<1>2. k.pc = "fetch" /\ k \in Tasks /\ TaskOK(k)
  <2>1. /\ k.pc = "fetch" /\ k.p = p /\ k.m = None /\ k.todo = {}
        /\ k \in Tasks
    BY <1>0, IdleTaskIs DEF Tasks, Points
  <2> QED
    BY <2>1, ProxyAssumption DEF TaskOK
<1>3. Spawn(k)
  BY <1>0 DEF Login
<1>4. PICK t \in Threads : tasks[t].pc = "idle" /\ tasks' = [tasks EXCEPT ![t] = k]
  BY <1>3, SpawnIs DEF ProxyInv
<1>5. \A q \in Players : at'[q] = at[q] \/ at'[q].m = None
  BY <1>1, AtNowhere DEF ProxyInv, Typed, TypeOK
<1>6. Typed'
  <2>1. tasks' \in [Threads -> Tasks] /\ \A u \in Threads : TaskOK(tasks'[u])
    BY <1>2, <1>4, TasksTyped DEF ProxyInv
  <2>2. logins' \in 0..MaxLogins
    BY <1>1, ProxyAssumption DEF ProxyInv, Typed, TypeOK
  <2>3. at' \in [Players -> [m : Matches \cup {None}, reg : 0..MaxRegs]]
    BY <1>1, AtNowhere DEF ProxyInv, Typed, TypeOK
  <2> QED
    BY <1>1, <2>1, <2>2, <2>3, TypedFrom DEF ProxyInv, Typed, TypeOK
<1>7. Safe'
  <2>1. \A u \in Threads : Follows(u)
    BY <1>2, <1>4, OneTaskFollows DEF Follows, ProxyInv, Typed
  <2> QED
    BY <1>1, <1>5, <2>1, QuietSafe DEF ProxyInv
<1> QED
  BY <1>6, <1>7 DEF ProxyInv

LEMMA FetchRouteKeeps ==
  ASSUME ProxyInv, NEW t \in Threads, FetchRoute(t)
  PROVE  ProxyInv'
<1> DEFINE r == routes[tasks[t].p]
<1>1. /\ UNCHANGED <<regs, listed, dynamic, at, socket, logins, server, routes, raced>>
      /\ tasks[t].pc = "fetch" /\ r # None
  BY DEF FetchRoute, Is
<1>2. tasks[t] \in Tasks /\ TaskOK(tasks[t]) /\ r \in Matches
  <2>1. tasks[t] \in Tasks /\ TaskOK(tasks[t])
    BY DEF ProxyInv, Typed
  <2>2. tasks[t].p \in Players
    BY <1>1, <2>1 DEF TaskOK
  <2> QED
    BY <1>1, <2>1, <2>2 DEF ProxyInv, Typed, TypeOK
<1>3. PICK k : k = [tasks[t] EXCEPT !.pc = "lookup", !.m = r]
  OBVIOUS
<1>4. tasks' = [tasks EXCEPT ![t] = k]
  BY <1>3 DEF FetchRoute, ProxyInv, Typed
<1>5. k \in Tasks /\ TaskOK(k) /\ k.pc = "lookup"
  BY <1>1, <1>2, <1>3, ProxyAssumption DEF Tasks, Points, TaskOK
<1>6. Typed'
  BY <1>1, <1>4, <1>5, TasksTyped, TypedFrom DEF ProxyInv, Typed, TypeOK
<1>7. Safe'
  <2>1. tasks[t].pc \notin {"put", "forget"} /\ k.pc \in {"idle", "fetch", "lookup", "clean"}
    BY <1>1, <1>5
  <2>2. \A q \in Players : at'[q] = at[q] \/ at'[q].m = None
    BY <1>1
  <2>3. \A u \in Threads : Follows(u)
    BY <1>4, <2>1, OneTaskFollows DEF Follows, ProxyInv, Typed
  <2> QED
    BY <1>1, <2>2, <2>3, QuietSafe DEF ProxyInv
<1> QED
  BY <1>6, <1>7 DEF ProxyInv

LEMMA TurnAwayKeeps ==
  ASSUME ProxyInv, NEW t \in Threads, TurnAway(t), tasks[t].pc \in {"fetch", "enter"}
  PROVE  ProxyInv'
<1>1. /\ UNCHANGED <<regs, listed, dynamic, socket, logins, server, routes, raced>>
      /\ at' = [at EXCEPT ![tasks[t].p] = Offline]
      /\ tasks' = [tasks EXCEPT ![t] = Cleanup(dynamic)]
  BY DEF TurnAway
<1>2. dynamic \subseteq Matches /\ at \in [Players -> [m : Matches \cup {None}, reg : 0..MaxRegs]]
  BY DEF ProxyInv, Typed, TypeOK
<1>3. /\ Cleanup(dynamic) \in Tasks /\ TaskOK(Cleanup(dynamic))
      /\ Cleanup(dynamic).pc \in {"idle", "fetch", "lookup", "clean"}
  BY <1>2, CleanupIs
<1>4. \A q \in Players : at'[q] = at[q] \/ at'[q].m = None
  BY <1>1, <1>2, AtNowhere
<1>5. at' \in [Players -> [m : Matches \cup {None}, reg : 0..MaxRegs]]
  BY <1>1, <1>2, AtNowhere
<1>6. Typed'
  BY <1>1, <1>3, <1>5, TasksTyped, TypedFrom DEF ProxyInv, Typed, TypeOK
<1>7. Safe'
  <2>1. tasks[t].pc \notin {"put", "forget"}
    OBVIOUS
  <2>2. \A u \in Threads : Follows(u)
    BY <1>1, <1>3, <2>1, OneTaskFollows DEF Follows, ProxyInv, Typed
  <2> QED
    BY <1>1, <1>4, <2>2, QuietSafe DEF ProxyInv
<1> QED
  BY <1>6, <1>7 DEF ProxyInv

LEMMA DisconnectKeeps ==
  ASSUME ProxyInv, NEW p \in Players, Disconnect(p)
  PROVE  ProxyInv'
<1>1. /\ UNCHANGED <<regs, listed, dynamic, socket, logins, server, routes, raced>>
      /\ at' = [at EXCEPT ![p] = Offline] /\ Spawn(Cleanup(dynamic))
  BY DEF Disconnect
<1>2. dynamic \subseteq Matches /\ at \in [Players -> [m : Matches \cup {None}, reg : 0..MaxRegs]]
  BY DEF ProxyInv, Typed, TypeOK
<1>3. /\ Cleanup(dynamic) \in Tasks /\ TaskOK(Cleanup(dynamic))
      /\ Cleanup(dynamic).pc \in {"idle", "fetch", "lookup", "clean"}
  BY <1>2, CleanupIs
<1>4. PICK t \in Threads : tasks[t].pc = "idle" /\ tasks' = [tasks EXCEPT ![t] = Cleanup(dynamic)]
  BY <1>1, SpawnIs DEF ProxyInv
<1>5. \A q \in Players : at'[q] = at[q] \/ at'[q].m = None
  BY <1>1, <1>2, AtNowhere
<1>6. at' \in [Players -> [m : Matches \cup {None}, reg : 0..MaxRegs]]
  BY <1>1, <1>2, AtNowhere
<1>7. Typed'
  BY <1>1, <1>3, <1>4, <1>6, TasksTyped, TypedFrom DEF ProxyInv, Typed, TypeOK
<1>8. Safe'
  <2>1. tasks[t].pc \notin {"put", "forget"}
    BY <1>4
  <2>2. \A u \in Threads : Follows(u)
    BY <1>3, <1>4, <2>1, OneTaskFollows DEF Follows, ProxyInv, Typed
  <2> QED
    BY <1>1, <1>5, <2>2, QuietSafe DEF ProxyInv
<1> QED
  BY <1>7, <1>8 DEF ProxyInv

LEMMA MoveNotKeeps ==
  ASSUME ProxyInv, NEW t \in Threads, NEW p \in Players, MoveNot(t, p)
  PROVE  ProxyInv'
<1>1. /\ UNCHANGED <<regs, listed, dynamic, at, socket, logins, server, routes, raced>>
      /\ tasks[t].pc = "move" /\ p = First(tasks[t].todo)
      /\ tasks' = [tasks EXCEPT ![t] = Rest(tasks[t], p)]
  BY DEF MoveNot, Is
<1>2. tasks[t] \in Tasks /\ TaskOK(tasks[t])
  BY DEF ProxyInv, Typed
<1>3. p \in tasks[t].todo
  BY <1>1, <1>2, FirstIn DEF TaskOK
<1>4. PICK k : k = Rest(tasks[t], p)
  OBVIOUS
<1>5. /\ k \in Tasks /\ TaskOK(k)
      /\ k.pc = "idle" \/ (k.pc = "move" /\ k.m = tasks[t].m /\ k.reg = tasks[t].reg)
  BY <1>1, <1>2, <1>3, <1>4, RestIs
<1>6. Typed'
  BY <1>1, <1>4, <1>5, TasksTyped, TypedFrom DEF ProxyInv, Typed, TypeOK
<1>7. \A u \in Threads : Follows(u)
  BY <1>1, <1>4, <1>5 DEF Follows, ProxyInv, Typed
<1>8. Safe'
  BY <1>1, <1>7, QuietSafe DEF ProxyInv
<1> QED
  BY <1>6, <1>8 DEF ProxyInv

LEMMA BecomeReadyKeeps ==
  ASSUME ProxyInv, NEW m \in Matches, BecomeReady(m)
  PROVE  ProxyInv'
<1>1. /\ UNCHANGED <<regs, listed, dynamic, at, socket, logins, raced>>
      /\ server' = [server EXCEPT ![m] = "ready"] /\ routes' = [p \in Players |-> m]
  BY DEF BecomeReady
<1>2. PICK k : k = [IdleTask EXCEPT !.pc = "lookup", !.m = m, !.todo = Players]
  OBVIOUS
<1>4. Spawn(k) \/ tasks' = tasks
  BY <1>2 DEF BecomeReady
<1>5. k.pc = "lookup" /\ k \in Tasks /\ TaskOK(k)
  <2>1. Players \in SUBSET (Players \cup Matches)
    OBVIOUS
  <2>2. /\ k.pc = "lookup" /\ k.m = m /\ k.p = None /\ k.todo = Players
        /\ k \in Tasks
    BY <1>2, <2>1, IdleTaskIs DEF Tasks, Points
  <2> QED
    BY <2>2, ProxyAssumption DEF TaskOK
<1>6. /\ server' \in [Matches -> {"booting", "ready", "gone"}]
      /\ routes' \in [Players -> Matches \cup {None}]
  BY <1>1 DEF ProxyInv, Typed, TypeOK
<1>7. CASE tasks' = tasks
  <2>1. Typed'
    BY <1>1, <1>6, <1>7, TypedFrom DEF ProxyInv, Typed, TypeOK
  <2>2. Safe'
    BY <1>1, <1>7, QuietSafe DEF ProxyInv, Follows
  <2> QED
    BY <2>1, <2>2 DEF ProxyInv
<1>8. CASE Spawn(k)
  <2>1. PICK t \in Threads : tasks[t].pc = "idle" /\ tasks' = [tasks EXCEPT ![t] = k]
    BY <1>8, SpawnIs DEF ProxyInv
  <2>2. Typed'
    BY <1>1, <1>6, <1>5, <2>1, TasksTyped, TypedFrom DEF ProxyInv, Typed, TypeOK
  <2>3. Safe'
    <3>1. tasks[t].pc \notin {"put", "forget"} /\ k.pc \in {"idle", "fetch", "lookup", "clean"}
      BY <1>5, <2>1
    <3>2. \A q \in Players : at'[q] = at[q] \/ at'[q].m = None
      BY <1>1
    <3>3. \A u \in Threads : Follows(u)
      BY <2>1, <3>1, OneTaskFollows DEF Follows, ProxyInv, Typed
    <3> QED
      BY <1>1, <3>2, <3>3, QuietSafe DEF ProxyInv
  <2> QED
    BY <2>2, <2>3 DEF ProxyInv
<1> QED
  BY <1>7, <1>8, <1>4

LEMMA WorldKeeps ==
  ASSUME ProxyInv, (\E m \in Matches : EndMatch(m)) \/ SocketOpens \/ SocketLost \/ Reconnect
  PROVE  ProxyInv'
<1>1. UNCHANGED <<regs, listed, dynamic, at, tasks, logins, raced>>
  BY DEF EndMatch, SocketOpens, SocketLost, Reconnect
<1>2. /\ socket' \in {"connecting", "open", "scheduled"}
      /\ server' \in [Matches -> {"booting", "ready", "gone"}]
      /\ routes' \in [Players -> Matches \cup {None}]
  BY DEF EndMatch, SocketOpens, SocketLost, Reconnect, ProxyInv, Typed, TypeOK
<1>3. Typed'
  BY <1>1, <1>2, TypedFrom DEF ProxyInv, Typed, TypeOK
<1>4. Safe'
  BY <1>1, QuietSafe DEF ProxyInv, Follows
<1> QED
  BY <1>3, <1>4 DEF ProxyInv

-----------------------------------------------------------------------------
(* Steps that register a server and use the registration *)

LEMMA TaskOf ==
  ASSUME Typed, NEW t \in Threads
  PROVE  /\ tasks[t] \in Tasks /\ TaskOK(tasks[t])
         /\ tasks[t].pc \notin {"idle", "fetch", "clean"} => tasks[t].m \in Matches
BY DEF Typed, Tasks, TaskOK

(* One thread changes: what the others are at stays. *)
LEMMA Others ==
  ASSUME Typed, NEW t \in Threads, NEW k, tasks' = [tasks EXCEPT ![t] = k]
  PROVE  tasks'[t] = k /\ \A u \in Threads \ {t} : tasks'[u] = tasks[u]
BY DEF Typed

(* A thread is on the way to a match only if it was, or the step took it there. *)
LEMMA OnTheWayFrom ==
  ASSUME NEW t \in Threads, \A u \in Threads \ {t} : tasks'[u] = tasks[u],
         NEW m, tasks'[t].m # m \/ tasks'[t].pc \notin {"register", "put", "enter", "move"}
                \/ OnTheWay(m),
         OnTheWay(m)'
  PROVE  OnTheWay(m)
BY DEF OnTheWay

LEMMA LookUpKeeps ==
  ASSUME ProxyInv, NEW t \in Threads, LookUp(t)
  PROVE  ProxyInv'
<1> DEFINE m == tasks[t].m
<1>1. /\ UNCHANGED <<regs, listed, dynamic, at, socket, logins, server, routes>>
      /\ tasks[t].pc = "lookup"
      /\ raced' = IF Cleaning(m) THEN raced \cup {m} ELSE raced
  BY DEF LookUp, Is, Race
<1>2. Typed /\ Safe
  BY DEF ProxyInv
<1>3. tasks[t] \in Tasks /\ TaskOK(tasks[t]) /\ m \in Matches
  BY <1>1, <1>2, TaskOf
<1>4. PICK k : k = IF m \in listed THEN [tasks[t] EXCEPT !.pc = "put", !.reg = regs[m]]
                   ELSE [tasks[t] EXCEPT !.pc = "register"]
  OBVIOUS
<1>5. tasks' = [tasks EXCEPT ![t] = k]
  BY <1>4 DEF LookUp
<1>6. regs[m] \in 0..MaxRegs
  BY <1>2, <1>3 DEF Typed, TypeOK
<1>7. /\ k \in Tasks /\ TaskOK(k) /\ k.m = m
      /\ \/ k.pc = "register"
         \/ k.pc = "put" /\ m \in listed /\ k.reg = regs[m]
  <2>1. CASE m \in listed
    <3>1. k = [tasks[t] EXCEPT !.pc = "put", !.reg = regs[m]]
      BY <1>4, <2>1
    <3>2. /\ k \in Tasks /\ k.pc = "put" /\ k.m = m /\ k.reg = regs[m]
          /\ k.p = tasks[t].p /\ k.todo = tasks[t].todo
      BY <1>3, <1>6, <3>1 DEF Tasks, Points
    <3> QED
      BY <1>1, <1>3, <2>1, <3>2 DEF TaskOK
  <2>2. CASE m \notin listed
    <3>1. k = [tasks[t] EXCEPT !.pc = "register"]
      BY <1>4, <2>2
    <3>2. /\ k \in Tasks /\ k.pc = "register" /\ k.m = m
          /\ k.p = tasks[t].p /\ k.todo = tasks[t].todo
      BY <1>3, <3>1 DEF Tasks, Points
    <3> QED
      BY <1>1, <1>3, <3>2 DEF TaskOK
  <2> QED
    BY <2>1, <2>2
<1>8. raced \subseteq raced' /\ raced' \subseteq Matches
  BY <1>1, <1>2, <1>3 DEF Typed, TypeOK
<1>9. Typed'
  <2>1. tasks' \in [Threads -> Tasks] /\ \A u \in Threads : TaskOK(tasks'[u])
    BY <1>2, <1>5, <1>7, TasksTyped
  <2> QED
    BY <1>1, <1>2, <1>8, <2>1, TypedFrom DEF Typed, TypeOK
<1>10. tasks'[t] = k /\ \A u \in Threads \ {t} : tasks'[u] = tasks[u]
  BY <1>2, <1>5, Others
<1>11. UsesTheListed'
  BY <1>1, <1>2, <1>7, <1>8, <1>10 DEF Safe, UsesTheListed
<1>12. CleansTheEmpty'
  <2> SUFFICES ASSUME NEW u \in Threads, NEW n, tasks'[u].pc \in {"unregister", "forget"},
                      tasks'[u].m = n, n \notin raced'
               PROVE  ~OnTheWay(n)' /\ \A p \in Players : at'[p].m # n
    BY DEF CleansTheEmpty, OnTheWay
  <2>1. u # t /\ tasks'[u] = tasks[u]
    BY <1>7, <1>10
  <2>2. n # m
    BY <1>1, <2>1 DEF Cleaning
  <2>3. ~OnTheWay(n) /\ \A p \in Players : at[p].m # n
    BY <1>2, <1>8, <2>1 DEF Safe, CleansTheEmpty
  <2>4. ~OnTheWay(n)'
    BY <1>7, <1>10, <2>2, <2>3, OnTheWayFrom
  <2> QED
    BY <1>1, <2>3, <2>4
<1>13. ForgetsTheGone'
  BY <1>1, <1>2, <1>7, <1>8, <1>10 DEF Safe, ForgetsTheGone
<1>14. OccupiedIsListed'
  BY <1>1, <1>2, <1>8 DEF Safe, OccupiedIsListed, On
<1>15. NoneIsForgotten'
  BY <1>1, <1>2, <1>8, <1>10 DEF Safe, NoneIsForgotten
<1> QED
  BY <1>9, <1>11, <1>12, <1>13, <1>14, <1>15 DEF ProxyInv, Safe

LEMMA RegisterKeeps ==
  ASSUME ProxyInv, NEW t \in Threads, Register(t)
  PROVE  ProxyInv'
<1> DEFINE m == tasks[t].m
<1>1. /\ UNCHANGED <<dynamic, at, socket, logins, server, routes, raced>>
      /\ m \in listed \/ regs[m] < MaxRegs
      /\ regs' = IF m \in listed THEN regs ELSE [regs EXCEPT ![m] = @ + 1]
      /\ listed' = listed \cup {m}
  BY DEF Register, Is
<1>1a. tasks[t].pc = "register"
  BY DEF Register, Is
<1>2. Typed /\ Safe
  BY DEF ProxyInv
<1>3. tasks[t] \in Tasks /\ TaskOK(tasks[t]) /\ m \in Matches
  BY <1>1a, <1>2, TaskOf
<1>4. PICK k : k = [tasks[t] EXCEPT !.pc = "put", !.reg = regs'[m]]
  OBVIOUS
<1>5. tasks' = [tasks EXCEPT ![t] = k]
  <2>1. PICK r : r = regs'[m]
    OBVIOUS
  <2>2. tasks' = [tasks EXCEPT ![t].pc = "put", ![t].reg = r]
    BY <2>1 DEF Register
  <2>3. k = [tasks[t] EXCEPT !.pc = "put", !.reg = r]
    BY <1>4, <2>1
  <2> QED
    BY <1>2, <2>2, <2>3 DEF Typed
<1>6. /\ regs' \in [Matches -> 0..MaxRegs]
      /\ \A n \in Matches : regs'[n] = regs[n] \/ (n = m /\ m \notin listed)
  <2>1. regs \in [Matches -> 0..MaxRegs]
    BY <1>2 DEF Typed, TypeOK
  <2>2. CASE m \in listed
    BY <1>1, <2>1, <2>2
  <2>3. CASE m \notin listed
    BY <1>1, <1>3, <2>1, <2>3, ProxyAssumption
  <2> QED
    BY <2>2, <2>3
<1>7. k \in Tasks /\ TaskOK(k) /\ k.m = m /\ k.pc = "put" /\ k.reg = regs'[m]
  <2>1. /\ k \in Tasks /\ k.pc = "put" /\ k.m = m /\ k.reg = regs'[m]
        /\ k.p = tasks[t].p /\ k.todo = tasks[t].todo
    BY <1>3, <1>4, <1>6 DEF Tasks, Points
  <2> QED
    BY <1>1a, <1>3, <2>1 DEF TaskOK
<1>8. listed' \subseteq Matches
  BY <1>1, <1>2, <1>3 DEF Typed, TypeOK
<1>9. Typed'
  <2>1. tasks' \in [Threads -> Tasks] /\ \A u \in Threads : TaskOK(tasks'[u])
    BY <1>2, <1>5, <1>7, TasksTyped
  <2> QED
    BY <1>1, <1>2, <1>6, <1>8, <2>1, TypedFrom DEF Typed, TypeOK
<1>10. tasks'[t] = k /\ \A u \in Threads \ {t} : tasks'[u] = tasks[u]
  BY <1>2, <1>5, Others
<1>11. UsesTheListed'
  <2> SUFFICES ASSUME NEW u \in Threads, tasks'[u].pc \in {"put", "enter", "move"},
                      tasks'[u].m \notin raced
               PROVE  tasks'[u].m \in listed' /\ tasks'[u].reg = regs'[tasks'[u].m]
    BY <1>1 DEF UsesTheListed
  <2>1. CASE u = t
    BY <1>1, <1>7, <1>10, <2>1
  <2>2. CASE u # t
    <3>1. tasks[u].m \in listed /\ tasks[u].reg = regs[tasks[u].m] /\ tasks'[u] = tasks[u]
      BY <1>2, <1>10, <2>2 DEF Safe, UsesTheListed
    <3>2. tasks[u].m \in Matches
      BY <1>2, <3>1 DEF Typed, TypeOK
    <3> QED
      BY <1>1, <1>6, <3>1, <3>2
  <2> QED
    BY <2>1, <2>2
<1>11a. OnTheWay(m)
  BY <1>1a DEF OnTheWay
<1>12. CleansTheEmpty'
  <2> SUFFICES ASSUME NEW u \in Threads, NEW n, tasks'[u].pc \in {"unregister", "forget"},
                      tasks'[u].m = n, n \notin raced
               PROVE  ~OnTheWay(n)' /\ \A p \in Players : at'[p].m # n
    BY <1>1 DEF CleansTheEmpty, OnTheWay
  <2>1. u # t /\ tasks'[u] = tasks[u]
    BY <1>7, <1>10
  <2>3. ~OnTheWay(n) /\ \A p \in Players : at[p].m # n
    BY <1>2, <2>1 DEF Safe, CleansTheEmpty
  <2>4. ~OnTheWay(n)'
    BY <1>7, <1>10, <1>11a, <2>3, OnTheWayFrom
  <2> QED
    BY <1>1, <2>3, <2>4
<1>13. ForgetsTheGone'
  <2> SUFFICES ASSUME NEW u \in Threads, tasks'[u].pc = "forget", tasks'[u].m \notin raced
               PROVE  tasks'[u].m \notin listed'
    BY <1>1 DEF ForgetsTheGone
  <2>1. u # t /\ tasks'[u] = tasks[u]
    BY <1>7, <1>10
  <2>2. tasks[u].m \notin listed
    BY <1>2, <2>1 DEF Safe, ForgetsTheGone
  <2>3. tasks[u].m # m
    BY <1>2, <1>11a, <2>1 DEF Safe, CleansTheEmpty
  <2> QED
    BY <1>1, <2>1, <2>2, <2>3
<1>14. OccupiedIsListed'
  <2> SUFFICES ASSUME NEW p \in Players, at[p].m # None, at[p].m \notin raced
               PROVE  at[p].m \in listed' /\ at[p].reg = regs'[at[p].m]
    BY <1>1 DEF OccupiedIsListed, On
  <2>1. at[p].m \in listed /\ at[p].reg = regs[at[p].m]
    BY <1>2 DEF Safe, OccupiedIsListed, On
  <2>2. at[p].m \in Matches
    BY <1>2, <2>1 DEF Typed, TypeOK
  <2> QED
    BY <1>1, <1>6, <2>1, <2>2
<1>15. NoneIsForgotten'
  <2> SUFFICES ASSUME NEW n \in listed' \ dynamic, n \notin raced
               PROVE  \E u \in Threads : tasks'[u].m = n /\ tasks'[u].pc \in {"put", "forget"}
    BY <1>1 DEF NoneIsForgotten
  <2>1. CASE n = m
    BY <1>7, <1>10, <2>1
  <2>2. CASE n # m
    <3>1. PICK u \in Threads : tasks[u].m = n /\ tasks[u].pc \in {"put", "forget"}
      BY <1>1, <1>2, <2>2 DEF Safe, NoneIsForgotten
    <3> QED
      BY <1>1a, <1>10, <3>1
  <2> QED
    BY <2>1, <2>2
<1> QED
  BY <1>9, <1>11, <1>12, <1>13, <1>14, <1>15 DEF ProxyInv, Safe

LEMMA PutKeeps ==
  ASSUME ProxyInv, NEW t \in Threads, Put(t)
  PROVE  ProxyInv'
<1> DEFINE m == tasks[t].m
<1>1. /\ UNCHANGED <<regs, listed, at, socket, logins, server, routes, raced>>
      /\ tasks[t].pc = "put" /\ dynamic' = dynamic \cup {m}
      /\ tasks' = [tasks EXCEPT ![t].pc = Registered(t)]
  BY DEF Put, Is, Continue
<1>2. Typed /\ Safe
  BY DEF ProxyInv
<1>3. tasks[t] \in Tasks /\ TaskOK(tasks[t]) /\ m \in Matches
  BY <1>1, <1>2, TaskOf
<1>4. PICK k : k = [tasks[t] EXCEPT !.pc = Registered(t)]
  OBVIOUS
<1>5. tasks' = [tasks EXCEPT ![t] = k]
  BY <1>1, <1>2, <1>4 DEF Typed
<1>7. k \in Tasks /\ TaskOK(k) /\ k.m = m /\ k.pc \in {"enter", "move"} /\ k.reg = tasks[t].reg
  <2>1. /\ k \in Tasks /\ k.pc = Registered(t) /\ k.m = m /\ k.reg = tasks[t].reg
        /\ k.p = tasks[t].p /\ k.todo = tasks[t].todo
    BY <1>3, <1>4 DEF Tasks, Points, Registered
  <2>2. k.p \in Players \/ k.p = None
    BY <2>1 DEF Tasks
  <2> QED
    BY <1>1, <1>3, <2>1, <2>2 DEF TaskOK, Registered
<1>8. dynamic \subseteq dynamic' /\ dynamic' \subseteq Matches
  BY <1>1, <1>2, <1>3 DEF Typed, TypeOK
<1>9. Typed'
  <2>1. tasks' \in [Threads -> Tasks] /\ \A u \in Threads : TaskOK(tasks'[u])
    BY <1>2, <1>5, <1>7, TasksTyped
  <2> QED
    BY <1>1, <1>2, <1>8, <2>1, TypedFrom DEF Typed, TypeOK
<1>10. tasks'[t] = k /\ \A u \in Threads \ {t} : tasks'[u] = tasks[u]
  BY <1>2, <1>5, Others
<1>11. UsesTheListed'
  BY <1>1, <1>2, <1>7, <1>10 DEF Safe, UsesTheListed
<1>11a. OnTheWay(m)
  BY <1>1 DEF OnTheWay
<1>12. CleansTheEmpty'
  <2> SUFFICES ASSUME NEW u \in Threads, NEW n, tasks'[u].pc \in {"unregister", "forget"},
                      tasks'[u].m = n, n \notin raced
               PROVE  ~OnTheWay(n)' /\ \A p \in Players : at'[p].m # n
    BY <1>1 DEF CleansTheEmpty, OnTheWay
  <2>1. u # t /\ tasks'[u] = tasks[u]
    BY <1>7, <1>10
  <2>3. ~OnTheWay(n) /\ \A p \in Players : at[p].m # n
    BY <1>2, <2>1 DEF Safe, CleansTheEmpty
  <2>4. ~OnTheWay(n)'
    BY <1>7, <1>10, <1>11a, <2>3, OnTheWayFrom
  <2> QED
    BY <1>1, <2>3, <2>4
<1>13. ForgetsTheGone'
  <2> SUFFICES ASSUME NEW u \in Threads, tasks'[u].pc = "forget", tasks'[u].m \notin raced
               PROVE  tasks'[u].m \notin listed
    BY <1>1 DEF ForgetsTheGone
  <2>1. tasks'[u] = tasks[u]
    BY <1>7, <1>10
  <2> QED
    BY <1>2, <2>1 DEF Safe, ForgetsTheGone
<1>14. OccupiedIsListed'
  BY <1>1, <1>2 DEF Safe, OccupiedIsListed, On
<1>15. NoneIsForgotten'
  <2> SUFFICES ASSUME NEW n \in listed \ dynamic', n \notin raced
               PROVE  \E u \in Threads : tasks'[u].m = n /\ tasks'[u].pc \in {"put", "forget"}
    BY <1>1 DEF NoneIsForgotten
  <2>1. PICK u \in Threads : tasks[u].m = n /\ tasks[u].pc \in {"put", "forget"}
    BY <1>2, <1>8 DEF Safe, NoneIsForgotten
  <2>2. u # t
    BY <1>1, <2>1
  <2> QED
    BY <1>10, <2>1, <2>2
<1> QED
  BY <1>9, <1>11, <1>12, <1>13, <1>14, <1>15 DEF ProxyInv, Safe

-----------------------------------------------------------------------------
(* Steps that bring somebody to a server *)

LEMMA ArrivalSafe ==
  ASSUME Typed, Safe, UNCHANGED <<regs, listed, dynamic, raced>>,
         NEW t \in Threads, tasks[t].pc \in {"enter", "move"},
         \A u \in Threads : Follows(u),
         \A q \in Players : at'[q] = at[q] \/ at'[q] = Here(t)
  PROVE  Safe'
<1> DEFINE m == tasks[t].m
<1>1. OnTheWay(m) /\ Here(t).m = m /\ Here(t).reg = tasks[t].reg
  BY DEF OnTheWay, Here
<1>2. m \in raced \/ (m \in listed /\ tasks[t].reg = regs[m])
  BY DEF Safe, UsesTheListed
<1>3. ASSUME NEW n
      PROVE  OnTheWay(n)' => OnTheWay(n)
  BY DEF OnTheWay, Follows
<1>4. UsesTheListed'
  BY DEF Safe, UsesTheListed, Follows
<1>5. CleansTheEmpty'
  <2> SUFFICES ASSUME NEW u \in Threads, NEW n, tasks'[u].pc \in {"unregister", "forget"},
                      tasks'[u].m = n, n \notin raced
               PROVE  ~OnTheWay(n)' /\ \A q \in Players : at'[q].m # n
    BY DEF CleansTheEmpty, OnTheWay
  <2>1. tasks[u].pc = tasks'[u].pc /\ tasks[u].m = n
    BY DEF Follows
  <2>2. ~OnTheWay(n) /\ \A q \in Players : at[q].m # n
    BY <2>1 DEF Safe, CleansTheEmpty
  <2>3. ~OnTheWay(n)'
    BY <1>3, <2>2
  <2>4. \A q \in Players : at'[q].m # n
    BY <1>1, <2>2
  <2> QED
    BY <2>3, <2>4
<1>6. ForgetsTheGone'
  BY DEF Safe, ForgetsTheGone, Follows
<1>7. OccupiedIsListed'
  BY <1>1, <1>2 DEF Safe, OccupiedIsListed, On
<1>8. NoneIsForgotten'
  BY DEF Safe, NoneIsForgotten, Follows
<1> QED
  BY <1>4, <1>5, <1>6, <1>7, <1>8 DEF Safe

LEMMA HereTyped ==
  ASSUME Typed, NEW t \in Threads
  PROVE  Here(t) \in [m : Matches \cup {None}, reg : 0..MaxRegs]
BY DEF Typed, TypeOK, Here

LEMMA EnterKeeps ==
  ASSUME ProxyInv, NEW t \in Threads, Enter(t)
  PROVE  ProxyInv'
<1>1. /\ UNCHANGED <<regs, listed, dynamic, socket, logins, server, routes, raced>>
      /\ tasks[t].pc = "enter" /\ at' = [at EXCEPT ![tasks[t].p] = Here(t)]
      /\ tasks' = [tasks EXCEPT ![t] = IdleTask]
  BY DEF Enter, Is
<1>2. Typed /\ Safe
  BY DEF ProxyInv
<1>3. /\ at \in [Players -> [m : Matches \cup {None}, reg : 0..MaxRegs]]
      /\ Here(t) \in [m : Matches \cup {None}, reg : 0..MaxRegs]
  BY <1>2, HereTyped DEF Typed, TypeOK
<1>4. /\ at' \in [Players -> [m : Matches \cup {None}, reg : 0..MaxRegs]]
      /\ \A q \in Players : at'[q] = at[q] \/ at'[q] = Here(t)
  BY <1>1, <1>3
<1>5. Typed'
  <2>1. tasks' \in [Threads -> Tasks] /\ \A u \in Threads : TaskOK(tasks'[u])
    BY <1>1, <1>2, IdleTaskIs, TasksTyped
  <2> QED
    BY <1>1, <1>2, <1>4, <2>1, TypedFrom DEF Typed, TypeOK
<1>6. \A u \in Threads : Follows(u)
  BY <1>1, <1>2, IdleTaskIs DEF Follows, Typed
<1>7. Safe'
  BY <1>1, <1>2, <1>4, <1>6, ArrivalSafe
<1> QED
  BY <1>5, <1>7 DEF ProxyInv

LEMMA MoveKeeps ==
  ASSUME ProxyInv, NEW t \in Threads, NEW p \in Players, Move(t, p)
  PROVE  ProxyInv'
<1>1. /\ UNCHANGED <<regs, listed, dynamic, socket, logins, server, routes, raced>>
      /\ tasks[t].pc = "move" /\ p = First(tasks[t].todo) /\ at[p].m # None
      /\ at' = [at EXCEPT ![p] = Here(t)]
  BY DEF Move, Is, On
<1>2. PICK other \in Threads \ {t} :
        /\ tasks[other].pc = "idle"
        /\ tasks' = [tasks EXCEPT ![t] = Rest(tasks[t], p), ![other] = Cleanup({at[p].m})]
  BY DEF Move, Is
<1>3. Typed /\ Safe
  BY DEF ProxyInv
<1>4. /\ at \in [Players -> [m : Matches \cup {None}, reg : 0..MaxRegs]]
      /\ Here(t) \in [m : Matches \cup {None}, reg : 0..MaxRegs]
  BY <1>3, HereTyped DEF Typed, TypeOK
<1>5. /\ at' \in [Players -> [m : Matches \cup {None}, reg : 0..MaxRegs]]
      /\ \A q \in Players : at'[q] = at[q] \/ at'[q] = Here(t)
  BY <1>1, <1>4
<1>6. tasks[t] \in Tasks /\ TaskOK(tasks[t]) /\ tasks \in [Threads -> Tasks]
  BY <1>3 DEF Typed
<1>7. p \in tasks[t].todo
  BY <1>1, <1>6, FirstIn DEF TaskOK
<1>8. PICK k : k = Rest(tasks[t], p)
  OBVIOUS
<1>9. /\ k \in Tasks /\ TaskOK(k)
      /\ k.pc = "idle" \/ (k.pc = "move" /\ k.m = tasks[t].m /\ k.reg = tasks[t].reg)
  BY <1>1, <1>6, <1>7, <1>8, RestIs
<1>10. PICK c : c = Cleanup({at[p].m})
  OBVIOUS
<1>11. {at[p].m} \subseteq Matches
  BY <1>1, <1>4
<1>12. c \in Tasks /\ TaskOK(c) /\ c.pc \in {"idle", "clean"}
  BY <1>10, <1>11, CleanupIs
<1>13. /\ tasks' \in [Threads -> Tasks] /\ tasks'[t] = k /\ tasks'[other] = c
       /\ \A u \in Threads \ {t, other} : tasks'[u] = tasks[u]
  BY <1>2, <1>6, <1>8, <1>9, <1>10, <1>12
<1>14. Typed'
  <2>1. \A u \in Threads : TaskOK(tasks'[u])
    BY <1>3, <1>9, <1>12, <1>13 DEF Typed
  <2> QED
    BY <1>1, <1>3, <1>5, <1>13, <2>1, TypedFrom DEF Typed, TypeOK
<1>15. \A u \in Threads : Follows(u)
  BY <1>1, <1>2, <1>9, <1>12, <1>13 DEF Follows
<1>16. Safe'
  BY <1>1, <1>3, <1>5, <1>15, ArrivalSafe
<1> QED
  BY <1>14, <1>16 DEF ProxyInv

-----------------------------------------------------------------------------
(* Steps of a cleanup *)

LEMMA CheckDueKeeps ==
  ASSUME ProxyInv, NEW t \in Threads, NEW m \in Matches, tasks[t].pc = "clean",
         UNCHANGED <<regs, listed, dynamic, at, socket, logins, server, routes>>,
         NEW pc \in {"forget", "unregister"},
         pc = "forget" => m \notin listed, pc = "unregister" => ~Occupied(m),
         tasks' = [tasks EXCEPT ![t] = [tasks[t] EXCEPT !.pc = pc, !.m = m, !.todo = @ \ {m}]],
         Race(m, tasks'[t].m = m /\ OnTheWay(m))
  PROVE  ProxyInv'
<1>1. Typed /\ Safe
  BY DEF ProxyInv
<1>2. tasks[t] \in Tasks /\ TaskOK(tasks[t])
  BY <1>1 DEF Typed
<1>3. PICK S : S = tasks[t].todo \ {m}
  OBVIOUS
<1>4. S \in SUBSET (Players \cup Matches) /\ S \subseteq Matches
  BY <1>2, <1>3 DEF Tasks, TaskOK
<1>5. PICK k : k = [tasks[t] EXCEPT !.pc = pc, !.m = m, !.todo = S]
  OBVIOUS
<1>6. k \in Tasks /\ TaskOK(k) /\ k.pc = pc /\ k.m = m
  <2>1. k \in Tasks /\ k.pc = pc /\ k.m = m /\ k.todo = S /\ k.p = tasks[t].p
    BY <1>2, <1>4, <1>5 DEF Tasks, Points
  <2> QED
    BY <1>4, <2>1, ProxyAssumption DEF TaskOK
<1>7. tasks' = [tasks EXCEPT ![t] = k]
  BY <1>3, <1>5
<1>8. tasks'[t] = k /\ \A u \in Threads \ {t} : tasks'[u] = tasks[u]
  BY <1>1, <1>7, Others
<1>9. raced \subseteq raced' /\ raced' \subseteq Matches /\ (OnTheWay(m) => m \in raced')
  BY <1>1, <1>6, <1>8 DEF Race, Typed, TypeOK
<1>10. Typed'
  <2>1. tasks' \in [Threads -> Tasks] /\ \A u \in Threads : TaskOK(tasks'[u])
    BY <1>1, <1>6, <1>7, TasksTyped
  <2> QED
    BY <1>1, <1>9, <2>1, TypedFrom DEF Typed, TypeOK
<1>11. UsesTheListed'
  BY <1>1, <1>6, <1>8, <1>9 DEF Safe, UsesTheListed
<1>12. CleansTheEmpty'
  <2> SUFFICES ASSUME NEW u \in Threads, NEW n, tasks'[u].pc \in {"unregister", "forget"},
                      tasks'[u].m = n, n \notin raced'
               PROVE  ~OnTheWay(n)' /\ \A p \in Players : at'[p].m # n
    BY DEF CleansTheEmpty, OnTheWay
  <2>1. ~OnTheWay(n) /\ \A p \in Players : at[p].m # n
    <3>1. CASE u # t
      BY <1>1, <1>8, <1>9, <3>1 DEF Safe, CleansTheEmpty
    <3>2. CASE u = t
      <4>1. n = m /\ ~OnTheWay(m) /\ m \notin raced
        BY <1>6, <1>8, <1>9, <3>2
      <4>2. ASSUME NEW p \in Players, at[p].m = m
            PROVE  FALSE
        <5>1. m \in listed /\ at[p].reg = regs[m]
          BY <1>1, <4>1, <4>2, ProxyAssumption DEF Safe, OccupiedIsListed, On
        <5>2. at[p] \in [m : Matches \cup {None}, reg : 0..MaxRegs]
          BY <1>1 DEF Typed, TypeOK
        <5>3. at[p] = [m |-> m, reg |-> regs[m]]
          BY <4>2, <5>1, <5>2
        <5> QED
          BY <5>1, <5>3 DEF Occupied
      <4> QED
        BY <4>1, <4>2
    <3> QED
      BY <3>1, <3>2
  <2>2. ~OnTheWay(n)'
    BY <1>6, <1>8, <2>1, OnTheWayFrom
  <2> QED
    BY <2>1, <2>2
<1>13. ForgetsTheGone'
  <2> SUFFICES ASSUME NEW u \in Threads, tasks'[u].pc = "forget", tasks'[u].m \notin raced'
               PROVE  tasks'[u].m \notin listed
    BY DEF ForgetsTheGone
  <2>1. CASE u = t
    BY <1>6, <1>8, <2>1
  <2>2. CASE u # t
    BY <1>1, <1>8, <1>9, <2>2 DEF Safe, ForgetsTheGone
  <2> QED
    BY <2>1, <2>2
<1>14. OccupiedIsListed'
  BY <1>1, <1>9 DEF Safe, OccupiedIsListed, On
<1>15. NoneIsForgotten'
  BY <1>1, <1>8, <1>9 DEF Safe, NoneIsForgotten
<1> QED
  BY <1>10, <1>11, <1>12, <1>13, <1>14, <1>15 DEF ProxyInv, Safe

LEMMA CheckKeeps ==
  ASSUME ProxyInv, NEW t \in Threads, NEW m \in Matches, Check(t, m)
  PROVE  ProxyInv'
<1> DEFINE rest == Cleanup(tasks[t].todo \ {m})
           due(pc) == [tasks[t] EXCEPT !.pc = pc, !.m = m, !.todo = @ \ {m}]
<1>1. /\ UNCHANGED <<regs, listed, dynamic, at, socket, logins, server, routes>>
      /\ tasks[t].pc = "clean"
      /\ Race(m, tasks'[t].m = m /\ OnTheWay(m))
      /\ \/ tasks' = [tasks EXCEPT ![t] = rest]
         \/ m \notin listed /\ tasks' = [tasks EXCEPT ![t] = due("forget")]
         \/ ~Occupied(m) /\ tasks' = [tasks EXCEPT ![t] = due("unregister")]
  BY DEF Check, Is
<1>2. CASE tasks' = [tasks EXCEPT ![t] = rest]
  <2>1. Typed /\ Safe
    BY DEF ProxyInv
  <2>2. tasks[t].todo \ {m} \subseteq Matches
    BY <1>1, <2>1 DEF Typed, TaskOK
  <2>3. /\ rest \in Tasks /\ TaskOK(rest) /\ rest.m = None
        /\ rest.pc \in {"idle", "fetch", "lookup", "clean"}
    BY <2>2, CleanupIs
  <2>4. tasks'[t] = rest
    BY <1>2, <2>1, Others
  <2>5. raced' = raced
    BY <1>1, <2>3, <2>4, ProxyAssumption DEF Race
  <2>6. Typed'
    <3>1. tasks' \in [Threads -> Tasks] /\ \A u \in Threads : TaskOK(tasks'[u])
      BY <1>2, <2>1, <2>3, TasksTyped
    <3> QED
      BY <1>1, <2>1, <2>5, <3>1, TypedFrom DEF Typed, TypeOK
  <2>7. Safe'
    <3>1. \A u \in Threads : Follows(u)
      BY <1>1, <1>2, <2>1, <2>3 DEF Follows, Typed
    <3> QED
      BY <1>1, <2>1, <2>5, <3>1, QuietSafe
  <2> QED
    BY <2>6, <2>7 DEF ProxyInv
<1>3. ASSUME NEW pc \in {"forget", "unregister"}, tasks' = [tasks EXCEPT ![t] = due(pc)],
             pc = "forget" => m \notin listed, pc = "unregister" => ~Occupied(m)
      PROVE  ProxyInv'
  BY <1>1, <1>3, CheckDueKeeps
<1> HIDE DEF due
<1>4. CASE m \notin listed /\ tasks' = [tasks EXCEPT ![t] = due("forget")]
  <2>1. PICK pc : pc = "forget"
    OBVIOUS
  <2> QED
    BY <1>3, <1>4, <2>1
<1>5. CASE ~Occupied(m) /\ tasks' = [tasks EXCEPT ![t] = due("unregister")]
  <2>1. PICK pc : pc = "unregister"
    OBVIOUS
  <2> QED
    BY <1>3, <1>5, <2>1
<1> QED
  BY <1>1, <1>2, <1>4, <1>5

LEMMA UnregisterKeeps ==
  ASSUME ProxyInv, NEW t \in Threads, Unregister(t)
  PROVE  ProxyInv'
<1> DEFINE m == tasks[t].m
<1>1. /\ UNCHANGED <<regs, dynamic, at, socket, logins, server, routes, raced>>
      /\ tasks[t].pc = "unregister" /\ listed' = listed \ {m}
      /\ tasks' = [tasks EXCEPT ![t].pc = "forget"]
  BY DEF Unregister, Is, Continue
<1>2. Typed /\ Safe
  BY DEF ProxyInv
<1>3. tasks[t] \in Tasks /\ TaskOK(tasks[t]) /\ m \in Matches
  BY <1>1, <1>2, TaskOf
<1>4. PICK k : k = [tasks[t] EXCEPT !.pc = "forget"]
  OBVIOUS
<1>5. tasks' = [tasks EXCEPT ![t] = k]
  BY <1>1, <1>2, <1>4 DEF Typed
<1>6. k \in Tasks /\ TaskOK(k) /\ k.m = m /\ k.pc = "forget"
  <2>1. /\ k \in Tasks /\ k.pc = "forget" /\ k.m = m /\ k.p = tasks[t].p
        /\ k.todo = tasks[t].todo
    BY <1>3, <1>4 DEF Tasks, Points
  <2> QED
    BY <1>1, <1>3, <2>1 DEF TaskOK
<1>7. tasks'[t] = k /\ \A u \in Threads \ {t} : tasks'[u] = tasks[u]
  BY <1>2, <1>5, Others
<1>8. m \in raced \/ (~OnTheWay(m) /\ \A p \in Players : at[p].m # m)
  BY <1>1, <1>2 DEF Safe, CleansTheEmpty
<1>9. Typed'
  <2>1. tasks' \in [Threads -> Tasks] /\ \A u \in Threads : TaskOK(tasks'[u])
    BY <1>2, <1>5, <1>6, TasksTyped
  <2> QED
    BY <1>1, <1>2, <2>1, TypedFrom DEF Typed, TypeOK
<1>10. UsesTheListed'
  <2> SUFFICES ASSUME NEW u \in Threads, tasks'[u].pc \in {"put", "enter", "move"},
                      tasks'[u].m \notin raced
               PROVE  tasks'[u].m \in listed' /\ tasks'[u].reg = regs[tasks'[u].m]
    BY <1>1 DEF UsesTheListed
  <2>1. tasks'[u] = tasks[u]
    BY <1>6, <1>7
  <2>2. tasks[u].m # m
    BY <1>8, <2>1 DEF OnTheWay
  <2> QED
    BY <1>1, <1>2, <2>1, <2>2 DEF Safe, UsesTheListed
<1>11. CleansTheEmpty'
  <2> SUFFICES ASSUME NEW u \in Threads, NEW n, tasks'[u].pc \in {"unregister", "forget"},
                      tasks'[u].m = n, n \notin raced
               PROVE  ~OnTheWay(n)' /\ \A p \in Players : at'[p].m # n
    BY <1>1 DEF CleansTheEmpty, OnTheWay
  <2>1. ~OnTheWay(n) /\ \A p \in Players : at[p].m # n
    <3>1. CASE u = t
      BY <1>6, <1>7, <1>8, <3>1
    <3>2. CASE u # t
      BY <1>2, <1>7, <3>2 DEF Safe, CleansTheEmpty
    <3> QED
      BY <3>1, <3>2
  <2>2. ~OnTheWay(n)'
    BY <1>6, <1>7, <2>1, OnTheWayFrom
  <2> QED
    BY <1>1, <2>1, <2>2
<1>12. ForgetsTheGone'
  <2> SUFFICES ASSUME NEW u \in Threads, tasks'[u].pc = "forget", tasks'[u].m \notin raced
               PROVE  tasks'[u].m \notin listed'
    BY <1>1 DEF ForgetsTheGone
  <2>1. CASE u = t
    BY <1>1, <1>6, <1>7, <2>1
  <2>2. CASE u # t
    BY <1>1, <1>2, <1>7, <2>2 DEF Safe, ForgetsTheGone
  <2> QED
    BY <2>1, <2>2
<1>13. OccupiedIsListed'
  BY <1>1, <1>2, <1>8 DEF Safe, OccupiedIsListed, On
<1>14. NoneIsForgotten'
  BY <1>1, <1>2, <1>7 DEF Safe, NoneIsForgotten
<1> QED
  BY <1>9, <1>10, <1>11, <1>12, <1>13, <1>14 DEF ProxyInv, Safe

LEMMA ForgetKeeps ==
  ASSUME ProxyInv, NEW t \in Threads, Forget(t)
  PROVE  ProxyInv'
<1> DEFINE m == tasks[t].m
<1>1. /\ UNCHANGED <<regs, listed, at, socket, logins, server, routes, raced>>
      /\ tasks[t].pc = "forget" /\ dynamic' = dynamic \ {m}
      /\ tasks' = [tasks EXCEPT ![t] = Cleanup(tasks[t].todo)]
  BY DEF Forget, Is
<1>2. Typed /\ Safe
  BY DEF ProxyInv
<1>3. tasks[t].todo \subseteq Matches
  BY <1>1, <1>2 DEF Typed, TaskOK
<1>4. PICK k : k = Cleanup(tasks[t].todo)
  OBVIOUS
<1>5. k \in Tasks /\ TaskOK(k) /\ k.pc \in {"idle", "clean"}
  BY <1>3, <1>4, CleanupIs
<1>6. tasks' = [tasks EXCEPT ![t] = k]
  BY <1>1, <1>4
<1>7. tasks'[t] = k /\ \A u \in Threads \ {t} : tasks'[u] = tasks[u]
  BY <1>2, <1>6, Others
<1>8. Typed'
  <2>1. tasks' \in [Threads -> Tasks] /\ \A u \in Threads : TaskOK(tasks'[u])
    BY <1>2, <1>5, <1>6, TasksTyped
  <2> QED
    BY <1>1, <1>2, <2>1, TypedFrom DEF Typed, TypeOK
<1>9. UsesTheListed'
  BY <1>1, <1>2, <1>5, <1>7 DEF Safe, UsesTheListed
<1>10. CleansTheEmpty'
  <2> SUFFICES ASSUME NEW u \in Threads, NEW n, tasks'[u].pc \in {"unregister", "forget"},
                      tasks'[u].m = n, n \notin raced
               PROVE  ~OnTheWay(n)' /\ \A p \in Players : at'[p].m # n
    BY <1>1 DEF CleansTheEmpty, OnTheWay
  <2>1. tasks'[u] = tasks[u]
    BY <1>5, <1>7
  <2>2. ~OnTheWay(n) /\ \A p \in Players : at[p].m # n
    BY <1>2, <2>1 DEF Safe, CleansTheEmpty
  <2>3. ~OnTheWay(n)'
    BY <1>5, <1>7, <2>2, OnTheWayFrom
  <2> QED
    BY <1>1, <2>2, <2>3
<1>11. ForgetsTheGone'
  BY <1>1, <1>2, <1>5, <1>7 DEF Safe, ForgetsTheGone
<1>12. OccupiedIsListed'
  BY <1>1, <1>2 DEF Safe, OccupiedIsListed, On
<1>13. NoneIsForgotten'
  <2> SUFFICES ASSUME NEW n \in listed \ dynamic', n \notin raced
               PROVE  \E u \in Threads : tasks'[u].m = n /\ tasks'[u].pc \in {"put", "forget"}
    BY <1>1 DEF NoneIsForgotten
  <2>1. n # m
    BY <1>1, <1>2 DEF Safe, ForgetsTheGone
  <2>2. PICK u \in Threads : tasks[u].m = n /\ tasks[u].pc \in {"put", "forget"}
    BY <1>1, <1>2, <2>1 DEF Safe, NoneIsForgotten
  <2> QED
    BY <1>7, <2>1, <2>2
<1> QED
  BY <1>8, <1>9, <1>10, <1>11, <1>12, <1>13 DEF ProxyInv, Safe

-----------------------------------------------------------------------------
(* The invariant *)

LEMMA NextKeeps == ProxyInv /\ [Next]_vars => ProxyInv'
<1> SUFFICES ASSUME ProxyInv, [Next]_vars
             PROVE  ProxyInv'
  OBVIOUS
<1>1. ASSUME NEW t \in Threads, Works(t) \/ NoRoute(t)
      PROVE  ProxyInv'
  <2>1. CASE FetchRoute(t)
    BY <2>1, FetchRouteKeeps
  <2>2. CASE LookUp(t)
    BY <2>2, LookUpKeeps
  <2>3. CASE Register(t)
    BY <2>3, RegisterKeeps
  <2>4. CASE Put(t)
    BY <2>4, PutKeeps
  <2>5. CASE Enter(t)
    BY <2>5, EnterKeeps
  <2>6. CASE EnterFails(t) \/ NoRoute(t)
    BY <2>6, TurnAwayKeeps DEF EnterFails, NoRoute, Is
  <2>7. CASE Unregister(t)
    BY <2>7, UnregisterKeeps
  <2>8. CASE Forget(t)
    BY <2>8, ForgetKeeps
  <2>9. CASE \E p \in Players : Move(t, p) \/ MoveNot(t, p)
    BY <2>9, MoveKeeps, MoveNotKeeps
  <2>10. CASE \E m \in Matches : Check(t, m)
    BY <2>10, CheckKeeps
  <2> QED
    BY <1>1, <2>1, <2>2, <2>3, <2>4, <2>5, <2>6, <2>7, <2>8, <2>9, <2>10 DEF Works
<1>2. CASE \E p \in Players : Login(p) \/ Disconnect(p)
  BY <1>2, LoginKeeps, DisconnectKeeps
<1>3. CASE \E m \in Matches : BecomeReady(m)
  BY <1>3, BecomeReadyKeeps
<1>4. CASE (\E m \in Matches : EndMatch(m)) \/ SocketOpens \/ SocketLost \/ Reconnect
  BY <1>4, WorldKeeps
<1>5. CASE UNCHANGED vars
  <2>1. UNCHANGED <<regs, listed, dynamic, at, tasks, socket, logins, server, routes, raced>>
    BY <1>5 DEF vars
  <2>2. Typed'
    BY <2>1, TypedFrom DEF ProxyInv, Typed, TypeOK
  <2>3. Safe'
    BY <2>1, QuietSafe DEF ProxyInv, Follows
  <2> QED
    BY <2>2, <2>3 DEF ProxyInv
<1> QED
  BY <1>1, <1>2, <1>3, <1>4, <1>5 DEF Next

(* Whatever logins, events, disconnections and cleanups come to run at the  *)
(* same time, ProxyInv holds.                                               *)
THEOREM Invariance == Spec => []ProxyInv
BY InitHolds, NextKeeps, PTL DEF Spec

(* The table, the players' whereabouts and the tasks of the threads keep    *)
(* their types; a loop over names or players runs only while some are left. *)
THEOREM TypeCorrect == Spec => []TypeOK
<1>1. ProxyInv => TypeOK
  BY DEF ProxyInv, Typed
<1> QED
  BY <1>1, Invariance, PTL

(* A server with somebody on it is in Velocity's table, by the registration *)
(* they came by, unless it was cleaned up while somebody was on the way to  *)
(* it: the look cleanupIfEmpty takes at the players is out of date only     *)
(* then.                                                                    *)
THEOREM OccupiedCorrect == Spec => []OccupiedIsListed
<1>1. ProxyInv => OccupiedIsListed
  BY DEF ProxyInv, Safe
<1> QED
  BY <1>1, Invariance, PTL

(* registerRoute and cleanupIfEmpty keep dynamicServers in step with        *)
(* Velocity's table: a registered server is one a cleanup will look at,     *)
(* unless the two ran at the same time for the same server.                 *)
THEOREM ForgottenCorrect == Spec => []NoneIsForgotten
<1>1. ProxyInv => NoneIsForgotten
  BY DEF ProxyInv, Safe
<1> QED
  BY <1>1, Invariance, PTL
=============================================================================
