----------------------------- MODULE MatchProofs -----------------------------
(***************************************************************************)
(* Theorems about module Match, for every finite set of matches and        *)
(* players and whatever fails, how often and in which order.               *)
(***************************************************************************)
EXTENDS Match, TLAPS, FiniteSetTheorems

(* What the type invariant needs to be inductive: a batch that decides a    *)
(* match, in flight or awaited, names one of its players.                   *)
CommitsNamePlayers == \A c \in net : c.do = "commit" => c.who \in PlayersOf[c.match]

Deciding(o) == o.pc \in {"persist", "persisted", "recorded"}

DecidersNamePlayers == \A m \in Matches : Deciding(op[m]) => op[m].winner \in PlayersOf[m]

TypeInv == TypeOK /\ CommitsNamePlayers /\ DecidersNamePlayers

-----------------------------------------------------------------------------
(* Values *)

(* A player of a duel has an opponent in it. *)
LEMMA OpponentInMatch ==
  ASSUME NEW m \in Matches, NEW p \in PlayersOf[m]
  PROVE  Opponent(m, p) \in PlayersOf[m]
<1>1. SUFFICES \E q \in PlayersOf[m] : q # p
  BY DEF Opponent
<1>2. SUFFICES ASSUME PlayersOf[m] = {p} PROVE FALSE
  OBVIOUS
<1>3. Cardinality({p}) = 1
  BY FS_Singleton
<1> QED
  BY <1>2, <1>3, MatchAssumption

(* The calls, records of storage and callbacks that actions build are of    *)
(* their types.                                                             *)
LEMMA CallsTyped ==
  ASSUME NEW m \in Matches, NEW by \in {"match", "queue"},
         NEW do \in {"insert", "commit", "drop", "route", "unroute", "stop"},
         NEW p \in Winners
  PROVE  /\ Call(m, by, do, p) \in Calls
         /\ Call(m, by, do, p).do = do
         /\ Call(m, by, do, p).match = m
         /\ Call(m, by, do, p).who = p
BY DEF Call, Calls

LEMMA MetasTyped ==
  /\ NoMeta \in Metas
  /\ NewMeta \in Metas
  /\ \A r \in Metas : [r EXCEPT !.ready = TRUE] \in Metas
  /\ \A r \in Metas, w \in Winners : [r EXCEPT !.winner = w] \in Metas
  /\ \A r \in Metas, w \in Winners : [r EXCEPT !.winner = w, !.ended = TRUE] \in Metas
  /\ \A r \in Metas : r.winner \in Winners
BY DEF NoMeta, NewMeta, Metas, Winners

LEMMA OpsTyped ==
  /\ Idle \in Ops /\ ~Deciding(Idle)
  /\ \A kind \in {"claim", "forfeit", "exit", "fatal"}, pc \in {"check", "closing"},
        p \in Winners, w \in Winners :
       LET o == [kind |-> kind, pc |-> pc, who |-> p, winner |-> w]
       IN  o \in Ops /\ ~Deciding(o)
  /\ \A o \in Ops, pc \in {"persisted", "recorded", "closing", "cleanup"} :
       /\ [o EXCEPT !.pc = pc] \in Ops
       /\ [o EXCEPT !.pc = pc].winner = o.winner
       /\ Deciding([o EXCEPT !.pc = pc]) <=> pc \in {"persisted", "recorded"}
  /\ \A o \in Ops, w \in Winners :
       /\ [o EXCEPT !.pc = "persist", !.winner = w] \in Ops
       /\ [o EXCEPT !.pc = "persist", !.winner = w].winner = w
  /\ \A o \in Ops : o.winner \in Winners
<1>1. /\ Idle \in Ops /\ ~Deciding(Idle)
      /\ \A o \in Ops : o.winner \in Winners
  BY DEF Idle, Ops, Winners, Deciding
<1>2. \A kind \in {"claim", "forfeit", "exit", "fatal"}, pc \in {"check", "closing"},
         p \in Winners, w \in Winners :
        LET o == [kind |-> kind, pc |-> pc, who |-> p, winner |-> w]
        IN  o \in Ops /\ ~Deciding(o)
  BY DEF Ops, Winners, Deciding
<1>3. \A o \in Ops, pc \in {"persisted", "recorded", "closing", "cleanup"} :
        /\ [o EXCEPT !.pc = pc] \in Ops
        /\ [o EXCEPT !.pc = pc].winner = o.winner
        /\ Deciding([o EXCEPT !.pc = pc]) <=> pc \in {"persisted", "recorded"}
  BY DEF Ops, Deciding
<1>4. \A o \in Ops, w \in Winners :
        /\ [o EXCEPT !.pc = "persist", !.winner = w] \in Ops
        /\ [o EXCEPT !.pc = "persist", !.winner = w].winner = w
  BY DEF Ops, Winners
<1> QED
  BY <1>1, <1>2, <1>3, <1>4

-----------------------------------------------------------------------------
(* What actions do to the variables they share *)

LEMMA InitTypeInv == Init => TypeInv
BY MatchAssumption DEF Init, TypeInv, TypeOK, CommitsNamePlayers, DecidersNamePlayers,
   Deciding, NoMeta, Idle, NoRow, NoRoute, Metas, Ops, Rows, Users, Routes, Winners, Calls,
   ReadyPoints, SeedPoints

LEMMA FaultsTyped ==
  ASSUME TypeOK, Works \/ \E k \in FaultKinds : Fails(k)
  PROVE  faults' \in 0..MaxFaults
BY MatchAssumption DEF Works, Fails, TypeOK

(* An object takes up other work. *)
LEMMA OpMoves ==
  ASSUME TypeInv, NEW m \in Matches, NEW o \in Ops,
         Deciding(o) => o.winner \in PlayersOf[m],
         op' = [op EXCEPT ![m] = o]
  PROVE  op' \in [Matches -> Ops] /\ DecidersNamePlayers'
BY DEF TypeInv, TypeOK, DecidersNamePlayers

(* Calls are issued. *)
LEMMA NetGrows ==
  ASSUME TypeInv, NEW S \in SUBSET Calls, net' = net \cup S,
         \A c \in S : c.do = "commit" => c.who \in PlayersOf[c.match]
  PROVE  net' \subseteq Calls /\ CommitsNamePlayers'
BY DEF TypeInv, TypeOK, CommitsNamePlayers

LEMMA NetGrowsByOne ==
  ASSUME TypeInv, NEW c \in Calls, net' = net \cup {c},
         c.do = "commit" => c.who \in PlayersOf[c.match]
  PROVE  net' \subseteq Calls /\ CommitsNamePlayers'
BY DEF TypeInv, TypeOK, CommitsNamePlayers

(* A call ends. *)
LEMMA NetShrinks ==
  ASSUME TypeInv, NEW c \in net, net' = net \ {c}
  PROVE  net' \subseteq Calls /\ CommitsNamePlayers'
BY DEF TypeInv, TypeOK, CommitsNamePlayers

LEMMA DropInFlightTyped ==
  ASSUME TypeOK, NEW m \in Matches, DropInFlight(m)
  PROVE  /\ rdy' \in [Matches -> ReadyPoints]
         /\ fatal' \in [Matches -> BOOLEAN]
         /\ seed' \in [Matches -> SeedPoints]
BY DEF DropInFlight, TypeOK, ReadyPoints, SeedPoints

LEMMA ThrowHttpTyped ==
  ASSUME TypeOK, NEW m \in Matches, ThrowHttp(m)
  PROVE  /\ rdy' \in [Matches -> ReadyPoints]
         /\ fatal' \in [Matches -> BOOLEAN]
         /\ seed' \in [Matches -> SeedPoints]
BY DropInFlightTyped DEF ThrowHttp, TypeOK

LEMMA ThrowTyped ==
  ASSUME TypeInv, NEW m \in Matches, Throw(m)
  PROVE  /\ op' \in [Matches -> Ops] /\ DecidersNamePlayers'
         /\ rdy' \in [Matches -> ReadyPoints]
         /\ fatal' \in [Matches -> BOOLEAN]
         /\ seed' \in [Matches -> SeedPoints]
<1>1. op' \in [Matches -> Ops] /\ DecidersNamePlayers'
  BY OpsTyped, OpMoves DEF Throw
<1> QED
  BY <1>1, DropInFlightTyped DEF TypeInv, TypeOK, Throw
-----------------------------------------------------------------------------
(* Each action preserves the type invariant. *)

LEMMA RouteToTyped ==
  ASSUME TypeOK, NEW m \in Matches, NEW S
  PROVE  RouteTo(m, S) \in [Players -> Routes]
BY DEF RouteTo, TypeOK, Routes

LEMMA SeedTypes ==
  ASSUME TypeInv, NEW m \in Matches,
         Allocate(m) \/ AllocateFails(m) \/ SeedInsert(m) \/ SeedStore(m) \/ Formed(m) \/ FormFailed(m)
  PROVE  TypeInv'
<1>1. CASE Allocate(m)
  <2>1. route' \in [Players -> Routes]
    BY <1>1, RouteToTyped DEF Allocate, TypeInv
  <2> QED
    BY <1>1, <2>1, MatchAssumption DEF Allocate, TypeInv, TypeOK, CommitsNamePlayers,
       DecidersNamePlayers, objectVars, d1Vars, SeedPoints, Users
<1>6. CASE AllocateFails(m)
  <2>1. route' \in [Players -> Routes]
    BY <1>6, RouteToTyped DEF AllocateFails, TypeInv, TypeOK
  <2>2. faults' \in 0..MaxFaults
    BY <1>6, FaultsTyped DEF TypeInv, AllocateFails, FaultKinds
  <2>3. container' \in [Matches -> {"none", "running", "expiring", "exited"}]
    BY <1>6 DEF AllocateFails, TypeInv, TypeOK
  <2> QED
    BY <1>6, <2>1, <2>2, <2>3 DEF AllocateFails, TypeInv, TypeOK, CommitsNamePlayers,
       DecidersNamePlayers, objectVars, d1Vars, SeedPoints
<1>2. CASE SeedInsert(m)
  <2> DEFINE c == Call(m, "match", "insert", None)
  <2>1. c \in Calls /\ c.do # "commit"
    BY CallsTyped DEF Winners
  <2>2. net' = net \cup {c}
    BY <1>2 DEF SeedInsert
  <2>3. net' \subseteq Calls /\ CommitsNamePlayers'
    <3> HIDE DEF c
    <3> QED BY <2>1, <2>2, NetGrowsByOne
  <2> QED
    <3>1. /\ seed' = [seed EXCEPT ![m] = "inserting"]
          /\ UNCHANGED <<op, rdy, fatal, meta, before, row, users, decided, route, container,
                         exits, told, faults>>
      BY <1>2 DEF SeedInsert, objectVars, d1Vars, agentVars
    <3>2. seed' \in [Matches -> SeedPoints]
      BY <3>1 DEF TypeInv, TypeOK, SeedPoints
    <3> QED
      BY <2>3, <3>1, <3>2 DEF TypeInv, TypeOK, DecidersNamePlayers
<1>3. CASE SeedStore(m)
  <2>1. faults' \in 0..MaxFaults
    BY <1>3, FaultsTyped DEF TypeInv, SeedStore, FaultKinds
  <2>2. meta' \in [Matches -> Metas]
    BY <1>3, MetasTyped DEF TypeInv, TypeOK, SeedStore
  <2>3. seed' \in [Matches -> SeedPoints]
    <3>1. seed \in [Matches -> SeedPoints] /\ {"seeded", "failed"} \subseteq SeedPoints
      BY DEF TypeInv, TypeOK, SeedPoints
    <3> QED
      BY <1>3, <3>1 DEF SeedStore
  <2> QED
    BY <1>3, <2>1, <2>2, <2>3 DEF SeedStore, TypeInv, TypeOK, CommitsNamePlayers,
       DecidersNamePlayers, d1Vars, agentVars
<1>4. CASE Formed(m)
  <2>1. faults' \in 0..MaxFaults
    BY <1>4, FaultsTyped DEF TypeInv, Formed, FaultKinds
  <2> QED
    BY <1>4, <2>1 DEF Formed, TypeInv, TypeOK, CommitsNamePlayers, DecidersNamePlayers,
       objectVars, d1Vars, agentVars, SeedPoints
<1>5. CASE FormFailed(m)
  <2> DEFINE S == {Call(m, "queue", "unroute", p) : p \in PlayersOf[m]}
                    \cup {Call(m, "queue", "drop", None)}
                    \cup (IF seed[m] = "failed" THEN {Call(m, "queue", "stop", None)} ELSE {})
  <2>1. PlayersOf[m] \subseteq Winners /\ None \in Winners
    BY MatchAssumption DEF Winners
  <2>2. \A c \in S : c \in Calls /\ c.do # "commit"
    BY <2>1, CallsTyped
  <2>3. net' = net \cup S
    BY <1>5 DEF FormFailed
  <2>4. net' \subseteq Calls /\ CommitsNamePlayers'
    <3> HIDE DEF S
    <3> QED BY <2>2, <2>3, NetGrows
  <2> QED
    BY <1>5, <2>4 DEF FormFailed, TypeInv, TypeOK, DecidersNamePlayers, objectVars, d1Vars,
       agentVars, SeedPoints
<1> QED
  BY <1>1, <1>2, <1>3, <1>4, <1>5, <1>6

LEMMA ReadyTypes ==
  ASSUME TypeInv, NEW m \in Matches,
         ReadyStart(m) \/ ReadyRouted(m) \/ ReadyNotified(m) \/ ReadyFails(m)
  PROVE  TypeInv'
<1>1. CASE ReadyStart(m)
  <2> DEFINE S == {Call(m, "match", "route", p) : p \in PlayersOf[m]}
  <2>1. PlayersOf[m] \subseteq Winners
    BY MatchAssumption DEF Winners
  <2>2. \A c \in S : c \in Calls /\ c.do # "commit"
    BY <2>1, CallsTyped
  <2>3. net' = net \cup S \/ net' = net
    BY <1>1 DEF ReadyStart
  <2>4. net' \subseteq Calls /\ CommitsNamePlayers'
    <3> HIDE DEF S
    <3>1. CASE net' = net
      BY <3>1 DEF TypeInv, TypeOK, CommitsNamePlayers
    <3> QED BY <2>2, <2>3, <3>1, NetGrows
  <2>5. meta' \in [Matches -> Metas]
    <3>1. CASE meta' = [meta EXCEPT ![m].ready = TRUE]
      <4>1. meta' = [meta EXCEPT ![m] = [meta[m] EXCEPT !.ready = TRUE]]
        BY <3>1
      <4>2. meta[m] \in Metas
        BY DEF TypeInv, TypeOK
      <4> QED
        BY <4>1, <4>2, MetasTyped DEF TypeInv, TypeOK
    <3> QED
      BY <1>1, <3>1 DEF ReadyStart, TypeInv, TypeOK
  <2>6. faults' \in 0..MaxFaults
    BY <1>1, FaultsTyped DEF TypeInv, ReadyStart, FaultKinds
  <2>7. rdy' \in [Matches -> ReadyPoints] /\ fatal' \in [Matches -> BOOLEAN]
    BY <1>1 DEF ReadyStart, TypeInv, TypeOK, ReadyPoints
  <2> QED
    BY <1>1, <2>4, <2>5, <2>6, <2>7 DEF ReadyStart, TypeInv, TypeOK, DecidersNamePlayers,
       queueVars, d1Vars, agentVars
<1>2. CASE ReadyRouted(m) \/ ReadyNotified(m)
  BY <1>2 DEF ReadyRouted, ReadyNotified, TypeInv, TypeOK, CommitsNamePlayers,
     DecidersNamePlayers, queueVars, d1Vars, agentVars, ReadyPoints
<1>3. CASE ReadyFails(m)
  <2>1. faults' \in 0..MaxFaults
    BY <1>3, FaultsTyped DEF TypeInv, ReadyFails, FaultKinds
  <2> QED
    BY <1>3, <2>1 DEF ReadyFails, TypeInv, TypeOK, CommitsNamePlayers, DecidersNamePlayers,
       queueVars, d1Vars, agentVars, ReadyPoints
<1> QED
  BY <1>1, <1>2, <1>3

LEMMA EnterTypes ==
  ASSUME TypeInv, NEW m \in Matches, NEW kind \in {"claim", "forfeit"}, NEW p \in Players,
         Enter(m, kind, p)
  PROVE  TypeInv'
<1> DEFINE o == [kind |-> kind, pc |-> "check", who |-> p, winner |-> None]
<1>1. o \in Ops /\ ~Deciding(o)
  BY OpsTyped DEF Winners
<1>2. op' \in [Matches -> Ops] /\ DecidersNamePlayers'
  <2>1. op' = [op EXCEPT ![m] = o] \/ op' = op
    BY DEF Enter
  <2>2. CASE op' = op
    BY <2>2 DEF TypeInv, TypeOK, DecidersNamePlayers
  <2> QED
    BY <1>1, <2>1, <2>2, OpMoves
<1>3. /\ rdy' \in [Matches -> ReadyPoints]
      /\ fatal' \in [Matches -> BOOLEAN]
      /\ seed' \in [Matches -> SeedPoints]
  BY ThrowHttpTyped DEF Enter, TypeInv, TypeOK
<1> QED
  BY <1>2, <1>3 DEF Enter, TypeInv, TypeOK, CommitsNamePlayers, d1Vars, agentVars

LEMMA CheckTypes ==
  ASSUME TypeInv, NEW m \in Matches,
         AlreadyDecided(m) \/ CheckFails(m) \/ NotAPlayer(m) \/ Persist(m)
  PROVE  TypeInv'
<1>1. CASE AlreadyDecided(m)
  <2>1. op' \in [Matches -> Ops] /\ DecidersNamePlayers'
    BY <1>1, OpsTyped, OpMoves DEF AlreadyDecided
  <2>2. row[m].winner \in Winners /\ meta[m].winner \in Winners
    BY MetasTyped DEF TypeInv, TypeOK, Rows
  <2>3. meta' \in [Matches -> Metas]
    <3> DEFINE w == IF row[m].winner # None THEN row[m].winner ELSE meta[m].winner
    <3>1. meta' = [meta EXCEPT ![m] = [meta[m] EXCEPT !.winner = w]]
      BY <1>1 DEF AlreadyDecided
    <3>2. w \in Winners /\ meta[m] \in Metas
      BY <2>2 DEF TypeInv, TypeOK
    <3> HIDE DEF w
    <3> QED
      BY <3>1, <3>2, MetasTyped DEF TypeInv, TypeOK
  <2>4. KnownVerdict(m) \subseteq Verdicts
    BY <2>2 DEF KnownVerdict, Winners, Verdicts
  <2> QED
    BY <1>1, <2>1, <2>3, <2>4 DEF AlreadyDecided, TypeInv, TypeOK, CommitsNamePlayers,
       queueVars, d1Vars, agentVars
<1>2. CASE CheckFails(m)
  <2>1. faults' \in 0..MaxFaults
    BY <1>2, FaultsTyped DEF TypeInv, CheckFails, FaultKinds
  <2>2. Throw(m)
    BY <1>2 DEF CheckFails
  <2> QED
    BY <1>2, <2>1, <2>2, ThrowTyped DEF CheckFails, TypeInv, TypeOK, CommitsNamePlayers,
       d1Vars, agentVars
<1>3. CASE NotAPlayer(m)
  <2>1. op' \in [Matches -> Ops] /\ DecidersNamePlayers'
    BY <1>3, OpsTyped, OpMoves DEF NotAPlayer
  <2>2. ThrowHttp(m)
    BY <1>3 DEF NotAPlayer
  <2> QED
    BY <1>3, <2>1, <2>2, ThrowHttpTyped DEF NotAPlayer, TypeInv, TypeOK, CommitsNamePlayers,
       d1Vars, agentVars
<1>4. CASE Persist(m)
  <2> DEFINE w == WinnerIfGranted(m)
             o == [op[m] EXCEPT !.pc = "persist", !.winner = w]
             c == Call(m, "match", "commit", w)
  <2>1. w \in PlayersOf[m]
    BY <1>4, OpponentInMatch DEF Persist, WinnerIfGranted
  <2>2. w \in Winners
    BY <2>1, MatchAssumption DEF Winners
  <2> HIDE DEF w
  <2>3. o \in Ops /\ o.winner = w
    BY <2>2, OpsTyped DEF TypeInv, TypeOK
  <2>4. op' = [op EXCEPT ![m] = o] /\ net' = net \cup {c}
    BY <1>4 DEF Persist, w
  <2>5. op' \in [Matches -> Ops] /\ DecidersNamePlayers'
    BY <2>1, <2>3, <2>4, OpMoves
  <2>6. c \in Calls /\ c.who = w /\ c.match = m
    BY <2>2, CallsTyped
  <2>7. net' \subseteq Calls /\ CommitsNamePlayers'
    <3> HIDE DEF c
    <3> QED BY <2>1, <2>4, <2>6, NetGrowsByOne
  <2> QED
    BY <1>4, <2>5, <2>7 DEF Persist, TypeInv, TypeOK, queueVars, d1Vars, agentVars
<1> QED
  BY <1>1, <1>2, <1>3, <1>4

(* A running callback goes on to its next step with the same winner. *)
LEMMA OpGoesOn ==
  ASSUME TypeInv, NEW m \in Matches,
         NEW pc \in {"persisted", "recorded", "closing", "cleanup"},
         pc \in {"persisted", "recorded"} => Deciding(op[m]),
         op' = [op EXCEPT ![m].pc = pc]
  PROVE  op' \in [Matches -> Ops] /\ DecidersNamePlayers'
<1> DEFINE o == [op[m] EXCEPT !.pc = pc]
<1>1. op[m] \in Ops
  BY DEF TypeInv, TypeOK
<1>2. o \in Ops /\ o.winner = op[m].winner /\ (Deciding(o) <=> pc \in {"persisted", "recorded"})
  BY <1>1, OpsTyped
<1>3. op' = [op EXCEPT ![m] = o]
  OBVIOUS
<1>4. Deciding(o) => o.winner \in PlayersOf[m]
  BY <1>2 DEF TypeInv, DecidersNamePlayers
<1> HIDE DEF o
<1> QED
  BY <1>2, <1>3, <1>4, OpMoves

LEMMA VerdictTypes ==
  ASSUME TypeInv, NEW m \in Matches, Record(m) \/ AnnounceResult(m) \/ ShowState(m)
  PROVE  TypeInv'
<1>1. CASE Record(m)
  <2>1. op' \in [Matches -> Ops] /\ DecidersNamePlayers'
    BY <1>1, OpGoesOn DEF Record, Deciding
  <2>2. meta' \in [Matches -> Metas]
    <3>1. op[m].winner \in Winners /\ meta[m] \in Metas
      BY OpsTyped DEF TypeInv, TypeOK
    <3> DEFINE r == [meta[m] EXCEPT !.winner = op[m].winner, !.ended = TRUE]
    <3>2. r \in Metas
      BY <3>1, MetasTyped
    <3>3. meta' = [meta EXCEPT ![m] = r] \/ meta' = meta
      BY <1>1 DEF Record
    <3> HIDE DEF r
    <3> QED
      BY <3>2, <3>3 DEF TypeInv, TypeOK
  <2>3. faults' \in 0..MaxFaults
    BY <1>1, FaultsTyped DEF TypeInv, Record, FaultKinds
  <2> QED
    BY <1>1, <2>1, <2>2, <2>3 DEF Record, TypeInv, TypeOK, CommitsNamePlayers, queueVars,
       d1Vars, agentVars
<1>2. CASE AnnounceResult(m)
  <2>1. op' \in [Matches -> Ops] /\ DecidersNamePlayers'
    BY <1>2, OpGoesOn DEF AnnounceResult
  <2>2. op[m].winner \in Verdicts
    BY <1>2, MatchAssumption DEF AnnounceResult, TypeInv, DecidersNamePlayers, Deciding, Verdicts
  <2> QED
    BY <1>2, <2>1, <2>2 DEF AnnounceResult, TypeInv, TypeOK, CommitsNamePlayers, queueVars,
       d1Vars, agentVars
<1>3. CASE ShowState(m)
  <2>1. meta[m].winner \in Verdicts
    BY <1>3, MetasTyped DEF ShowState, TypeInv, TypeOK, Winners, Verdicts
  <2> QED
    BY <1>3, <2>1 DEF ShowState, TypeInv, TypeOK, CommitsNamePlayers, DecidersNamePlayers,
       objectVars, queueVars, d1Vars, agentVars
<1> QED
  BY <1>1, <1>2, <1>3

LEMMA AbortTypes ==
  ASSUME TypeInv, NEW m \in Matches,
         Exit(m) \/ Fatal(m) \/ CleanupStart(m) \/ CleanupFinish(m)
  PROVE  TypeInv'
<1>1. CASE Exit(m)
  <2> DEFINE o == [kind |-> "exit", pc |-> "closing", who |-> None, winner |-> None]
  <2>1. o \in Ops /\ ~Deciding(o)
    BY OpsTyped DEF Winners
  <2>2. op' \in [Matches -> Ops] /\ DecidersNamePlayers'
    <3>1. op' = [op EXCEPT ![m] = o] \/ op' = op
      BY <1>1 DEF Exit
    <3>2. CASE op' = op
      BY <3>2 DEF TypeInv, TypeOK, DecidersNamePlayers
    <3> QED
      BY <2>1, <3>1, <3>2, OpMoves
  <2>3. /\ rdy' \in [Matches -> ReadyPoints]
        /\ fatal' \in [Matches -> BOOLEAN]
        /\ seed' \in [Matches -> SeedPoints]
    BY <1>1, ThrowHttpTyped DEF Exit, TypeInv, TypeOK
  <2>4. told' \in [Matches -> SUBSET Verdicts]
    BY <1>1 DEF Exit, TypeInv, TypeOK, Verdicts
  <2> QED
    BY <1>1, <2>2, <2>3, <2>4 DEF Exit, TypeInv, TypeOK, CommitsNamePlayers, d1Vars
<1>2. CASE Fatal(m)
  <2>1. op' \in [Matches -> Ops] /\ DecidersNamePlayers'
    <3>1. CASE op' = op
      BY <3>1 DEF TypeInv, TypeOK, DecidersNamePlayers
    <3>2. ASSUME NEW w \in Winners,
                 op' = [op EXCEPT ![m] = [kind |-> "fatal", pc |-> "closing", who |-> None,
                                          winner |-> w]]
          PROVE  op' \in [Matches -> Ops] /\ DecidersNamePlayers'
      <4> DEFINE o == [kind |-> "fatal", pc |-> "closing", who |-> None, winner |-> w]
      <4>1. o \in Ops /\ ~Deciding(o)
        BY OpsTyped DEF Winners
      <4> QED
        BY <3>2, <4>1, OpMoves
    <3> QED
      BY <1>2, <3>1, <3>2 DEF Fatal
  <2>2. told' \in [Matches -> SUBSET Verdicts]
    <3>1. \/ UNCHANGED told
          \/ \E w \in Winners :
               told' = IF w = None THEN [told EXCEPT ![m] = @ \cup {"aborted"}] ELSE told
      BY <1>2 DEF Fatal
    <3>2. UNCHANGED told \/ told' = [told EXCEPT ![m] = @ \cup {"aborted"}]
      BY <3>1
    <3>3. told \in [Matches -> SUBSET Verdicts] /\ {"aborted"} \subseteq Verdicts
      BY DEF TypeInv, TypeOK, Verdicts
    <3>4. told[m] \cup {"aborted"} \in SUBSET Verdicts
      BY <3>3
    <3> QED
      BY <3>2, <3>3, <3>4
  <2>3. faults' \in 0..MaxFaults
    BY <1>2, FaultsTyped DEF TypeInv, Fatal, FatalWinner, FaultKinds
  <2> QED
    BY <1>2, <2>1, <2>2, <2>3 DEF Fatal, TypeInv, TypeOK, CommitsNamePlayers, queueVars,
       d1Vars, agentVars
<1>3. CASE CleanupStart(m)
  <2>1. PlayersOf[m] \subseteq Winners /\ None \in Winners
    BY MatchAssumption DEF Winners
  <2>2. \A c \in CleanupCalls(m) : c \in Calls /\ c.do # "commit"
    BY <2>1, CallsTyped DEF CleanupCalls
  <2>3. net' \subseteq Calls /\ CommitsNamePlayers'
    BY <1>3, <2>2, NetGrows DEF CleanupStart
  <2>4. op' \in [Matches -> Ops] /\ DecidersNamePlayers'
    BY <1>3, OpGoesOn DEF CleanupStart
  <2> QED
    BY <1>3, <2>3, <2>4 DEF CleanupStart, TypeInv, TypeOK, queueVars, d1Vars, agentVars
<1>4. CASE CleanupFinish(m)
  <2>1. op' \in [Matches -> Ops] /\ DecidersNamePlayers'
    BY <1>4, OpsTyped, OpMoves DEF CleanupFinish
  <2>2. meta' \in [Matches -> Metas]
    BY <1>4, MetasTyped DEF CleanupFinish, ClearStorage, TypeInv, TypeOK
  <2>3. faults' \in 0..MaxFaults
    BY <1>4, FaultsTyped DEF TypeInv, CleanupFinish, FaultKinds
  <2> QED
    BY <1>4, <2>1, <2>2, <2>3 DEF CleanupFinish, TypeInv, TypeOK, CommitsNamePlayers,
       queueVars, d1Vars, agentVars
<1> QED
  BY <1>1, <1>2, <1>3, <1>4

LEMMA StopEventsTyped ==
  ASSUME TypeInv, NEW m \in Matches, StopEvents(m)
  PROVE  exits' \in [Matches -> BOOLEAN]
BY DEF StopEvents, TypeInv, TypeOK

LEMMA ContainerTypes ==
  ASSUME TypeInv, NEW m \in Matches, ContainerStep(m)
  PROVE  TypeInv'
<1>1. faults' \in 0..MaxFaults
  BY FaultsTyped DEF TypeInv, TypeOK, ContainerStep, ContainerExits, ContainerTimesOut,
     ContainerExpires, FaultKinds
<1>2. exits' \in [Matches -> BOOLEAN]
  BY StopEventsTyped DEF TypeInv, TypeOK, ContainerStep, ContainerExits, ContainerTimesOut, ContainerExpires
<1> QED
  BY <1>1, <1>2 DEF ContainerStep, ContainerExits, ContainerTimesOut, ContainerExpires,
     TypeInv, TypeOK, CommitsNamePlayers, DecidersNamePlayers, objectVars, queueVars, d1Vars

LEMMA ResetTypes ==
  ASSUME TypeInv, NEW m \in Matches, Reset(m)
  PROVE  TypeInv'
<1>1. op' \in [Matches -> Ops] /\ DecidersNamePlayers'
  BY OpsTyped, OpMoves DEF Reset
<1>2. faults' \in 0..MaxFaults
  BY FaultsTyped DEF TypeInv, Reset, FaultKinds
<1> QED
  BY <1>1, <1>2, DropInFlightTyped DEF Reset, TypeInv, TypeOK, CommitsNamePlayers, d1Vars,
     agentVars

(* A waiting handler sees its call fail. *)
LEMMA RejectedTyped ==
  ASSUME TypeInv, NEW c \in net, Rejected(c)
  PROVE  /\ op' \in [Matches -> Ops] /\ DecidersNamePlayers'
         /\ rdy' \in [Matches -> ReadyPoints]
         /\ fatal' \in [Matches -> BOOLEAN]
         /\ seed' \in [Matches -> SeedPoints]
<1>1. c.match \in Matches
  BY DEF TypeInv, TypeOK, Calls
<1>2. CASE Throw(c.match)
  BY <1>1, <1>2, ThrowTyped
<1>3. CASE ~Throw(c.match)
  <2>1. UNCHANGED op /\ UNCHANGED fatal
    BY <1>3 DEF Rejected
  <2>2. rdy' \in [Matches -> ReadyPoints]
    <3>1. rdy \in [Matches -> ReadyPoints] /\ "rejected" \in ReadyPoints
      BY DEF TypeInv, TypeOK, ReadyPoints
    <3> QED
      BY <1>1, <1>3, <3>1 DEF Rejected
  <2>3. seed' \in [Matches -> SeedPoints]
    <3>1. seed \in [Matches -> SeedPoints] /\ "failed" \in SeedPoints
      BY DEF TypeInv, TypeOK, SeedPoints
    <3> QED
      BY <1>1, <1>3, <3>1 DEF Rejected
  <2> QED
    BY <2>1, <2>2, <2>3 DEF TypeInv, TypeOK, DecidersNamePlayers
<1> QED
  BY <1>2, <1>3

LEMMA RowsTyped ==
  /\ NoRow \in Rows
  /\ NewRow \in Rows
  /\ \A r \in Rows, w \in Winners, S \in SUBSET Players :
       [r EXCEPT !.winner = w, !.rated = S] \in Rows
  /\ \A r \in Rows : r.winner \in Winners /\ r.rated \subseteq Players
BY DEF NoRow, NewRow, Rows, Winners

(* persistWinner's batch. *)
LEMMA ApplyBatchTyped ==
  ASSUME TypeInv, NEW m \in Matches, NEW w \in PlayersOf[m], ApplyBatch(m, w)
  PROVE  /\ row' \in [Matches -> Rows]
         /\ users' \in [Players -> Users]
         /\ decided' \in [Matches -> SUBSET Players]
<1>1. w \in Players /\ PlayersOf[m] \subseteq Players
  BY MatchAssumption
<1>2. row' \in [Matches -> Rows]
  <2> DEFINE v == IF SetsWinner(m) THEN w ELSE row[m].winner
             S == row[m].rated \cup Unrated(m)
  <2>1. row[m] \in Rows
    BY DEF TypeInv, TypeOK
  <2>2. v \in Winners /\ S \in SUBSET Players
    BY <1>1, <2>1, RowsTyped DEF Unrated, Winners
  <2>3. row' = [row EXCEPT ![m] = [row[m] EXCEPT !.winner = v, !.rated = S]]
    BY DEF ApplyBatch
  <2> HIDE DEF v, S
  <2> QED
    BY <2>1, <2>2, <2>3, RowsTyped DEF TypeInv, TypeOK
<1>3. users' \in [Players -> Users]
  <2>1. \A p \in Players : RatedUser(m, w, p) \in Users
    BY DEF RatedUser, TypeInv, TypeOK, Users
  <2> QED
    BY <2>1 DEF ApplyBatch, TypeInv, TypeOK
<1>4. decided' \in [Matches -> SUBSET Players]
  BY <1>1 DEF ApplyBatch, TypeInv, TypeOK
<1> QED
  BY <1>2, <1>3, <1>4

LEMMA CallTypes ==
  ASSUME TypeInv, NEW c \in net, CallStep(c) \/ GiveUp(c)
  PROVE  TypeInv'
<1>1. c \in Calls /\ c.match \in Matches /\ c.who \in Winners
  BY DEF TypeInv, TypeOK, Calls
<1>2. CASE D1Insert(c)
  <2>1. net' \subseteq Calls /\ CommitsNamePlayers'
    BY <1>2, NetShrinks DEF D1Insert
  <2>2. row' \in [Matches -> Rows]
    BY <1>1, <1>2, RowsTyped DEF D1Insert, TypeInv, TypeOK
  <2>3. faults' \in 0..MaxFaults
    BY <1>2, FaultsTyped DEF TypeInv, D1Insert, AnswerInsert, FaultKinds
  <2>4. seed' \in [Matches -> SeedPoints]
    <3>1. seed \in [Matches -> SeedPoints] /\ {"inserted", "failed"} \subseteq SeedPoints
      BY DEF TypeInv, TypeOK, SeedPoints
    <3> QED
      BY <1>1, <1>2, <3>1 DEF D1Insert, AnswerInsert
  <2> QED
    BY <1>2, <2>1, <2>2, <2>3, <2>4 DEF D1Insert, TypeInv, TypeOK, DecidersNamePlayers,
       objectVars, agentVars
<1>3. CASE D1Commit(c)
  <2>1. net' \subseteq Calls /\ CommitsNamePlayers'
    BY <1>3, NetShrinks DEF D1Commit
  <2>2. c.who \in PlayersOf[c.match]
    BY <1>3 DEF D1Commit, TypeInv, CommitsNamePlayers
  <2>3. /\ row' \in [Matches -> Rows]
        /\ users' \in [Players -> Users]
        /\ decided' \in [Matches -> SUBSET Players]
    BY <1>1, <1>3, <2>2, ApplyBatchTyped DEF D1Commit
  <2>4. faults' \in 0..MaxFaults
    BY <1>3, FaultsTyped DEF TypeInv, D1Commit, FaultKinds
  <2>5. /\ op' \in [Matches -> Ops] /\ DecidersNamePlayers'
        /\ rdy' \in [Matches -> ReadyPoints]
        /\ fatal' \in [Matches -> BOOLEAN]
        /\ seed' \in [Matches -> SeedPoints]
    <3>1. CASE Throw(c.match)
      BY <1>1, <3>1, ThrowTyped
    <3>2. CASE Persisting(c) /\ op' = [op EXCEPT ![c.match].pc = "persisted"]
               /\ UNCHANGED <<rdy, fatal, seed>>
      <4>1. Deciding(op[c.match])
        BY <3>2 DEF Persisting, Deciding
      <4> QED
        BY <1>1, <3>2, <4>1, OpGoesOn DEF TypeInv, TypeOK
    <3>3. CASE UNCHANGED <<op, rdy, fatal, seed>>
      BY <3>3 DEF TypeInv, TypeOK, DecidersNamePlayers
    <3> QED
      BY <1>3, <3>1, <3>2, <3>3 DEF D1Commit
  <2> QED
    BY <1>3, <2>1, <2>3, <2>4, <2>5 DEF D1Commit, TypeInv, TypeOK, agentVars
<1>4. CASE D1Drop(c)
  <2>1. net' \subseteq Calls /\ CommitsNamePlayers'
    BY <1>4, NetShrinks DEF D1Drop
  <2> QED
    BY <1>1, <1>4, <2>1, RowsTyped DEF D1Drop, TypeInv, TypeOK, DecidersNamePlayers,
       objectVars, queueVars, agentVars
<1>5. CASE KvPut(c) \/ KvDelete(c)
  <2>1. net' \subseteq Calls /\ CommitsNamePlayers'
    BY <1>5, NetShrinks DEF KvPut, KvDelete
  <2>2. route' \in [Players -> Routes]
    <3>1. [match |-> c.match, ready |-> TRUE] \in Routes /\ NoRoute \in Routes
      BY <1>1 DEF Routes, NoRoute
    <3> QED
      BY <1>5, <3>1 DEF KvPut, KvDelete, TypeInv, TypeOK
  <2> QED
    BY <1>5, <2>1, <2>2 DEF KvPut, KvDelete, TypeInv, TypeOK, DecidersNamePlayers,
       objectVars, queueVars, d1Vars, agentVars
<1>6. CASE AgentStop(c)
  <2>1. net' \subseteq Calls /\ CommitsNamePlayers'
    BY <1>6, NetShrinks DEF AgentStop
  <2>2. exits' \in [Matches -> BOOLEAN]
    BY <1>1, <1>6, StopEventsTyped DEF AgentStop
  <2> QED
    BY <1>1, <1>6, <2>1, <2>2 DEF AgentStop, TypeInv, TypeOK, DecidersNamePlayers, objectVars,
       queueVars, d1Vars
<1>7. CASE Lose(c) \/ GiveUp(c)
  <2>1. net' \subseteq Calls /\ CommitsNamePlayers'
    <3>1. CASE net' = net
      BY <3>1 DEF TypeInv, TypeOK, CommitsNamePlayers
    <3> QED
      BY <1>7, <3>1, NetShrinks DEF Lose, GiveUp
  <2>2. faults' \in 0..MaxFaults
    BY <1>7, FaultsTyped DEF TypeInv, Lose, GiveUp, ServiceOf, FaultKinds
  <2>3. Rejected(c)
    BY <1>7 DEF Lose, GiveUp
  <2> QED
    BY <1>7, <2>1, <2>2, <2>3, RejectedTyped DEF Lose, GiveUp, TypeInv, TypeOK, d1Vars,
       agentVars
<1> QED
  BY <1>2, <1>3, <1>4, <1>5, <1>6, <1>7 DEF CallStep

LEMMA NextTypes == TypeInv /\ [Next]_vars => TypeInv'
<1> SUFFICES ASSUME TypeInv, [Next]_vars PROVE TypeInv'
  OBVIOUS
<1>1. CASE UNCHANGED vars
  BY <1>1 DEF vars, objectVars, queueVars, d1Vars, agentVars, TypeInv, TypeOK,
     CommitsNamePlayers, DecidersNamePlayers
<1>2. ASSUME NEW m \in Matches, Request(m) PROVE TypeInv'
  BY <1>2, SeedTypes, ReadyTypes, EnterTypes, AbortTypes, VerdictTypes
     DEF Request, Claim, Forfeit
<1>3. ASSUME NEW m \in Matches, ObjectStep(m) PROVE TypeInv'
  BY <1>3, SeedTypes, ReadyTypes, CheckTypes, VerdictTypes, AbortTypes DEF ObjectStep
<1>4. ASSUME NEW m \in Matches, ContainerStep(m) \/ Reset(m) PROVE TypeInv'
  BY <1>4, ContainerTypes, ResetTypes
<1>5. ASSUME NEW c \in net, CallStep(c) \/ GiveUp(c) PROVE TypeInv'
  BY <1>5, CallTypes
<1> QED
  BY <1>1, <1>2, <1>3, <1>4, <1>5 DEF Next

(* Type correctness of the match objects and everything they share, with    *)
(* the winner of every batch a player of its match.                         *)
THEOREM TypeCorrect == Spec => []TypeOK
<1>1. TypeInv => TypeOK
  BY DEF TypeInv
<1> QED
  BY <1>1, InitTypeInv, NextTypes, PTL DEF Spec

-----------------------------------------------------------------------------
(* The record of a match is right whatever fails: D1 holds one winner per   *)
(* match and counts every decided match once.  The argument is about the    *)
(* row: while it exists it tells everything that was ever decided, and it   *)
(* is inserted once, before anything can be decided.                        *)

Seed(m) == Call(m, "match", "insert", None)

InsertsAreSeeds == \A c \in net : c.do = "insert" => c = Seed(c.match)

SeedIsAhead(m) == seed[m] \in {"none", "allocated"}

(* Before its insert has taken effect, a match has no row and no winner, *)
(* and before it is issued there is none in flight.                      *)
UndecidedUntilInserted ==
  \A m \in Matches :
    /\ SeedIsAhead(m) => Seed(m) \notin net
    /\ SeedIsAhead(m) \/ Seed(m) \in net => ~row[m].exists /\ decided[m] = {}

(* A row that exists tells all that was decided, and has rated its players *)
(* exactly if it has a winner.  Once dropped, it never comes back.         *)
RowTellsAll ==
  \A m \in Matches : row[m].exists =>
    /\ decided[m] = (IF row[m].winner = None THEN {} ELSE {row[m].winner})
    /\ row[m].rated = (IF row[m].winner = None THEN {} ELSE PlayersOf[m])

RecordInv ==
  /\ InsertsAreSeeds
  /\ UndecidedUntilInserted
  /\ RowTellsAll
  /\ OneWinner
  /\ EachMatchCountedOnce

SafetyInv == TypeInv /\ RecordInv

-----------------------------------------------------------------------------
(* A step that issues no insert, does not take the queue back to before it  *)
(* and leaves the record alone, or drops rows of it, is harmless.           *)
LEMMA QuietStep ==
  ASSUME SafetyInv, UNCHANGED <<users, decided>>,
         \A m \in Matches : row'[m] = row[m] \/ row'[m] = NoRow,
         \A c \in net' : c.do = "insert" => c \in net,
         \A m \in Matches : seed'[m] \in {"none", "allocated"} => SeedIsAhead(m)
  PROVE  RecordInv'
<1>1. \A m \in Matches : Seed(m).do = "insert"
  BY DEF Seed, Call
<1>2. InsertsAreSeeds'
  BY DEF SafetyInv, RecordInv, InsertsAreSeeds, Seed, Call
<1>3. \A m \in Matches : SeedIsAhead(m)' => SeedIsAhead(m)
  BY DEF SeedIsAhead
<1>4. \A m \in Matches : Seed(m)' = Seed(m)
  BY DEF Seed, Call
<1>5. \A m \in Matches : (Seed(m) \in net)' => Seed(m) \in net
  BY <1>1, <1>4
<1>6. \A m \in Matches : row'[m].exists => row'[m] = row[m]
  BY DEF NoRow
<1>7. UndecidedUntilInserted'
  BY <1>3, <1>5, <1>6 DEF SafetyInv, RecordInv, UndecidedUntilInserted
<1>8. RowTellsAll'
  BY <1>6 DEF SafetyInv, RecordInv, RowTellsAll
<1>9. OneWinner' /\ EachMatchCountedOnce'
  BY DEF SafetyInv, RecordInv, OneWinner, EachMatchCountedOnce, PlayedIn, WonBy
<1> QED
  BY <1>2, <1>7, <1>8, <1>9 DEF RecordInv

LEMMA SeedInsertRecord ==
  ASSUME SafetyInv, NEW m \in Matches, SeedInsert(m)
  PROVE  RecordInv'
<1>1. net' = net \cup {Seed(m)} /\ seed' = [seed EXCEPT ![m] = "inserting"]
  BY DEF SeedInsert, Seed
<1>2. UNCHANGED <<row, users, decided>>
  BY DEF SeedInsert, d1Vars
<1>3. SeedIsAhead(m)
  BY DEF SeedInsert, SeedIsAhead
<1>4. \A n \in Matches : Seed(n).match = n /\ Seed(n)' = Seed(n)
  BY DEF Seed, Call
<1>5. InsertsAreSeeds'
  <2>1. \A c \in net : c.do = "insert" => c = Seed(c.match)
    BY DEF SafetyInv, RecordInv, InsertsAreSeeds
  <2>2. \A c \in net' : c \in net \/ c = Seed(m)
    BY <1>1
  <2>3. Seed(m) = Seed(Seed(m).match)
    BY <1>4
  <2>4. \A c \in net' : c.do = "insert" => c = Seed(c.match)
    BY <2>1, <2>2, <2>3
  <2> QED
    BY <2>4 DEF InsertsAreSeeds, Seed, Call
<1>6. UndecidedUntilInserted'
  <2> SUFFICES ASSUME NEW n \in Matches
               PROVE  /\ SeedIsAhead(n)' => Seed(n) \notin net'
                      /\ SeedIsAhead(n)' \/ Seed(n) \in net' => ~row'[n].exists /\ decided'[n] = {}
    BY <1>4 DEF UndecidedUntilInserted
  <2>1. seed'[n] = IF n = m THEN "inserting" ELSE seed[n]
    BY <1>1 DEF SafetyInv, TypeInv, TypeOK
  <2>2. n # m => (Seed(n) \in net' <=> Seed(n) \in net)
    BY <1>1, <1>4
  <2> QED
    BY <1>2, <1>3, <2>1, <2>2 DEF SafetyInv, RecordInv, UndecidedUntilInserted, SeedIsAhead
<1>7. RowTellsAll'
  BY <1>2 DEF SafetyInv, RecordInv, RowTellsAll
<1>8. OneWinner' /\ EachMatchCountedOnce'
  BY <1>2 DEF SafetyInv, RecordInv, OneWinner, EachMatchCountedOnce, PlayedIn, WonBy
<1> QED
  BY <1>5, <1>6, <1>7, <1>8 DEF RecordInv

(* The batch of handleSeed lands: the row of an undecided match appears. *)
LEMMA D1InsertRecord ==
  ASSUME SafetyInv, NEW c \in net, D1Insert(c)
  PROVE  RecordInv'
<1> DEFINE m == c.match
<1>1. m \in Matches /\ c = Seed(m) /\ Seed(m) \in net
  BY DEF SafetyInv, TypeInv, TypeOK, Calls, RecordInv, InsertsAreSeeds, D1Insert
<1> HIDE DEF m
<1>2. ~row[m].exists /\ decided[m] = {} /\ ~SeedIsAhead(m)
  BY <1>1 DEF SafetyInv, RecordInv, UndecidedUntilInserted
<1>3. net' = net \ {Seed(m)} /\ row' = [row EXCEPT ![m] = NewRow]
  BY <1>1, <1>2 DEF D1Insert, m
<1>4. UNCHANGED <<users, decided>>
  BY DEF D1Insert
<1>5. \A n \in Matches : Seed(n).match = n /\ Seed(n)' = Seed(n)
  BY DEF Seed, Call
<1>6. InsertsAreSeeds'
  BY <1>3 DEF SafetyInv, RecordInv, InsertsAreSeeds, Seed, Call
<1>7. seed' = [seed EXCEPT ![m] = IF @ = "inserting" THEN "inserted" ELSE @]
        \/ seed' = [seed EXCEPT ![m] = "failed"]
  BY DEF D1Insert, AnswerInsert, m
<1>8. \A n \in Matches : SeedIsAhead(n)' => SeedIsAhead(n) /\ n # m
  BY <1>1, <1>2, <1>7 DEF SeedIsAhead, SafetyInv, TypeInv, TypeOK
<1>9. \A n \in Matches : Seed(n) \in net' => Seed(n) \in net /\ n # m
  BY <1>3, <1>5
<1>10. \A n \in Matches : row'[n] = IF n = m THEN NewRow ELSE row[n]
  BY <1>3 DEF SafetyInv, TypeInv, TypeOK
<1>11. UndecidedUntilInserted'
  BY <1>4, <1>5, <1>8, <1>9, <1>10 DEF SafetyInv, RecordInv, UndecidedUntilInserted
<1>12. NewRow.winner = None /\ NewRow.rated = {}
  BY DEF NewRow, NoRow
<1>13. RowTellsAll'
  BY <1>2, <1>4, <1>10, <1>12 DEF SafetyInv, RecordInv, RowTellsAll
<1>14. OneWinner' /\ EachMatchCountedOnce'
  BY <1>4 DEF SafetyInv, RecordInv, OneWinner, EachMatchCountedOnce, PlayedIn, WonBy
<1> QED
  BY <1>6, <1>11, <1>13, <1>14 DEF RecordInv

-----------------------------------------------------------------------------
(* The batch of persistWinner *)

(* Its guards agree: it sets the winner and rates both players, or neither. *)
LEMMA BatchIsAllOrNothing ==
  ASSUME SafetyInv, NEW m \in Matches
  PROVE  Unrated(m) = IF SetsWinner(m) THEN PlayersOf[m] ELSE {}
BY DEF SafetyInv, RecordInv, RowTellsAll, Unrated, SetsWinner

(* A match more is counted once more. *)
LEMMA OneMore ==
  ASSUME NEW S, IsFiniteSet(S), NEW T \in SUBSET S, NEW m \in S, m \notin T
  PROVE  Cardinality(T \cup {m}) = Cardinality(T) + 1 /\ Cardinality(T) \in Nat
<1>1. IsFiniteSet(T)
  BY FS_Subset
<1> QED
  BY <1>1, FS_AddElement, FS_CardinalityType

LEMMA BatchSetsWinner ==
  ASSUME SafetyInv, NEW m \in Matches, NEW w \in PlayersOf[m], ApplyBatch(m, w), SetsWinner(m)
  PROVE  RowTellsAll' /\ OneWinner' /\ EachMatchCountedOnce'
<1>1. row[m].exists /\ row[m].winner = None /\ decided[m] = {} /\ row[m].rated = {}
  BY DEF SetsWinner, SafetyInv, RecordInv, RowTellsAll
<1>2. Unrated(m) = PlayersOf[m]
  BY BatchIsAllOrNothing
<1>3. w \in Players /\ w # None
  BY MatchAssumption
<1>4. decided' = [decided EXCEPT ![m] = {w}]
  BY <1>1 DEF ApplyBatch
<1>5. \A n \in Matches : decided'[n] = IF n = m THEN {w} ELSE decided[n]
  BY <1>4 DEF SafetyInv, TypeInv, TypeOK
<1>6. row' = [row EXCEPT ![m].winner = w, ![m].rated = PlayersOf[m]]
  BY <1>1, <1>2 DEF ApplyBatch
<1>7. row \in [Matches -> Rows] /\ DOMAIN row[m] = {"exists", "winner", "rated"}
  BY DEF SafetyInv, TypeInv, TypeOK, Rows
<1>8. /\ row'[m].winner = w /\ row'[m].rated = PlayersOf[m]
      /\ \A n \in Matches : n # m => row'[n] = row[n]
  <2>1. /\ row'[m] = [row[m] EXCEPT !.winner = w, !.rated = PlayersOf[m]]
        /\ \A n \in Matches : n # m => row'[n] = row[n]
    BY <1>6, <1>7
  <2> QED
    BY <1>7, <2>1
<1>9. RowTellsAll'
  <2>1. ASSUME NEW n \in Matches, n # m, row'[n].exists
        PROVE  /\ decided'[n] = (IF row'[n].winner = None THEN {} ELSE {row'[n].winner})
               /\ row'[n].rated = (IF row'[n].winner = None THEN {} ELSE PlayersOf[n])
    BY <1>5, <1>8, <2>1 DEF SafetyInv, RecordInv, RowTellsAll
  <2>2. /\ decided'[m] = (IF row'[m].winner = None THEN {} ELSE {row'[m].winner})
        /\ row'[m].rated = (IF row'[m].winner = None THEN {} ELSE PlayersOf[m])
    BY <1>3, <1>5, <1>8
  <2> QED
    BY <2>1, <2>2 DEF RowTellsAll
<1>10. OneWinner'
  BY <1>5 DEF SafetyInv, RecordInv, OneWinner
<1>11. ASSUME NEW p \in Players
       PROVE  /\ users'[p].matches = Cardinality(PlayedIn(p)')
              /\ users'[p].wins = Cardinality(WonBy(p)')
  <2>1. users[p].matches = Cardinality(PlayedIn(p)) /\ users[p].wins = Cardinality(WonBy(p))
    BY DEF SafetyInv, RecordInv, EachMatchCountedOnce
  <2>2. m \notin PlayedIn(p) /\ m \notin WonBy(p)
    BY <1>1 DEF PlayedIn, WonBy
  <2>3. PlayedIn(p) \subseteq Matches /\ WonBy(p) \subseteq Matches
    BY DEF PlayedIn, WonBy
  <2>4. users'[p] = IF p \in PlayersOf[m] THEN RatedUser(m, w, p) ELSE users[p]
    BY <1>2 DEF ApplyBatch
  <2>5. PlayedIn(p)' = IF p \in PlayersOf[m] THEN PlayedIn(p) \cup {m} ELSE PlayedIn(p)
    BY <1>1, <1>5 DEF PlayedIn
  <2>6. WonBy(p)' = IF p = w THEN WonBy(p) \cup {m} ELSE WonBy(p)
    BY <1>1, <1>5 DEF WonBy
  <2>7. /\ Cardinality(PlayedIn(p) \cup {m}) = Cardinality(PlayedIn(p)) + 1
        /\ Cardinality(WonBy(p) \cup {m}) = Cardinality(WonBy(p)) + 1
        /\ Cardinality(WonBy(p)) \in Nat
    BY <2>2, <2>3, OneMore, MatchAssumption
  <2>8. RatedUser(m, w, p).matches = users[p].matches + 1
    BY DEF RatedUser
  <2>9. RatedUser(m, w, p).wins = users[p].wins + (IF p = w THEN 1 ELSE 0)
    BY DEF RatedUser
  <2>10. users'[p].matches = Cardinality(PlayedIn(p)')
    BY <2>1, <2>4, <2>5, <2>7, <2>8
  <2>11. users'[p].wins = Cardinality(WonBy(p)')
    BY <2>1, <2>4, <2>6, <2>7, <2>9
  <2> QED
    BY <2>10, <2>11
<1>12. EachMatchCountedOnce'
  BY <1>11 DEF EachMatchCountedOnce
<1> QED
  BY <1>9, <1>10, <1>12

LEMMA D1CommitRecord ==
  ASSUME SafetyInv, NEW c \in net, D1Commit(c)
  PROVE  RecordInv'
<1> DEFINE m == c.match
           w == c.who
<1>1. m \in Matches /\ w \in PlayersOf[m] /\ c.do = "commit"
  BY DEF SafetyInv, TypeInv, TypeOK, Calls, CommitsNamePlayers, D1Commit
<1>2. ApplyBatch(m, w) /\ net' = net \ {c}
  BY DEF D1Commit
<1>3. seed' = seed \/ DropInFlight(m)
  BY DEF D1Commit, Throw
<1> HIDE DEF m, w
<1>4. \A n \in Matches : SeedIsAhead(n)' => SeedIsAhead(n)
  BY <1>1, <1>3 DEF SeedIsAhead, DropInFlight, SafetyInv, TypeInv, TypeOK
<1>5. \A n \in Matches : Seed(n)' = Seed(n) /\ Seed(n).do = "insert"
  BY DEF Seed, Call
<1>6. InsertsAreSeeds'
  BY <1>2 DEF SafetyInv, RecordInv, InsertsAreSeeds, Seed, Call
<1>7. CASE SetsWinner(m)
  <2>1. row[m].exists
    BY <1>7 DEF SetsWinner
  <2>2. \A n \in Matches : n # m => row'[n] = row[n] /\ decided'[n] = decided[n]
    BY <1>2 DEF ApplyBatch, SafetyInv, TypeInv, TypeOK
  <2>3. ~SeedIsAhead(m) /\ Seed(m) \notin net
    BY <1>1, <2>1 DEF SafetyInv, RecordInv, UndecidedUntilInserted
  <2>4. UndecidedUntilInserted'
    BY <1>2, <1>4, <1>5, <2>2, <2>3 DEF SafetyInv, RecordInv, UndecidedUntilInserted
  <2> QED
    BY <1>1, <1>2, <1>6, <1>7, <2>4, BatchSetsWinner DEF RecordInv
<1>8. CASE ~SetsWinner(m)
  <2>1. Unrated(m) = {}
    BY <1>1, <1>8, BatchIsAllOrNothing
  <2>2. decided' = decided /\ users' = users
    BY <1>2, <1>8, <2>1 DEF ApplyBatch, SafetyInv, TypeInv, TypeOK
  <2>3. row[m] \in Rows
    BY <1>1 DEF SafetyInv, TypeInv, TypeOK
  <2>4. row' = row
    <3>1. row[m].rated \cup Unrated(m) = row[m].rated
      BY <2>1
    <3>2. row' = [row EXCEPT ![m] = [row[m] EXCEPT !.winner = row[m].winner,
                                                   !.rated = row[m].rated]]
      BY <1>2, <1>8, <3>1 DEF ApplyBatch
    <3>3. [row[m] EXCEPT !.winner = row[m].winner, !.rated = row[m].rated] = row[m]
      BY <2>3 DEF Rows
    <3> QED
      BY <3>2, <3>3 DEF SafetyInv, TypeInv, TypeOK
  <2>5. \A d \in net' : d \in net
    BY <1>2
  <2>6. \A n \in Matches : seed'[n] \in {"none", "allocated"} => SeedIsAhead(n)
    BY <1>4 DEF SeedIsAhead
  <2> QED
    BY <2>2, <2>4, <2>5, <2>6, QuietStep
<1> QED
  BY <1>7, <1>8

-----------------------------------------------------------------------------
LEMMA InitRecord == Init => RecordInv
<1> SUFFICES ASSUME Init PROVE RecordInv
  OBVIOUS
<1>1. InsertsAreSeeds /\ UndecidedUntilInserted /\ RowTellsAll /\ OneWinner
  BY DEF Init, InsertsAreSeeds, UndecidedUntilInserted, RowTellsAll, OneWinner, NoRow
<1>2. \A p \in Players : PlayedIn(p) = {} /\ WonBy(p) = {}
  BY DEF Init, PlayedIn, WonBy
<1>3. EachMatchCountedOnce
  BY <1>2, FS_EmptySet DEF Init, EachMatchCountedOnce
<1> QED
  BY <1>1, <1>3 DEF RecordInv

(* What a failing handler or a reset object does to the progress of a seed. *)
LEMMA DroppedSeedIsNotAhead ==
  ASSUME TypeInv, NEW m \in Matches, UNCHANGED seed \/ DropInFlight(m)
  PROVE  \A n \in Matches : seed'[n] \in {"none", "allocated"} => SeedIsAhead(n)
BY DEF DropInFlight, SeedIsAhead, TypeInv, TypeOK

LEMMA ObjectStepRecord ==
  ASSUME SafetyInv, NEW m \in Matches, Request(m) \/ ObjectStep(m) \/ ContainerStep(m) \/ Reset(m)
  PROVE  RecordInv'
<1> TypeInv
  BY DEF SafetyInv
<1>1. CASE SeedInsert(m)
  BY <1>1, SeedInsertRecord
<1>2. CASE Allocate(m) \/ AllocateFails(m)
  <2>1. \A n \in Matches : seed'[n] \in {"none", "allocated"} => SeedIsAhead(n)
    BY <1>2 DEF Allocate, AllocateFails, FreeToForm, SeedIsAhead, TypeInv, TypeOK
  <2> QED
    BY <1>2, <2>1, QuietStep DEF Allocate, AllocateFails, d1Vars
<1>3. CASE SeedStore(m) \/ Formed(m)
  <2>1. \A n \in Matches : seed'[n] \in {"none", "allocated"} => SeedIsAhead(n)
    BY <1>3 DEF SeedStore, Formed, SeedIsAhead, TypeInv, TypeOK
  <2> QED
    BY <1>3, <2>1, QuietStep DEF SeedStore, Formed, d1Vars
<1>4. CASE FormFailed(m)
  <2>1. \A n \in Matches : seed'[n] \in {"none", "allocated"} => SeedIsAhead(n)
    BY <1>4 DEF FormFailed, SeedIsAhead, TypeInv, TypeOK
  <2>2. \A c \in net' : c.do = "insert" => c \in net
    BY <1>4 DEF FormFailed, Call
  <2> QED
    BY <1>4, <2>1, <2>2, QuietStep DEF FormFailed, d1Vars
<1>5. ASSUME UNCHANGED seed \/ DropInFlight(m), UNCHANGED <<row, users, decided>>,
             \A c \in net' : c.do = "insert" => c \in net
      PROVE  RecordInv'
  BY <1>5, DroppedSeedIsNotAhead, QuietStep
<1>6. CASE ReadyStart(m)
  <2>1. \A c \in net' : c.do = "insert" => c \in net
    BY <1>6 DEF ReadyStart, Call
  <2> QED
    BY <1>5, <1>6, <2>1 DEF ReadyStart, queueVars, d1Vars
<1>7. CASE ReadyRouted(m) \/ ReadyNotified(m) \/ ReadyFails(m)
  BY <1>5, <1>7 DEF ReadyRouted, ReadyNotified, ReadyFails, queueVars, d1Vars
<1>8. CASE \E p \in Players : Claim(m, p) \/ Forfeit(m, p)
  BY <1>5, <1>8 DEF Claim, Forfeit, Enter, ThrowHttp, d1Vars
<1>9. CASE AlreadyDecided(m) \/ CheckFails(m) \/ NotAPlayer(m)
  BY <1>5, <1>9 DEF AlreadyDecided, CheckFails, NotAPlayer, Throw, ThrowHttp, queueVars, d1Vars
<1>10. CASE Persist(m)
  <2>1. \A c \in net' : c.do = "insert" => c \in net
    BY <1>10 DEF Persist, Call
  <2> QED
    BY <1>5, <1>10, <2>1 DEF Persist, queueVars, d1Vars
<1>11. CASE Record(m) \/ AnnounceResult(m) \/ ShowState(m)
  BY <1>5, <1>11 DEF Record, AnnounceResult, ShowState, queueVars, d1Vars
<1>12. CASE Exit(m) \/ Fatal(m) \/ CleanupFinish(m)
  BY <1>5, <1>12 DEF Exit, ThrowHttp, Fatal, CleanupFinish, queueVars, d1Vars
<1>13. CASE CleanupStart(m)
  <2>1. \A c \in net' : c.do = "insert" => c \in net
    BY <1>13 DEF CleanupStart, CleanupCalls, Call
  <2> QED
    BY <1>5, <1>13, <2>1 DEF CleanupStart, queueVars, d1Vars
<1>14. CASE ContainerStep(m) \/ Reset(m)
  BY <1>5, <1>14 DEF ContainerStep, ContainerExits, ContainerTimesOut, ContainerExpires, Reset,
     queueVars, d1Vars
<1> QED
  BY <1>1, <1>2, <1>3, <1>4, <1>6, <1>7, <1>8, <1>9, <1>10, <1>11, <1>12, <1>13, <1>14
     DEF Request, ObjectStep

LEMMA CallStepRecord ==
  ASSUME SafetyInv, NEW c \in net, CallStep(c) \/ GiveUp(c)
  PROVE  RecordInv'
<1> TypeInv
  BY DEF SafetyInv
<1>1. c.match \in Matches
  BY DEF TypeInv, TypeOK, Calls
<1>2. CASE D1Insert(c)
  BY <1>2, D1InsertRecord
<1>3. CASE D1Commit(c)
  BY <1>3, D1CommitRecord
<1>4. CASE D1Drop(c)
  <2>1. \A m \in Matches : row'[m] = row[m] \/ row'[m] = NoRow
    BY <1>1, <1>4 DEF D1Drop, TypeInv, TypeOK
  <2>2. \A d \in net' : d \in net
    BY <1>4 DEF D1Drop
  <2>3. UNCHANGED <<users, decided, seed>>
    BY <1>4 DEF D1Drop, queueVars
  <2> QED
    BY <2>1, <2>2, <2>3, QuietStep DEF SeedIsAhead
<1>5. CASE KvPut(c) \/ KvDelete(c) \/ AgentStop(c)
  <2>1. \A d \in net' : d \in net
    BY <1>5 DEF KvPut, KvDelete, AgentStop
  <2>2. UNCHANGED <<row, users, decided, seed>>
    BY <1>5 DEF KvPut, KvDelete, AgentStop, d1Vars, queueVars
  <2> QED
    BY <2>1, <2>2, QuietStep DEF SeedIsAhead
<1>6. CASE Lose(c) \/ GiveUp(c)
  <2>1. \A d \in net' : d \in net
    BY <1>6 DEF Lose, GiveUp
  <2>2. UNCHANGED <<row, users, decided>>
    BY <1>6 DEF Lose, GiveUp, d1Vars
  <2>3. \A m \in Matches : seed'[m] \in {"none", "allocated"} => SeedIsAhead(m)
    <3>1. Rejected(c)
      BY <1>6 DEF Lose, GiveUp
    <3>2. CASE UNCHANGED seed \/ DropInFlight(c.match)
      BY <1>1, <3>2, DroppedSeedIsNotAhead
    <3>3. CASE seed' = [seed EXCEPT ![c.match] = IF @ = "inserting" THEN "failed" ELSE @]
      BY <1>1, <3>3 DEF SeedIsAhead, TypeInv, TypeOK
    <3> QED
      BY <3>1, <3>2, <3>3 DEF Rejected, Throw
  <2> QED
    BY <2>1, <2>2, <2>3, QuietStep
<1> QED
  BY <1>2, <1>3, <1>4, <1>5, <1>6 DEF CallStep

LEMMA SafetyInvInductive == SafetyInv /\ [Next]_vars => SafetyInv'
<1> SUFFICES ASSUME SafetyInv, [Next]_vars PROVE SafetyInv'
  OBVIOUS
<1>1. TypeInv'
  BY NextTypes DEF SafetyInv
<1>2. CASE UNCHANGED vars
  <2>1. UNCHANGED <<row, users, decided, net, seed>>
    BY <1>2 DEF vars, queueVars, d1Vars
  <2>2. RecordInv'
    BY <2>1, QuietStep DEF SeedIsAhead
  <2> QED
    BY <1>1, <2>2 DEF SafetyInv
<1>3. CASE Next
  <2>1. RecordInv'
    BY <1>3, ObjectStepRecord, CallStepRecord DEF Next
  <2> QED
    BY <1>1, <2>1 DEF SafetyInv
<1> QED
  BY <1>2, <1>3

LEMMA SafetyInvHolds == Spec => []SafetyInv
<1>1. Init => SafetyInv
  BY InitTypeInv, InitRecord DEF SafetyInv
<1> QED
  BY <1>1, SafetyInvInductive, PTL DEF Spec

(* D1 records at most one winner for a match, whatever fails, is lost,      *)
(* retried or lands late, for any number of matches and players.            *)
THEOREM OneWinnerForGood == Spec => []OneWinner
<1>1. SafetyInv => OneWinner
  BY DEF SafetyInv, RecordInv
<1> QED
  BY <1>1, SafetyInvHolds, PTL

(* The match and win counters of every player are exact, whatever fails.    *)
THEOREM CountersAreExact == Spec => []EachMatchCountedOnce
<1>1. SafetyInv => EachMatchCountedOnce
  BY DEF SafetyInv, RecordInv
<1> QED
  BY <1>1, SafetyInvHolds, PTL
=============================================================================
