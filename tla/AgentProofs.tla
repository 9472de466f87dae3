----------------------------- MODULE AgentProofs -----------------------------
(***************************************************************************)
(* Theorems about module Agent: any matches, any number of goroutines,      *)
(* requests and failures.                                                   *)
(***************************************************************************)
EXTENDS Agent, TLAPS, FiniteSetTheorems

(* Handlers between the look at a.matches and track; those of them that may *)
(* still create a container.                                                *)
Starting(m) == {g \in Goroutines : go[g].m = m /\ go[g].pc \in {"inspect", "create", "run", "track"}}
Creating(m) == {g \in Goroutines : go[g].m = m /\ go[g].pc \in {"inspect", "create"}}

(* Why no counter passes MaxStarts: what a start may still add is counted.  *)
CountsFit ==
  \A m \in Matches :
    /\ requests[m].answers + Cardinality(Starting(m)) <= requests[m].starts
    /\ timers[m] + Cardinality(Starting(m)) <= requests[m].starts
    /\ requests[m].creations + Cardinality(Creating(m)) <= requests[m].starts

(* Ids are those of containers that have been created, and nobody stops or  *)
(* tracks a match none has been created for.                                *)
Made(m) == requests[m].creations

ContainersAreMade ==
  \A m \in Matches :
    /\ container[m] = NoContainer \/ (container[m].cid \in 1..Made(m) /\ container[m].st # "none")
    /\ matches[m].cid <= Made(m)
    /\ Tracked(m) => Made(m) > 0
    /\ requests[m].answers > 0 => Made(m) > 0

(* The last conjunct is StoppedIsStopped, for a container that has not been  *)
(* started yet as well.                                                     *)
Sound(g) ==
  LET m == go[g].m IN
  /\ go[g].pc \in {"run", "track"} => go[g].cid \in 1..Made(m)
  /\ go[g].pc \in {"expire", "stop", "remove", "untrack"} => Made(m) > 0
  /\ go[g].pc \in {"stop", "remove", "untrack"} => go[g].cid <= Made(m)
  /\ At(g, "untrack") => ~(container[m].cid = 1 /\ Made(m) = 1)

IdInv == ContainersAreMade /\ \A g \in Goroutines : Sound(g)
AgentInv == TypeOK /\ CountsFit /\ IdInv

-----------------------------------------------------------------------------
(* Values *)

Tasks == [pc : {"idle", "inspect", "create", "run", "track", "expire", "stop", "remove",
                "untrack"}, m : Matches, cid : Cids]
Watchings == [pc : {"gap", "listen", "notify", "notifyTracked", "remove"},
              m : Matches, cid : Cids]

LEMMA ValuesTyped ==
  /\ Idle \in Tasks /\ Idle.pc = "idle"
  /\ Listening \in Watchings
  /\ [Listening EXCEPT !.pc = "gap"] \in Watchings
  /\ NoMatch \in [cid : Cids, stopping : BOOLEAN]
  /\ NoContainer \in [cid : Cids, st : {"none", "created", "running", "dead"}]
<1>1. (CHOOSE m \in Matches : TRUE) \in Matches
  BY AgentAssumption
<1>2. PICK x \in Matches : x = CHOOSE m \in Matches : TRUE
  BY <1>1
<1>3. Idle = [pc |-> "idle", m |-> x, cid |-> 0]
  BY <1>2 DEF Idle
<1>4. 0 \in Cids
  BY AgentAssumption DEF Cids
<1>5. Idle \in Tasks /\ Idle.pc = "idle"
  BY <1>3, <1>4 DEF Tasks
<1>6. Listening = [pc |-> "listen", m |-> x, cid |-> 0]
  BY <1>3 DEF Listening
<1> QED
  BY <1>4, <1>5, <1>6 DEF Watchings, NoMatch, NoContainer

(* Count adds one to the counters it names. *)
LEMMA CountAdds ==
  ASSUME requests \in [Matches -> [Counters -> Nat]], NEW m \in Matches, NEW what, Count(m, what)
  PROVE  /\ requests' \in [Matches -> [Counters -> Nat]]
         /\ \A n \in Matches : n # m => requests'[n] = requests[n]
         /\ \A k \in Counters :
              requests'[m][k] = IF k \in what THEN requests[m][k] + 1 ELSE requests[m][k]
BY DEF Count

LEMMA CountersAre ==
  /\ "starts" \in Counters /\ "answers" \in Counters
  /\ "creations" \in Counters /\ "stops" \in Counters
BY DEF Counters

LEMMA SetsFinite ==
  \A m : /\ IsFiniteSet(Starting(m)) /\ Cardinality(Starting(m)) \in Nat
         /\ IsFiniteSet(Creating(m)) /\ Cardinality(Creating(m)) \in Nat
<1> TAKE m
<1>1. Starting(m) \subseteq Goroutines /\ Creating(m) \subseteq Goroutines
  BY DEF Starting, Creating
<1> QED
  BY <1>1, FS_Subset, FS_CardinalityType, AgentAssumption

-----------------------------------------------------------------------------
(* The counters *)

(* A step that answers and creates nothing, and lets nobody begin a start.  *)
LEMMA QuietCounts ==
  ASSUME TypeOK, CountsFit,
         \A n \in Matches : Starting(n)' \subseteq Starting(n) /\ Creating(n)' \subseteq Creating(n),
         \A n \in Matches : /\ requests'[n].starts = requests[n].starts
                            /\ requests'[n].answers = requests[n].answers
                            /\ requests'[n].creations = requests[n].creations,
         \A n \in Matches : timers'[n] \in Nat /\ timers'[n] <= timers[n]
  PROVE  CountsFit'
<1> SUFFICES ASSUME NEW n \in Matches
             PROVE  /\ requests'[n].answers + Cardinality(Starting(n)') <= requests'[n].starts
                    /\ timers'[n] + Cardinality(Starting(n)') <= requests'[n].starts
                    /\ requests'[n].creations + Cardinality(Creating(n)') <= requests'[n].starts
  BY DEF CountsFit
<1>1. /\ Cardinality(Starting(n)') \in Nat /\ Cardinality(Starting(n)') <= Cardinality(Starting(n))
      /\ Cardinality(Creating(n)') \in Nat /\ Cardinality(Creating(n)') <= Cardinality(Creating(n))
  BY SetsFinite, FS_Subset, FS_CardinalityType
<1>2. Cardinality(Starting(n)) \in Nat /\ Cardinality(Creating(n)) \in Nat
  BY SetsFinite
<1>3. /\ requests[n].starts \in Nat /\ requests[n].answers \in Nat /\ requests[n].creations \in Nat
      /\ timers[n] \in Nat
  BY DEF TypeOK, Counters
<1>4. /\ requests[n].answers + Cardinality(Starting(n)) <= requests[n].starts
      /\ timers[n] + Cardinality(Starting(n)) <= requests[n].starts
      /\ requests[n].creations + Cardinality(Creating(n)) <= requests[n].starts
  BY DEF CountsFit
<1> QED
  BY <1>1, <1>2, <1>3, <1>4

-----------------------------------------------------------------------------
(* Goroutines *)

(* A task of a start. *)
OfStart(t) == t.pc \in {"inspect", "create", "run", "track"}

(* One that begins is counted from then on. *)
LEMMA OneBegins ==
  ASSUME go \in [Goroutines -> Tasks], NEW g \in Goroutines, NEW m \in Matches,
         go[g].pc = "idle", NEW t \in Tasks, t.pc = "inspect", t.m = m,
         go' = [go EXCEPT ![g] = t]
  PROVE  /\ Cardinality(Starting(m)') = Cardinality(Starting(m)) + 1
         /\ Cardinality(Creating(m)') = Cardinality(Creating(m)) + 1
         /\ \A n : n # m => Starting(n)' = Starting(n) /\ Creating(n)' = Creating(n)
<1>1. Starting(m)' = Starting(m) \cup {g} /\ g \notin Starting(m)
  BY DEF Starting
<1>2. Creating(m)' = Creating(m) \cup {g} /\ g \notin Creating(m)
  BY DEF Creating
<1>3. \A n : n # m => Starting(n)' = Starting(n) /\ Creating(n)' = Creating(n)
  BY DEF Starting, Creating
<1> QED
  BY <1>1, <1>2, <1>3, SetsFinite, FS_AddElement

(* One that is done with starting, or with creating, is not. *)
LEMMA OneIsDone ==
  ASSUME go \in [Goroutines -> Tasks], NEW g \in Goroutines, NEW t \in Tasks,
         go' = [go EXCEPT ![g] = t], NEW m \in Matches, go[g].m = m
  PROVE  /\ At(g, "track") /\ ~OfStart(t) =>
              Cardinality(Starting(m)') = Cardinality(Starting(m)) - 1
         /\ At(g, "create") /\ t.pc \notin {"inspect", "create"} =>
              Cardinality(Creating(m)') = Cardinality(Creating(m)) - 1
<1>1. ASSUME At(g, "track"), ~OfStart(t)
      PROVE  Cardinality(Starting(m)') = Cardinality(Starting(m)) - 1
  <2>1. Starting(m)' = Starting(m) \ {g} /\ g \in Starting(m)
    BY <1>1 DEF Starting, OfStart, At
  <2>2. IsFiniteSet(Starting(m))
    BY SetsFinite
  <2>3. Cardinality(Starting(m) \ {g}) = Cardinality(Starting(m)) - 1
    BY <2>1, <2>2, FS_RemoveElement
  <2> QED
    BY <2>1, <2>3
<1>2. ASSUME At(g, "create"), t.pc \notin {"inspect", "create"}
      PROVE  Cardinality(Creating(m)') = Cardinality(Creating(m)) - 1
  <2>1. Creating(m)' = Creating(m) \ {g} /\ g \in Creating(m)
    BY <1>2 DEF Creating, At
  <2>2. IsFiniteSet(Creating(m))
    BY SetsFinite
  <2>3. Cardinality(Creating(m) \ {g}) = Cardinality(Creating(m)) - 1
    BY <2>1, <2>2, FS_RemoveElement
  <2> QED
    BY <2>1, <2>3
<1> QED
  BY <1>1, <1>2

(* What the steps of a goroutine do to it: it has a new task. *)
Moved(g, t) == t \in Tasks /\ go' = [go EXCEPT ![g] = t]

LEMMA Movement ==
  ASSUME go \in [Goroutines -> Tasks], NEW g \in Goroutines, NEW t, Moved(g, t)
  PROVE  /\ go' \in [Goroutines -> Tasks]
         /\ go'[g] = t
         /\ \A h \in Goroutines : h # g => go'[h] = go[h]
BY DEF Moved

LEMMA Continued ==
  ASSUME go \in [Goroutines -> Tasks], NEW g \in Goroutines, NEW pc,
         pc \in {"inspect", "create", "run", "track", "expire", "stop", "remove", "untrack"},
         Continue(g, pc)
  PROVE  \E t : Moved(g, t) /\ t.pc = pc /\ t.m = go[g].m /\ t.cid = go[g].cid
<1> DEFINE t == [go[g] EXCEPT !.pc = pc]
<1>1. t \in Tasks /\ t.pc = pc /\ t.m = go[g].m /\ t.cid = go[g].cid
  BY DEF Tasks
<1>2. go' = [go EXCEPT ![g] = t]
  BY DEF Continue
<1> QED
  BY <1>1, <1>2 DEF Moved

Relabel(g, pc, cid) == go' = [go EXCEPT ![g].pc = pc, ![g].cid = cid]

LEMMA Relabelled ==
  ASSUME go \in [Goroutines -> Tasks], NEW g \in Goroutines, NEW pc, NEW cid \in Cids,
         pc \in {"run", "track", "stop"},
         Relabel(g, pc, cid)
  PROVE  \E t : Moved(g, t) /\ t.pc = pc /\ t.m = go[g].m /\ t.cid = cid
<1> DEFINE t == [go[g] EXCEPT !.pc = pc, !.cid = cid]
<1>1. t \in Tasks /\ t.pc = pc /\ t.m = go[g].m /\ t.cid = cid
  BY DEF Tasks
<1>2. go' = [go EXCEPT ![g] = t]
  BY DEF Relabel
<1> QED
  BY <1>1, <1>2 DEF Moved

LEMMA Returned ==
  ASSUME NEW g \in Goroutines, Return(g)
  PROVE  \E t : Moved(g, t) /\ t.pc = "idle"
BY ValuesTyped DEF Return, Moved

(* Go gives a task to a goroutine that is idle. *)
LEMMA Started ==
  ASSUME NEW m \in Matches, NEW pc, NEW cid \in Cids, pc \in {"inspect", "expire", "stop"},
         Go(m, pc, cid)
  PROVE  \E g \in Goroutines, t \in Tasks :
           At(g, "idle") /\ Moved(g, t) /\ t.pc = pc /\ t.m = m /\ t.cid = cid
<1>1. PICK g \in Goroutines : At(g, "idle") /\ go' = [go EXCEPT ![g] = [pc |-> pc, m |-> m, cid |-> cid]]
  BY DEF Go
<1> DEFINE t == [pc |-> pc, m |-> m, cid |-> cid]
<1>2. t \in Tasks /\ t.pc = pc /\ t.m = m /\ t.cid = cid
  BY DEF Tasks
<1>3. Moved(g, t)
  BY <1>1, <1>2 DEF Moved
<1> QED
  BY <1>1, <1>2, <1>3

-----------------------------------------------------------------------------
(* Steps that leave the counters alone and create nothing *)

CountsKept ==
  \A n \in Matches : /\ requests'[n].starts = requests[n].starts
                     /\ requests'[n].answers = requests[n].answers
                     /\ requests'[n].creations = requests[n].creations

ContainersKept ==
  \A n \in Matches :
    \/ container'[n] = container[n]
    \/ container'[n] = NoContainer
    \/ /\ container[n] # NoContainer
       /\ container'[n].cid = container[n].cid
       /\ container'[n].st # "none"

MatchesKept ==
  \A n \in Matches :
    matches'[n] = NoMatch \/ (Tracked(n) /\ matches'[n].cid = matches[n].cid)

Settles(h) ==
  \/ go'[h] = go[h]
  \/ /\ Sound(h)'
     /\ OfStart(go'[h]) => OfStart(go[h]) /\ go'[h].m = go[h].m
     /\ go'[h].pc \in {"inspect", "create"} => go[h].pc \in {"inspect", "create"}

LEMMA IdsKept ==
  ASSUME TypeOK, IdInv, ContainersKept,
         \A n \in Matches : /\ Made(n)' = Made(n)
                            /\ requests'[n].answers > 0 => Made(n) > 0
                            /\ matches'[n].cid <= Made(n)
                            /\ Tracked(n)' => Made(n) > 0,
         \A h \in Goroutines : go'[h] = go[h] \/ Sound(h)'
  PROVE  IdInv'
<1>1. ContainersAreMade'
  <2> SUFFICES ASSUME NEW n \in Matches
               PROVE  /\ \/ container'[n] = NoContainer
                         \/ container'[n].cid \in 1..Made(n)' /\ container'[n].st # "none"
                      /\ matches'[n].cid <= Made(n)'
                      /\ Tracked(n)' => Made(n)' > 0
                      /\ requests'[n].answers > 0 => Made(n)' > 0
    BY DEF ContainersAreMade
  <2>1. Made(n)' = Made(n)
    OBVIOUS
  <2>2. \/ container'[n] = NoContainer
        \/ container'[n].cid \in 1..Made(n)' /\ container'[n].st # "none"
    BY <2>1 DEF IdInv, ContainersAreMade, ContainersKept
  <2> QED
    BY <2>1, <2>2
<1>2. ASSUME NEW h \in Goroutines, go'[h] = go[h]
      PROVE  Sound(h)'
  <2>m. PICK m \in Matches : m = go[h].m
    BY DEF TypeOK
  <2>2. Made(m)' = Made(m)
    OBVIOUS
  <2>3. container'[m].cid = 1 => container[m].cid = 1
    BY DEF ContainersKept, NoContainer
  <2> QED
    BY <1>2, <2>m, <2>2, <2>3 DEF IdInv, Sound, At
<1> QED
  BY <1>1, <1>2 DEF IdInv

LEMMA Kept ==
  ASSUME AgentInv, TypeOK', CountsKept, ContainersKept, MatchesKept,
         \A h \in Goroutines : Settles(h),
         \A n \in Matches : timers'[n] <= timers[n]
  PROVE  AgentInv'
<1>1. \A n \in Matches : Starting(n)' \subseteq Starting(n) /\ Creating(n)' \subseteq Creating(n)
  BY DEF Starting, Creating, Settles, OfStart
<1>2. \A n \in Matches : timers'[n] \in Nat
  BY AgentAssumption DEF TypeOK
<1>3. CountsFit'
  BY <1>1, <1>2, QuietCounts DEF AgentInv, CountsKept
<1>4. ASSUME NEW n \in Matches
      PROVE  /\ Made(n)' = Made(n)
             /\ requests'[n].answers > 0 => Made(n) > 0
             /\ matches'[n].cid <= Made(n)
             /\ Tracked(n)' => Made(n) > 0
  <2>1. Made(n)' = Made(n) /\ Made(n) \in Nat /\ requests'[n].answers = requests[n].answers
    BY DEF CountsKept, Made, AgentInv, TypeOK, Counters
  <2>2. matches'[n].cid <= Made(n) /\ (Tracked(n)' => Made(n) > 0)
    BY <2>1 DEF AgentInv, IdInv, ContainersAreMade, MatchesKept, NoMatch, Tracked
  <2> QED
    BY <2>1, <2>2 DEF AgentInv, IdInv, ContainersAreMade
<1>5. IdInv'
  BY <1>4, IdsKept DEF AgentInv, Settles
<1> QED
  BY <1>3, <1>5 DEF AgentInv

(* Most steps change one goroutine, or none. *)
LEMMA OneSettles ==
  ASSUME go \in [Goroutines -> Tasks], NEW g \in Goroutines, NEW t, Moved(g, t), Sound(g)',
         OfStart(t) => OfStart(go[g]) /\ t.m = go[g].m,
         t.pc \in {"inspect", "create"} => go[g].pc \in {"inspect", "create"}
  PROVE  \A h \in Goroutines : Settles(h)
BY Movement DEF Settles

LEMMA NoneSettles ==
  ASSUME UNCHANGED go
  PROVE  \A h \in Goroutines : Settles(h)
BY DEF Settles

-----------------------------------------------------------------------------
(* One lemma per step.  First what the type invariant says of the parts.    *)

LEMMA Parts ==
  ASSUME TypeOK
  PROVE  /\ go \in [Goroutines -> Tasks] /\ watch \in Watchings
         /\ requests \in [Matches -> [Counters -> Nat]]
         /\ \A m \in Matches : Made(m) \in Nat /\ Made(m) <= MaxStarts
<1>1. /\ go \in [Goroutines -> Tasks] /\ watch \in Watchings
      /\ requests \in [Matches -> [Counters -> Nat]]
  BY DEF TypeOK, Tasks, Watchings
<1>2. ASSUME NEW m \in Matches
      PROVE  Made(m) \in Nat /\ Made(m) <= MaxStarts
  <2>1. /\ requests[m].creations \in Nat /\ requests[m].starts \in Nat
        /\ requests[m].starts <= MaxStarts /\ requests[m].creations <= requests[m].starts
    BY <1>1, <1>2 DEF TypeOK, Counters
  <2> QED
    BY <2>1, AgentAssumption DEF Made
<1> QED
  BY <1>1, <1>2

LEMMA Appended ==
  ASSUME NEW S, NEW q \in Seq(S), NEW e \in S
  PROVE  Append(q, e) \in Seq(S)
OBVIOUS

LEMMA EndsKeepTypes ==
  ASSUME TypeOK, NEW m \in Matches, Ends(m)
  PROVE  events' \in Seq([m : Matches, cid : Cids]) /\ unheard' \subseteq Matches
<1>1. [m |-> m, cid |-> container[m].cid] \in [m : Matches, cid : Cids]
  BY DEF TypeOK
<1>2. unheard' \subseteq Matches
  BY DEF Ends, TypeOK
<1>3. events' = events \/ events' = Append(events, [m |-> m, cid |-> container[m].cid])
  BY DEF Ends
<1>4. events \in Seq([m : Matches, cid : Cids])
  BY DEF TypeOK
<1> QED
  BY <1>1, <1>2, <1>3, <1>4, Appended

(* What a step leaves alone is kept. *)
LEMMA Still ==
  ASSUME TypeOK
  PROVE  /\ UNCHANGED requests => CountsKept
         /\ UNCHANGED container => ContainersKept
         /\ UNCHANGED matches => MatchesKept
         /\ UNCHANGED timers => \A n \in Matches : timers'[n] <= timers[n]
<1>1. \A n \in Matches : timers[n] \in Int
  BY AgentAssumption DEF TypeOK
<1> QED
  BY <1>1 DEF CountsKept, ContainersKept, MatchesKept, Tracked

(* Removing a container, and changing what one that exists is at. *)
LEMMA ContainerSteps ==
  ASSUME TypeOK, NEW m \in Matches, NEW st \in {"created", "running", "dead"}
  PROVE  /\ container' = [container EXCEPT ![m] = NoContainer] =>
              /\ ContainersKept
              /\ container' \in [Matches -> [cid : Cids, st : {"none", "created", "running", "dead"}]]
         /\ container[m] # NoContainer /\ container' = [container EXCEPT ![m].st = st] =>
              /\ ContainersKept
              /\ container' \in [Matches -> [cid : Cids, st : {"none", "created", "running", "dead"}]]
<1> DEFINE Containers == [cid : Cids, st : {"none", "created", "running", "dead"}]
<1>1. container \in [Matches -> Containers]
  BY DEF TypeOK
<1>2. NoContainer \in Containers
  BY ValuesTyped
<1>3. ASSUME container' = [container EXCEPT ![m] = NoContainer]
      PROVE  ContainersKept /\ container' \in [Matches -> Containers]
  BY <1>1, <1>2, <1>3 DEF ContainersKept
<1>4. ASSUME container[m] # NoContainer, container' = [container EXCEPT ![m].st = st]
      PROVE  ContainersKept /\ container' \in [Matches -> Containers]
  <2>1. container'[m].cid = container[m].cid /\ container'[m].st = st /\ st # "none"
    BY <1>1, <1>4
  <2>2. container' \in [Matches -> Containers]
    BY <1>1, <1>4
  <2>3. \A n \in Matches : n # m => container'[n] = container[n]
    BY <1>1, <1>4
  <2> QED
    BY <1>4, <2>1, <2>2, <2>3 DEF ContainersKept
<1> QED
  BY <1>3, <1>4

LEMMA MarkSteps ==
  ASSUME TypeOK, NEW m \in Matches, MarkStopping(m)
  PROVE  /\ MatchesKept
         /\ matches' \in [Matches -> [cid : Cids, stopping : BOOLEAN]]
         /\ asked' \subseteq Matches
<1>1. matches \in [Matches -> [cid : Cids, stopping : BOOLEAN]] /\ asked \subseteq Matches
  BY DEF TypeOK
<1>2. asked' = asked \cup {m}
  BY DEF MarkStopping
<1>3. CASE ~Tracked(m)
  BY <1>1, <1>2, <1>3 DEF MarkStopping, MatchesKept, Tracked
<1>4. CASE Tracked(m) /\ matches' = [matches EXCEPT ![m].stopping = TRUE]
  <2>1. matches' \in [Matches -> [cid : Cids, stopping : BOOLEAN]]
    BY <1>1, <1>4
  <2>2. /\ matches'[m].cid = matches[m].cid
        /\ \A n \in Matches \ {m} : matches'[n] = matches[n]
    BY <1>1, <1>4
  <2> QED
    BY <1>1, <1>2, <1>4, <2>1, <2>2 DEF MatchesKept, Tracked
<1> QED
  BY <1>3, <1>4 DEF MarkStopping

LEMMA DropSteps ==
  ASSUME TypeOK, NEW m \in Matches, Drop(m)
  PROVE  /\ MatchesKept
         /\ matches' \in [Matches -> [cid : Cids, stopping : BOOLEAN]]
BY ValuesTyped DEF Drop, MatchesKept, Tracked, TypeOK

LEMMA NotifySteps ==
  ASSUME TypeOK, NEW m \in Matches, NotifyExit(m)
  PROVE  heard' \subseteq Matches /\ unheard' \subseteq Matches /\ failed' \subseteq Faults
BY DEF NotifyExit, Fail, TypeOK

LEMMA InspectKeeps ==
  ASSUME AgentInv, NEW g \in Goroutines, Inspect(g)
  PROVE  AgentInv'
<1> USE DEF AgentInv
<1> DEFINE m == go[g].m
<1>0. m \in Matches /\ go[g].pc = "inspect"
  BY Parts DEF Tasks, Inspect, At
<1>1. CASE Running(m) /\ go' = [go EXCEPT ![g].pc = "track", ![g].cid = container[m].cid]
           /\ UNCHANGED container
  <2>1. container[m].cid \in Cids /\ container[m].cid \in 1..Made(m)
    BY <1>0, <1>1 DEF IdInv, ContainersAreMade, Running, NoContainer, TypeOK
  <2>r. Relabel(g, "track", container[m].cid)
    BY <1>1 DEF Relabel
  <2>2. PICK t : Moved(g, t) /\ t.pc = "track" /\ t.m = m /\ t.cid = container[m].cid
    BY <2>1, <2>r, Relabelled, Parts
  <2>3. go' \in [Goroutines -> Tasks] /\ Sound(g)'
    BY <2>1, <2>2, Movement, Parts DEF Sound, Made, Inspect, At
  <2>4. TypeOK'
    BY <1>1, <2>3 DEF Inspect, TypeOK, Tasks, history
  <2>5. \A h \in Goroutines : Settles(h)
    BY <1>0, <2>2, <2>3, OneSettles, Parts DEF OfStart
  <2> QED
    <3>1. CountsKept
      BY <1>1 DEF Inspect, CountsKept, TypeOK
    <3>2. ContainersKept /\ MatchesKept
      BY <1>1 DEF Inspect, ContainersKept, MatchesKept, Tracked
    <3>3. \A n \in Matches : timers'[n] <= timers[n]
      BY <1>1, AgentAssumption DEF Inspect, TypeOK
    <3> QED
      BY <1>1, <2>4, <2>5, <3>1, <3>2, <3>3, Kept
<1>2. CASE ~Running(m) /\ Continue(g, "create") /\ container' = [container EXCEPT ![m] = NoContainer]
  <2>2. PICK t : Moved(g, t) /\ t.pc = "create" /\ t.m = m
    BY <1>2, Continued, Parts
  <2>3. go' \in [Goroutines -> Tasks] /\ Sound(g)'
    BY <2>2, Movement, Parts DEF Sound, At
  <2>4. TypeOK'
    BY <1>2, <2>3, ValuesTyped DEF Inspect, TypeOK, Tasks, history
  <2>5. \A h \in Goroutines : Settles(h)
    BY <1>0, <2>2, <2>3, OneSettles, Parts DEF OfStart
  <2> QED
    BY <1>0, <1>2, <2>4, <2>5, Kept DEF Inspect, CountsKept, ContainersKept, MatchesKept, Tracked, TypeOK
<1> QED
  BY <1>1, <1>2 DEF Inspect

(* A handler that returns. *)
LEMMA ReturnSettles ==
  ASSUME TypeOK, NEW g \in Goroutines, Return(g)
  PROVE  go' \in [Goroutines -> Tasks] /\ \A h \in Goroutines : Settles(h)
<1>1. PICK t : Moved(g, t) /\ t.pc = "idle"
  BY Returned
<1>2. go' \in [Goroutines -> Tasks] /\ Sound(g)'
  BY <1>1, Movement, Parts DEF Sound, At
<1> QED
  BY <1>1, <1>2, OneSettles, Parts DEF OfStart

LEMMA CreateKeeps ==
  ASSUME AgentInv, NEW g \in Goroutines, Create(g)
  PROVE  AgentInv'
<1> USE DEF AgentInv
<1>m. PICK m \in Matches : m = go[g].m
  BY Parts DEF Tasks
<1>c. PICK cid : cid = requests[m].creations + 1
  OBVIOUS
<1>0. m \in Matches /\ go[g].pc = "create" /\ g \in Creating(m)
  BY <1>m DEF Create, At, Creating
<1>1. CASE container[m] # NoContainer /\ Return(g) /\ UNCHANGED <<container, requests>>
  <2>1. go' \in [Goroutines -> Tasks] /\ \A h \in Goroutines : Settles(h)
    BY <1>1, ReturnSettles
  <2>2. TypeOK'
    BY <1>1, <2>1 DEF Create, TypeOK, Tasks, history
  <2> QED
    BY <1>1, <2>1, <2>2, Kept, Still DEF Create
<1>2. CASE /\ container[m] = NoContainer
           /\ container' = [container EXCEPT ![m] = [cid |-> cid, st |-> "created"]]
           /\ go' = [go EXCEPT ![g].pc = "run", ![g].cid = cid]
           /\ Count(m, {"creations"})
  <2>1. /\ requests[m].starts \in Nat /\ requests[m].creations \in Nat
        /\ requests[m].starts <= MaxStarts
    BY <1>0 DEF TypeOK, Counters
  <2>2. Cardinality(Creating(m)) \in Nat /\ Cardinality(Creating(m)) > 0
    BY <1>0, SetsFinite, FS_EmptySet
  <2>3. requests[m].creations + Cardinality(Creating(m)) <= requests[m].starts
    BY <1>0 DEF CountsFit
  <2>4. cid \in Cids /\ cid > 0
    BY <1>c, <2>1, <2>2, <2>3, AgentAssumption DEF Cids
  <2>5. /\ requests' \in [Matches -> [Counters -> Nat]]
        /\ \A n \in Matches : n # m => requests'[n] = requests[n]
        /\ requests'[m].creations = cid /\ requests'[m].starts = requests[m].starts
        /\ requests'[m].stops = requests[m].stops /\ requests'[m].answers = requests[m].answers
    <3>1. requests \in [Matches -> [Counters -> Nat]] /\ Count(m, {"creations"})
      BY <1>2, Parts
    <3>2. /\ requests' \in [Matches -> [Counters -> Nat]]
          /\ \A n \in Matches : n # m => requests'[n] = requests[n]
          /\ \A k \in Counters : requests'[m][k] =
               IF k \in {"creations"} THEN requests[m][k] + 1 ELSE requests[m][k]
      BY <3>1, CountAdds
    <3> QED
      BY <1>c, <3>2, CountersAre
  <2>6. Relabel(g, "run", cid)
    BY <1>2 DEF Relabel
  <2>7. PICK t : Moved(g, t) /\ t.pc = "run" /\ t.m = m /\ t.cid = cid
    BY <1>m, <2>4, <2>6, Relabelled, Parts
  <2>8. /\ go' \in [Goroutines -> Tasks] /\ go'[g] = t
        /\ \A h \in Goroutines : h # g => go'[h] = go[h]
    BY <2>7, Movement, Parts
  <2>9. TypeOK'
    <3>1. cid <= requests[m].starts
      BY <1>c, <2>1, <2>2, <2>3
    <3>2. container' \in [Matches -> [cid : Cids, st : {"none", "created", "running", "dead"}]]
      BY <1>0, <1>2, <2>4 DEF TypeOK
    <3>3. \A n \in Matches :
            /\ requests'[n].starts <= MaxStarts /\ requests'[n].stops <= MaxStops
            /\ requests'[n].answers <= requests'[n].starts
            /\ requests'[n].creations <= requests'[n].starts
      BY <2>5, <3>1 DEF TypeOK
    <3> QED
      BY <2>5, <2>8, <3>2, <3>3 DEF Create, TypeOK, Tasks, history
  <2>10. CountsFit'
    <3>1. Cardinality(Creating(m)') = Cardinality(Creating(m)) - 1
      BY <1>0, <1>m, <2>7, <2>8, OneIsDone, Parts DEF At, Moved
    <3>2. \A n : Starting(n)' = Starting(n)
      BY <1>0, <1>m, <2>7, <2>8 DEF Starting
    <3>3. \A n : n # m => Creating(n)' = Creating(n)
      BY <1>0, <1>m, <2>7, <2>8 DEF Creating
    <3>4. timers' = timers
      BY DEF Create
    <3> QED
      BY <1>c, <2>1, <2>2, <2>3, <2>5, <3>1, <3>2, <3>3, <3>4 DEF CountsFit
  <2>11. IdInv'
    <3>1. \A n \in Matches : n # m => Made(n)' = Made(n)
      BY <2>5 DEF Made
    <3>2. Made(m)' = Made(m) + 1 /\ Made(m) \in Nat
      BY <1>c, <2>1, <2>5 DEF Made
    <3>3. ContainersAreMade'
      <4>1. ASSUME NEW n \in Matches, n # m
            PROVE  /\ container'[n] = container[n] /\ matches'[n] = matches[n]
                   /\ requests'[n] = requests[n]
        BY <1>2, <2>5, <4>1 DEF Create, TypeOK
      <4>2. container'[m] = [cid |-> cid, st |-> "created"] /\ matches'[m] = matches[m]
        BY <1>0, <1>2 DEF Create, TypeOK
      <4>3. cid = Made(m)' /\ matches[m].cid \in Nat
        BY <1>0, <2>5, AgentAssumption DEF Made, TypeOK, Cids
      <4> QED
        BY <2>4, <2>5, <3>1, <3>2, <4>1, <4>2, <4>3 DEF IdInv, ContainersAreMade, Tracked
    <3>4. ASSUME NEW h \in Goroutines
          PROVE  Sound(h)'
      <4>1. CASE h = g
        <5>1. go'[h].pc = "run" /\ go'[h].m = m /\ go'[h].cid = cid
          BY <2>7, <2>8, <4>1
        <5>2. cid \in 1..Made(m)'
          BY <2>4, <2>5 DEF Made, Cids
        <5> QED
          BY <5>1, <5>2 DEF Sound, At
      <4>2. CASE h # g
        <5>1. go'[h] = go[h] /\ go[h].m \in Matches /\ go[h].cid \in Nat
          BY <2>8, <4>2, Parts, AgentAssumption DEF Tasks, Cids
        <5>2. Sound(h)
          BY DEF IdInv
        <5>3. CASE go[h].m = m
          BY <3>2, <5>1, <5>2, <5>3 DEF Sound, At
        <5>4. CASE go[h].m # m
          <6>1. container'[go[h].m] = container[go[h].m] /\ Made(go[h].m)' = Made(go[h].m)
            BY <1>2, <3>1, <5>1, <5>4 DEF TypeOK
          <6> QED
            BY <5>1, <5>2, <6>1 DEF Sound, At
        <5> QED
          BY <5>3, <5>4
      <4> QED
        BY <4>1, <4>2
    <3> QED
      BY <3>3, <3>4 DEF IdInv
  <2> QED
    BY <2>9, <2>10, <2>11
<1> QED
  BY <1>1, <1>2, <1>m, <1>c DEF Create

LEMMA RunKeeps ==
  ASSUME AgentInv, NEW g \in Goroutines, Run(g)
  PROVE  AgentInv'
<1> USE DEF AgentInv
<1>m. PICK m \in Matches : m = go[g].m
  BY Parts DEF Tasks
<1>1. CASE Meant(g) /\ container' = [container EXCEPT ![m].st = "running"] /\ Continue(g, "track")
  <2>1. go[g].pc = "run" /\ go[g].cid \in 1..Made(m) /\ Made(m) \in Nat
    BY <1>m, Parts DEF Run, At, IdInv, Sound
  <2>2. container[m] # NoContainer
    BY <1>1, <1>m, <2>1 DEF Meant, NoContainer
  <2>3. /\ ContainersKept
        /\ container' \in [Matches -> [cid : Cids, st : {"none", "created", "running", "dead"}]]
    BY <1>1, <2>2, ContainerSteps
  <2>4. PICK t : Moved(g, t) /\ t.pc = "track" /\ t.m = m /\ t.cid = go[g].cid
    BY <1>1, <1>m, Continued, Parts
  <2>5. Made(m)' = Made(m)
    BY DEF Run, Made
  <2>6. go' \in [Goroutines -> Tasks] /\ go'[g] = t
    BY <2>4, Movement, Parts
  <2>7. Sound(g)'
    BY <2>1, <2>4, <2>5, <2>6 DEF Sound, At
  <2>8. TypeOK'
    BY <2>3, <2>6 DEF Run, TypeOK, Tasks, history
  <2>9. \A h \in Goroutines : Settles(h)
    BY <1>m, <2>1, <2>4, <2>7, OneSettles, Parts DEF OfStart
  <2> QED
    BY <2>3, <2>8, <2>9, Kept, Still DEF Run
<1>2. CASE ~Meant(g) /\ Return(g) /\ UNCHANGED container
  <2>1. go' \in [Goroutines -> Tasks] /\ \A h \in Goroutines : Settles(h)
    BY <1>2, ReturnSettles
  <2>2. TypeOK'
    BY <1>2, <2>1 DEF Run, TypeOK, Tasks, history
  <2> QED
    BY <1>2, <2>1, <2>2, Kept, Still DEF Run
<1> QED
  BY <1>1, <1>2, <1>m DEF Run

LEMMA StartFailsKeeps ==
  ASSUME AgentInv, NEW g \in Goroutines, StartFails(g)
  PROVE  AgentInv'
<1> USE DEF AgentInv
<1>m. PICK m \in Matches : m = go[g].m
  BY Parts DEF Tasks
<1>1. go' \in [Goroutines -> Tasks] /\ \A h \in Goroutines : Settles(h)
  BY ReturnSettles DEF StartFails
<1>2. container' = container \/ container' = [container EXCEPT ![m] = NoContainer]
  BY <1>m DEF StartFails
<1>3. /\ ContainersKept
      /\ container' \in [Matches -> [cid : Cids, st : {"none", "created", "running", "dead"}]]
  BY <1>2, ContainerSteps, Still DEF TypeOK
<1>4. TypeOK'
  BY <1>1, <1>3 DEF StartFails, Fail, TypeOK, Tasks, history
<1> QED
  BY <1>1, <1>3, <1>4, Kept, Still DEF StartFails

LEMMA StopFailsKeeps ==
  ASSUME AgentInv, NEW g \in Goroutines, StopFails(g)
  PROVE  AgentInv'
<1> USE DEF AgentInv
<1>1. go' \in [Goroutines -> Tasks] /\ \A h \in Goroutines : Settles(h)
  BY ReturnSettles DEF StopFails
<1>2. TypeOK'
  BY <1>1 DEF StopFails, Fail, TypeOK, Tasks, history
<1> QED
  BY <1>1, <1>2, Kept, Still DEF StopFails

LEMMA UntrackKeeps ==
  ASSUME AgentInv, NEW g \in Goroutines, Untrack(g)
  PROVE  AgentInv'
<1> USE DEF AgentInv
<1>m. PICK m \in Matches : m = go[g].m
  BY Parts DEF Tasks
<1>1. go' \in [Goroutines -> Tasks] /\ \A h \in Goroutines : Settles(h)
  BY ReturnSettles DEF Untrack
<1>2. MatchesKept /\ matches' \in [Matches -> [cid : Cids, stopping : BOOLEAN]]
  BY <1>m, DropSteps DEF Untrack
<1>3. TypeOK'
  BY <1>1, <1>2 DEF Untrack, TypeOK, Tasks, history
<1> QED
  BY <1>1, <1>2, <1>3, Kept, Still DEF Untrack

(* A task that Go hands out settles, unless it is a start. *)
LEMMA GoSettles ==
  ASSUME TypeOK, NEW m \in Matches, NEW pc \in {"expire", "stop"}, NEW cid \in Cids,
         Go(m, pc, cid), Made(m)' > 0, pc = "stop" => cid <= Made(m)'
  PROVE  go' \in [Goroutines -> Tasks] /\ \A h \in Goroutines : Settles(h)
<1>1. PICK g \in Goroutines, t \in Tasks :
        At(g, "idle") /\ Moved(g, t) /\ t.pc = pc /\ t.m = m /\ t.cid = cid
  BY Started
<1>2. go' \in [Goroutines -> Tasks] /\ Sound(g)'
  BY <1>1, Movement, Parts DEF Sound, At
<1> QED
  BY <1>1, <1>2, OneSettles, Parts DEF OfStart

LEMMA StopMatchKeeps ==
  ASSUME AgentInv, NEW m \in Matches, StopMatch(m)
  PROVE  AgentInv'
<1> USE DEF AgentInv
<1>1. /\ requests' \in [Matches -> [Counters -> Nat]]
      /\ \A n \in Matches : n # m => requests'[n] = requests[n]
      /\ \A k \in Counters : requests'[m][k] =
           IF k \in {"stops"} THEN requests[m][k] + 1 ELSE requests[m][k]
  BY CountAdds, Parts DEF StopMatch
<1>2. CountsKept
  BY <1>1, CountersAre DEF CountsKept
<1>3. MatchesKept /\ matches' \in [Matches -> [cid : Cids, stopping : BOOLEAN]] /\ asked' \subseteq Matches
  BY MarkSteps DEF StopMatch
<1>4. matches[m].cid \in Cids /\ Made(m) > 0 /\ matches[m].cid <= Made(m)
  BY DEF StopMatch, IdInv, ContainersAreMade, TypeOK
<1>5. Made(m)' = Made(m)
  BY <1>2 DEF CountsKept, Made
<1>6. go' \in [Goroutines -> Tasks] /\ \A h \in Goroutines : Settles(h)
  BY <1>4, <1>5, GoSettles DEF StopMatch
<1>7. TypeOK'
  <2>1. requests'[m].stops = requests[m].stops + 1 /\ requests[m].stops \in Nat
        /\ requests[m].stops < MaxStops
    BY <1>1, CountersAre, Parts DEF StopMatch
  <2>2. \A n \in Matches :
          /\ requests'[n].starts <= MaxStarts /\ requests'[n].stops <= MaxStops
          /\ requests'[n].answers <= requests'[n].starts
          /\ requests'[n].creations <= requests'[n].starts
    <3> SUFFICES ASSUME NEW n \in Matches
                 PROVE  /\ requests'[n].starts <= MaxStarts /\ requests'[n].stops <= MaxStops
                        /\ requests'[n].answers <= requests'[n].starts
                        /\ requests'[n].creations <= requests'[n].starts
      OBVIOUS
    <3>1. requests'[n].stops <= MaxStops
      <4>1. CASE n = m
        BY <2>1, <4>1, AgentAssumption
      <4>2. CASE n # m
        BY <1>1, <4>2 DEF TypeOK
      <4> QED
        BY <4>1, <4>2
    <3> QED
      BY <1>2, <3>1 DEF CountsKept, TypeOK
  <2> QED
    <3>1. UNCHANGED <<timers, watch, events, container, deaths, heard, unheard, failed>>
      BY DEF StopMatch
    <3> QED
      BY <1>1, <1>3, <1>6, <2>2, <3>1 DEF TypeOK, Tasks
<1> QED
  BY <1>2, <1>3, <1>6, <1>7, Kept, Still DEF StopMatch

LEMMA FireKeeps ==
  ASSUME AgentInv, NEW m \in Matches, Fire(m)
  PROVE  AgentInv'
<1> USE DEF AgentInv
<1>1. Made(m)' = Made(m)
  BY DEF Fire, Made
<1>2. go' \in [Goroutines -> Tasks] /\ \A h \in Goroutines : Settles(h)
  <2>1. CASE UNCHANGED go
    BY <2>1, NoneSettles, Parts
  <2>2. CASE Tracked(m) /\ Go(m, "expire", matches[m].cid)
    <3>1. matches[m].cid \in Cids /\ Made(m) > 0
      BY <2>2 DEF IdInv, ContainersAreMade, TypeOK
    <3> QED
      BY <1>1, <2>2, <3>1, GoSettles
  <2> QED
    BY <2>1, <2>2 DEF Fire
<1>3. timers' \in [Matches -> 0..MaxStarts] /\ \A n \in Matches : timers'[n] <= timers[n]
  BY AgentAssumption DEF Fire, TypeOK
<1>4. TypeOK'
  BY <1>2, <1>3 DEF Fire, TypeOK, Tasks, history
<1> QED
  BY <1>2, <1>3, <1>4, Kept, Still DEF Fire

LEMMA ExpireKeeps ==
  ASSUME AgentInv, NEW g \in Goroutines, Expire(g)
  PROVE  AgentInv'
<1> USE DEF AgentInv
<1>m. PICK m \in Matches : m = go[g].m
  BY Parts DEF Tasks
<1>1. MatchesKept /\ matches' \in [Matches -> [cid : Cids, stopping : BOOLEAN]] /\ asked' \subseteq Matches
  BY <1>m, MarkSteps DEF Expire
<1>2. heard' \subseteq Matches /\ unheard' \subseteq Matches /\ failed' \subseteq Faults
  BY <1>m, NotifySteps DEF Expire
<1>3. /\ go[g].pc = "expire" /\ Made(m) > 0
      /\ matches[m].cid \in Cids /\ matches[m].cid <= Made(m)
  BY <1>m DEF Expire, At, IdInv, Sound, ContainersAreMade, TypeOK
<1>4. Relabel(g, "stop", matches[m].cid)
  BY <1>m DEF Expire, Relabel
<1>5. PICK t : Moved(g, t) /\ t.pc = "stop" /\ t.m = m /\ t.cid = matches[m].cid
  BY <1>m, <1>3, <1>4, Relabelled, Parts
<1>6. go' \in [Goroutines -> Tasks] /\ go'[g] = t
  BY <1>5, Movement, Parts
<1>7. Made(m)' = Made(m)
  BY DEF Expire, Made
<1>8. Sound(g)'
  BY <1>3, <1>5, <1>6, <1>7 DEF Sound, At
<1>9. \A h \in Goroutines : Settles(h)
  BY <1>5, <1>8, OneSettles, Parts DEF OfStart
<1>10. TypeOK'
  BY <1>1, <1>2, <1>6 DEF Expire, TypeOK, Tasks
<1> QED
  BY <1>1, <1>9, <1>10, Kept, Still DEF Expire

LEMMA StopKeeps ==
  ASSUME AgentInv, NEW g \in Goroutines, Stop(g)
  PROVE  AgentInv'
<1> USE DEF AgentInv
<1>m. PICK m \in Matches : m = go[g].m
  BY Parts DEF Tasks
<1>1. go[g].pc = "stop" /\ Made(m) > 0 /\ go[g].cid <= Made(m)
  BY <1>m DEF Stop, At, IdInv, Sound
<1>2. \/ container' = container
      \/ container[m] # NoContainer /\ container' = [container EXCEPT ![m].st = "dead"]
  <2>2. Running(m) => container[m] # NoContainer
    BY DEF Running, NoContainer
  <2>3. container' = IF Meant(g) /\ Running(m)
                     THEN [container EXCEPT ![m] = [container[m] EXCEPT !.st = "dead"]] ELSE container
    BY <1>m, <1>1 DEF Stop, End, At
  <2>4. [container EXCEPT ![m] = [container[m] EXCEPT !.st = "dead"]] = [container EXCEPT ![m].st = "dead"]
    OBVIOUS
  <2> QED
    BY <2>2, <2>3, <2>4
<1>3. /\ ContainersKept
      /\ container' \in [Matches -> [cid : Cids, st : {"none", "created", "running", "dead"}]]
  BY <1>2, ContainerSteps, Still DEF TypeOK
<1>4. events' \in Seq([m : Matches, cid : Cids]) /\ unheard' \subseteq Matches
  BY <1>m, EndsKeepTypes DEF Stop, End, TypeOK
<1>5. PICK t : Moved(g, t) /\ t.pc = "remove" /\ t.m = m /\ t.cid = go[g].cid
  BY <1>m, Continued, Parts DEF Stop, End
<1>6. go' \in [Goroutines -> Tasks] /\ go'[g] = t
  BY <1>5, Movement, Parts
<1>7. Made(m)' = Made(m)
  BY DEF Stop, End, Made
<1>8. Sound(g)'
  BY <1>1, <1>5, <1>6, <1>7 DEF Sound, At
<1>9. \A h \in Goroutines : Settles(h)
  BY <1>5, <1>8, OneSettles, Parts DEF OfStart
<1>10. TypeOK'
  BY <1>3, <1>4, <1>6 DEF Stop, End, TypeOK, Tasks
<1> QED
  BY <1>3, <1>9, <1>10, Kept, Still DEF Stop, End

(* The step that makes a stop good: the container it was for is gone. *)
LEMMA RemoveKeeps ==
  ASSUME AgentInv, NEW g \in Goroutines, Remove(g)
  PROVE  AgentInv'
<1> USE DEF AgentInv
<1>m. PICK m \in Matches : m = go[g].m
  BY Parts DEF Tasks
<1>1. go[g].pc = "remove" /\ Made(m) > 0 /\ go[g].cid <= Made(m) /\ go[g].cid \in Nat /\ Made(m) \in Nat
  BY <1>m, Parts, AgentAssumption DEF Remove, At, IdInv, Sound, Tasks, Cids
<1>2. container' = IF Meant(g) THEN [container EXCEPT ![m] = NoContainer] ELSE container
  BY <1>m, <1>1 DEF Remove, End, At
<1>3. /\ ContainersKept
      /\ container' \in [Matches -> [cid : Cids, st : {"none", "created", "running", "dead"}]]
  BY <1>2, ContainerSteps, Still DEF TypeOK
<1>4. events' \in Seq([m : Matches, cid : Cids]) /\ unheard' \subseteq Matches
  BY <1>m, EndsKeepTypes DEF Remove, End, TypeOK
<1>5. PICK t : Moved(g, t) /\ t.pc = "untrack" /\ t.m = m /\ t.cid = go[g].cid
  BY <1>m, Continued, Parts DEF Remove, End
<1>6. go' \in [Goroutines -> Tasks] /\ go'[g] = t
  BY <1>5, Movement, Parts
<1>7. Made(m)' = Made(m)
  BY DEF Remove, End, Made
<1>8. ~(container'[m].cid = 1 /\ Made(m) = 1)
  <2>1. CASE Meant(g)
    BY <1>2, <2>1 DEF TypeOK, NoContainer
  <2>2. CASE ~Meant(g)
    BY <1>1, <1>2, <1>m, <2>2 DEF Meant
  <2> QED
    BY <2>1, <2>2
<1>9. Sound(g)'
  BY <1>1, <1>5, <1>6, <1>7, <1>8 DEF Sound, At
<1>10. \A h \in Goroutines : Settles(h)
  BY <1>5, <1>9, OneSettles, Parts DEF OfStart
<1>11. TypeOK'
  BY <1>3, <1>4, <1>6 DEF Remove, End, TypeOK, Tasks
<1> QED
  BY <1>3, <1>10, <1>11, Kept, Still DEF Remove, End

(* One match's counters change. *)
LEMMA BoundsKept ==
  ASSUME TypeOK, NEW m \in Matches,
         \A n \in Matches : n # m => requests'[n] = requests[n],
         requests'[m].starts <= MaxStarts, requests'[m].stops <= MaxStops,
         requests'[m].answers <= requests'[m].starts,
         requests'[m].creations <= requests'[m].starts
  PROVE  \A n \in Matches :
           /\ requests'[n].starts <= MaxStarts /\ requests'[n].stops <= MaxStops
           /\ requests'[n].answers <= requests'[n].starts
           /\ requests'[n].creations <= requests'[n].starts
<1> TAKE n \in Matches
<1>1. CASE n = m
  BY <1>1
<1>2. CASE n # m
  BY <1>2 DEF TypeOK
<1> QED
  BY <1>1, <1>2

LEMMA StartMatchKeeps ==
  ASSUME AgentInv, NEW m \in Matches, StartMatch(m)
  PROVE  AgentInv'
<1> USE DEF AgentInv
<1>1. /\ requests[m].starts \in Nat /\ requests[m].answers \in Nat /\ requests[m].creations \in Nat
      /\ timers[m] \in Nat
      /\ Cardinality(Starting(m)) \in Nat /\ Cardinality(Creating(m)) \in Nat
  BY SetsFinite DEF TypeOK, Counters
<1>2. \A n \in Matches : Made(n)' = Made(n) /\ Made(n) \in Nat
  BY CountAdds, CountersAre, Parts DEF StartMatch, Made
<1>3. CASE Tracked(m) /\ Count(m, {"starts", "answers"}) /\ UNCHANGED go
  <2>1. /\ requests' \in [Matches -> [Counters -> Nat]]
        /\ \A n \in Matches : n # m => requests'[n] = requests[n]
        /\ \A k \in Counters : requests'[m][k] =
             IF k \in {"starts", "answers"} THEN requests[m][k] + 1 ELSE requests[m][k]
    BY <1>3, CountAdds, Parts
  <2>2. /\ requests'[m].starts = requests[m].starts + 1
        /\ requests'[m].answers = requests[m].answers + 1
        /\ requests'[m].creations = requests[m].creations
        /\ requests'[m].stops = requests[m].stops
    BY <2>1, CountersAre
  <2>3. TypeOK'
    <3>1. \A n \in Matches :
            /\ requests'[n].starts <= MaxStarts /\ requests'[n].stops <= MaxStops
            /\ requests'[n].answers <= requests'[n].starts
            /\ requests'[n].creations <= requests'[n].starts
      <4>1. requests[m].starts < MaxStarts
        BY DEF StartMatch
      <4>2. /\ requests[m].stops <= MaxStops
            /\ requests[m].answers <= requests[m].starts
            /\ requests[m].creations <= requests[m].starts
        BY DEF TypeOK
      <4>3. /\ requests'[m].starts <= MaxStarts /\ requests'[m].stops <= MaxStops
            /\ requests'[m].answers <= requests'[m].starts
            /\ requests'[m].creations <= requests'[m].starts
        BY <1>1, <2>2, <4>1, <4>2, AgentAssumption
      <4> QED
        BY <2>1, <4>3, BoundsKept
    <3> QED
      BY <1>3, <2>1, <3>1 DEF StartMatch, TypeOK, history
  <2>4. CountsFit'
    <3>1. \A n : Starting(n)' = Starting(n) /\ Creating(n)' = Creating(n)
      BY <1>3 DEF Starting, Creating
    <3>2. timers' = timers
      BY DEF StartMatch
    <3> QED
      BY <1>1, <2>1, <2>2, <3>1, <3>2 DEF CountsFit
  <2>5. \A n \in Matches : requests'[n].answers > 0 => Made(n) > 0
    BY <1>3, <2>1 DEF IdInv, ContainersAreMade
  <2>6. IdInv'
    BY <1>2, <1>3, <2>5, IdsKept, Still DEF StartMatch, IdInv, ContainersAreMade, Tracked
  <2> QED
    BY <2>3, <2>4, <2>6
<1>4. CASE ~Tracked(m) /\ Count(m, {"starts"}) /\ Go(m, "inspect", 0)
  <2>1. /\ requests' \in [Matches -> [Counters -> Nat]]
        /\ \A n \in Matches : n # m => requests'[n] = requests[n]
        /\ \A k \in Counters : requests'[m][k] =
             IF k \in {"starts"} THEN requests[m][k] + 1 ELSE requests[m][k]
    BY <1>4, CountAdds, Parts
  <2>2. /\ requests'[m].starts = requests[m].starts + 1
        /\ requests'[m].answers = requests[m].answers
        /\ requests'[m].creations = requests[m].creations
        /\ requests'[m].stops = requests[m].stops
    BY <2>1, CountersAre
  <2>3. 0 \in Cids
    BY AgentAssumption DEF Cids
  <2>4. PICK g \in Goroutines, t \in Tasks :
          At(g, "idle") /\ Moved(g, t) /\ t.pc = "inspect" /\ t.m = m /\ t.cid = 0
    BY <1>4, <2>3, Started
  <2>5. go' \in [Goroutines -> Tasks] /\ Sound(g)'
    BY <2>4, Movement, Parts DEF Sound, At
  <2>6. TypeOK'
    <3>1. \A n \in Matches :
            /\ requests'[n].starts <= MaxStarts /\ requests'[n].stops <= MaxStops
            /\ requests'[n].answers <= requests'[n].starts
            /\ requests'[n].creations <= requests'[n].starts
      <4>1. requests[m].starts < MaxStarts
        BY DEF StartMatch
      <4>2. /\ requests[m].stops <= MaxStops
            /\ requests[m].answers <= requests[m].starts
            /\ requests[m].creations <= requests[m].starts
        BY DEF TypeOK
      <4>3. /\ requests'[m].starts <= MaxStarts /\ requests'[m].stops <= MaxStops
            /\ requests'[m].answers <= requests'[m].starts
            /\ requests'[m].creations <= requests'[m].starts
        BY <1>1, <2>2, <4>1, <4>2, AgentAssumption
      <4> QED
        BY <2>1, <4>3, BoundsKept
    <3> QED
      BY <2>1, <2>5, <3>1 DEF StartMatch, TypeOK, Tasks, history
  <2>7. CountsFit'
    <3>1. /\ Cardinality(Starting(m)') = Cardinality(Starting(m)) + 1
          /\ Cardinality(Creating(m)') = Cardinality(Creating(m)) + 1
          /\ \A n : n # m => Starting(n)' = Starting(n) /\ Creating(n)' = Creating(n)
      BY <2>4, OneBegins, Parts DEF At, Moved
    <3>2. timers' = timers
      BY DEF StartMatch
    <3> QED
      BY <1>1, <2>1, <2>2, <3>1, <3>2 DEF CountsFit
  <2>8. \A h \in Goroutines : go'[h] = go[h] \/ Sound(h)'
    BY <2>4, <2>5, Movement, Parts
  <2>9. \A n \in Matches : requests'[n].answers > 0 => Made(n) > 0
    BY <2>1, <2>2 DEF IdInv, ContainersAreMade
  <2>10. IdInv'
    BY <1>2, <2>8, <2>9, IdsKept, Still DEF StartMatch, IdInv, ContainersAreMade, Tracked
  <2> QED
    BY <2>6, <2>7, <2>10
<1> QED
  BY <1>3, <1>4 DEF StartMatch

LEMMA TrackKeeps ==
  ASSUME AgentInv, NEW g \in Goroutines, Track(g)
  PROVE  AgentInv'
<1> USE DEF AgentInv
<1>m. PICK m \in Matches : m = go[g].m
  BY Parts DEF Tasks
<1>1. /\ requests[m].starts \in Nat /\ requests[m].answers \in Nat /\ timers[m] \in Nat
      /\ requests[m].starts <= MaxStarts
  BY DEF TypeOK, Counters
<1>2. go[g].pc = "track" /\ go[g].cid \in Cids /\ go[g].cid \in 1..Made(m)
  BY <1>m, Parts DEF Track, At, IdInv, Sound, Tasks
<1>3. Cardinality(Starting(m)) \in Nat /\ Cardinality(Starting(m)) > 0
  <2>1. g \in Starting(m)
    BY <1>m, <1>2 DEF Starting
  <2> QED
    BY <2>1, SetsFinite, FS_EmptySet
<1>4. /\ requests[m].answers + Cardinality(Starting(m)) <= requests[m].starts
      /\ timers[m] + Cardinality(Starting(m)) <= requests[m].starts
  BY DEF CountsFit
<1>5. /\ requests' \in [Matches -> [Counters -> Nat]]
      /\ \A n \in Matches : n # m => requests'[n] = requests[n]
      /\ \A k \in Counters : requests'[m][k] =
           IF k \in {"answers"} THEN requests[m][k] + 1 ELSE requests[m][k]
  BY <1>m, CountAdds, Parts DEF Track
<1>6. /\ requests'[m].starts = requests[m].starts
      /\ requests'[m].answers = requests[m].answers + 1
      /\ requests'[m].creations = requests[m].creations
      /\ requests'[m].stops = requests[m].stops
  BY <1>5, CountersAre
<1>7. PICK t : Moved(g, t) /\ t.pc = "idle"
  BY Returned DEF Track
<1>8. go' \in [Goroutines -> Tasks] /\ \A h \in Goroutines : Settles(h)
  BY ReturnSettles DEF Track
<1>9. /\ timers' = [timers EXCEPT ![m] = @ + 1]
      /\ matches' = [matches EXCEPT ![m] = [cid |-> go[g].cid, stopping |-> FALSE]]
  BY <1>m DEF Track
<1>10. TypeOK'
  <2>1. timers[m] + 1 <= MaxStarts
    BY <1>1, <1>3, <1>4, AgentAssumption
  <2>2. timers' \in [Matches -> 0..MaxStarts]
    <3>1. timers \in [Matches -> 0..MaxStarts]
      BY DEF TypeOK
    <3>2. timers[m] + 1 \in 0..MaxStarts
      BY <1>1, <2>1, <3>1, AgentAssumption
    <3> QED
      BY <1>9, <3>1, <3>2
  <2>3. matches' \in [Matches -> [cid : Cids, stopping : BOOLEAN]]
    BY <1>2, <1>9 DEF TypeOK
  <2>4. \A n \in Matches :
          /\ requests'[n].starts <= MaxStarts /\ requests'[n].stops <= MaxStops
          /\ requests'[n].answers <= requests'[n].starts
          /\ requests'[n].creations <= requests'[n].starts
    <3>1. requests[m].stops <= MaxStops /\ requests[m].creations <= requests[m].starts
      BY DEF TypeOK
    <3>2. /\ requests'[m].starts <= MaxStarts /\ requests'[m].stops <= MaxStops
          /\ requests'[m].answers <= requests'[m].starts
          /\ requests'[m].creations <= requests'[m].starts
      BY <1>1, <1>3, <1>4, <1>6, <3>1
    <3> QED
      BY <1>5, <3>2, BoundsKept
  <2> QED
    BY <1>5, <1>8, <2>2, <2>3, <2>4 DEF Track, TypeOK, Tasks, history
<1>11. CountsFit'
  <2>1. Cardinality(Starting(m)') = Cardinality(Starting(m)) - 1
    BY <1>m, <1>2, <1>7, OneIsDone, Parts DEF At, Moved, OfStart
  <2>2. \A n : n # m => Starting(n)' = Starting(n)
    BY <1>m, <1>2, <1>7, Movement, Parts DEF Starting
  <2>3. \A n : Creating(n)' = Creating(n)
    BY <1>2, <1>7, Movement, Parts DEF Creating
  <2>4. \A n \in Matches : n # m => timers'[n] = timers[n]
    BY <1>9 DEF TypeOK
  <2>5. timers'[m] = timers[m] + 1
    BY <1>9 DEF TypeOK
  <2> QED
    BY <1>1, <1>3, <1>4, <1>5, <1>6, <2>1, <2>2, <2>3, <2>4, <2>5 DEF CountsFit
<1>12. IdInv'
  <2>1. \A n \in Matches : Made(n)' = Made(n) /\ Made(n) \in Nat
    BY <1>5, <1>6, Parts DEF Made
  <2>2. Made(m) > 0 /\ go[g].cid <= Made(m)
    BY <1>2, <2>1
  <2>3. \A n \in Matches : n # m => matches'[n] = matches[n]
    BY <1>9 DEF TypeOK
  <2>4. matches'[m].cid = go[g].cid
    BY <1>9 DEF TypeOK
  <2>5. \A n \in Matches : /\ requests'[n].answers > 0 => Made(n) > 0
                           /\ matches'[n].cid <= Made(n)
                           /\ Tracked(n)' => Made(n) > 0
    BY <1>5, <2>2, <2>3, <2>4 DEF IdInv, ContainersAreMade, Tracked
  <2>6. ContainersKept
    BY Still DEF Track
  <2> QED
    BY <1>8, <2>1, <2>5, <2>6, IdsKept DEF Settles
<1> QED
  BY <1>10, <1>11, <1>12

-----------------------------------------------------------------------------
(* The watcher, Podman and the host *)

LEMMA FirstAndRest ==
  ASSUME NEW S, NEW q \in Seq(S), q # <<>>
  PROVE  Head(q) \in S /\ Tail(q) \in Seq(S)
OBVIOUS

LEMMA HandleExitEventKeeps ==
  ASSUME AgentInv, HandleExitEvent
  PROVE  AgentInv'
<1> USE DEF AgentInv
<1>1. Head(events) \in [m : Matches, cid : Cids] /\ events' \in Seq([m : Matches, cid : Cids])
  BY FirstAndRest DEF HandleExitEvent, TypeOK
<1>m. PICK m \in Matches : m = Head(events).m
  BY <1>1
<1>2. MatchesKept /\ matches' \in [Matches -> [cid : Cids, stopping : BOOLEAN]]
  BY <1>m, DropSteps DEF HandleExitEvent
<1>3. matches[m].cid \in Cids /\ Head(events).cid \in Cids
  BY <1>1 DEF TypeOK
<1>4. watch' \in Watchings
  BY <1>m, <1>3, Parts DEF HandleExitEvent, Watchings
<1>5. TypeOK'
  BY <1>1, <1>2, <1>4 DEF HandleExitEvent, TypeOK, Watchings, history
<1> QED
  BY <1>2, <1>5, Kept, Still, NoneSettles, Parts DEF HandleExitEvent

LEMMA NotifyKeeps ==
  ASSUME AgentInv, Notify
  PROVE  AgentInv'
<1> USE DEF AgentInv
<1>1. watch.m \in Matches
  BY DEF TypeOK
<1>2. heard' \subseteq Matches /\ unheard' \subseteq Matches /\ failed' \subseteq Faults
  BY <1>1, NotifySteps DEF Notify
<1>3. [watch EXCEPT !.pc = "remove"] \in Watchings
  BY Parts DEF Watchings
<1>4. watch' \in Watchings
  BY <1>3, ValuesTyped DEF Notify
<1>5. TypeOK'
  BY <1>2, <1>4 DEF Notify, TypeOK, Watchings
<1> QED
  BY <1>5, Kept, Still, NoneSettles DEF Notify

LEMMA RemoveExitedKeeps ==
  ASSUME AgentInv, RemoveExited
  PROVE  AgentInv'
<1> USE DEF AgentInv
<1>m. PICK m \in Matches : m = watch.m
  BY DEF TypeOK
<1>1. container' = container \/ container' = [container EXCEPT ![m] = NoContainer]
  BY <1>m DEF RemoveExited
<1>2. /\ ContainersKept
      /\ container' \in [Matches -> [cid : Cids, st : {"none", "created", "running", "dead"}]]
  BY <1>1, ContainerSteps, Still DEF TypeOK
<1>3. events' \in Seq([m : Matches, cid : Cids]) /\ unheard' \subseteq Matches
  BY <1>m, EndsKeepTypes DEF RemoveExited, TypeOK
<1>4. watch' \in Watchings
  BY ValuesTyped DEF RemoveExited
<1>5. TypeOK'
  BY <1>2, <1>3, <1>4 DEF RemoveExited, TypeOK, Watchings
<1> QED
  BY <1>2, <1>5, Kept, Still, NoneSettles DEF RemoveExited

LEMMA RemoveExitedFailsKeeps ==
  ASSUME AgentInv, RemoveExitedFails
  PROVE  AgentInv'
<1> USE DEF AgentInv
<1>1. TypeOK'
  BY ValuesTyped DEF RemoveExitedFails, Fail, TypeOK, Watchings, history
<1> QED
  BY <1>1, Kept, Still, NoneSettles DEF RemoveExitedFails

LEMMA Elements ==
  ASSUME NEW S, NEW q \in Seq(S)
  PROVE  \A i \in 1..Len(q) : q[i] \in S
OBVIOUS

LEMMA LostAreMatches ==
  ASSUME TypeOK
  PROVE  Lost \subseteq Matches /\ <<>> \in Seq([m : Matches, cid : Cids])
<1>1. ASSUME NEW i \in 1..Len(events)
      PROVE  events[i] \in [m : Matches, cid : Cids]
  BY Elements DEF TypeOK
<1> QED
  BY <1>1 DEF Lost

LEMMA StreamEndsKeeps ==
  ASSUME AgentInv, StreamEnds
  PROVE  AgentInv'
<1> USE DEF AgentInv
<1>1. TypeOK'
  BY ValuesTyped, LostAreMatches DEF StreamEnds, Fail, TypeOK, Watchings
<1> QED
  BY <1>1, Kept, Still, NoneSettles DEF StreamEnds

LEMMA SubscribeKeeps ==
  ASSUME AgentInv, Subscribe
  PROVE  AgentInv'
<1> USE DEF AgentInv
<1>1. TypeOK'
  BY ValuesTyped DEF Subscribe, TypeOK, Watchings, history
<1> QED
  BY <1>1, Kept, Still, NoneSettles DEF Subscribe

LEMMA ContainerDiesKeeps ==
  ASSUME AgentInv, NEW m \in Matches, ContainerDies(m)
  PROVE  AgentInv'
<1> USE DEF AgentInv
<1>1. container[m] # NoContainer /\ container' = [container EXCEPT ![m].st = "dead"]
  BY DEF ContainerDies, Running, NoContainer
<1>2. /\ ContainersKept
      /\ container' \in [Matches -> [cid : Cids, st : {"none", "created", "running", "dead"}]]
  BY <1>1, ContainerSteps
<1>3. events' \in Seq([m : Matches, cid : Cids]) /\ unheard' \subseteq Matches
  BY EndsKeepTypes DEF ContainerDies
<1>4. TypeOK'
  BY <1>2, <1>3 DEF ContainerDies, TypeOK
<1> QED
  BY <1>2, <1>4, Kept, Still, NoneSettles DEF ContainerDies

LEMMA AutoRemoveKeeps ==
  ASSUME AgentInv, NEW m \in Matches, AutoRemove(m)
  PROVE  AgentInv'
<1> USE DEF AgentInv
<1>1. /\ ContainersKept
      /\ container' \in [Matches -> [cid : Cids, st : {"none", "created", "running", "dead"}]]
  BY ContainerSteps DEF AutoRemove
<1>2. TypeOK'
  BY <1>1 DEF AutoRemove, TypeOK, history
<1> QED
  BY <1>1, <1>2, Kept, Still, NoneSettles DEF AutoRemove

LEMMA CrashKeeps ==
  ASSUME AgentInv, Crash
  PROVE  AgentInv'
<1> USE DEF AgentInv
<1>1. go' \in [Goroutines -> Tasks] /\ \A h \in Goroutines : go'[h].pc = "idle"
  BY ValuesTyped DEF Crash
<1>2. \A h \in Goroutines : Settles(h)
  BY <1>1 DEF Settles, Sound, OfStart, At
<1>3. /\ matches' \in [Matches -> [cid : Cids, stopping : BOOLEAN]] /\ MatchesKept
      /\ timers' \in [Matches -> 0..MaxStarts] /\ \A n \in Matches : timers'[n] <= timers[n]
  BY ValuesTyped, AgentAssumption DEF Crash, MatchesKept, TypeOK
<1>4. unheard' \subseteq Matches
  BY LostAreMatches DEF Crash, TypeOK
<1>5. TypeOK'
  BY <1>1, <1>3, <1>4, ValuesTyped, LostAreMatches DEF Crash, Fail, TypeOK, Tasks, Watchings
<1> QED
  BY <1>2, <1>3, <1>5, Kept, Still DEF Crash

-----------------------------------------------------------------------------
(* The theorems *)

LEMMA InitHolds == Init => AgentInv
<1> SUFFICES ASSUME Init PROVE AgentInv
  OBVIOUS
<1>1. TypeOK
  BY ValuesTyped, LostAreMatches, AgentAssumption DEF Init, TypeOK, Tasks, Watchings, Counters
<1>2. \A m \in Matches : Starting(m) = {} /\ Creating(m) = {}
  BY ValuesTyped DEF Init, Starting, Creating
<1>3. CountsFit
  <2>1. \A m \in Matches : /\ requests[m].answers = 0 /\ requests[m].starts = 0
                           /\ requests[m].creations = 0 /\ timers[m] = 0
    BY DEF Init, Counters
  <2>2. Cardinality({}) = 0
    BY FS_EmptySet
  <2>3. \A m \in Matches : Cardinality(Starting(m)) = 0 /\ Cardinality(Creating(m)) = 0
    BY <1>2, <2>2
  <2> QED
    BY <2>1, <2>3 DEF CountsFit
<1>4. ContainersAreMade
  BY DEF Init, ContainersAreMade, Tracked, Made, NoMatch, Counters
<1>5. \A g \in Goroutines : Sound(g)
  BY ValuesTyped DEF Init, Sound, At
<1> QED
  BY <1>1, <1>3, <1>4, <1>5 DEF AgentInv, IdInv

LEMMA NextKeeps == AgentInv /\ [Next]_vars => AgentInv'
<1> SUFFICES ASSUME AgentInv, [Next]_vars PROVE AgentInv'
  OBVIOUS
<1>1. CASE UNCHANGED vars
  <2>1. TypeOK'
    BY <1>1 DEF AgentInv, vars, TypeOK
  <2> QED
    BY <1>1, <2>1, Kept, Still, NoneSettles DEF vars, AgentInv
<1>2. ASSUME NEW m \in Matches,
             StartMatch(m) \/ StopMatch(m) \/ Fire(m) \/ ContainerDies(m) \/ AutoRemove(m)
      PROVE  AgentInv'
  BY <1>2, StartMatchKeeps, StopMatchKeeps, FireKeeps, ContainerDiesKeeps, AutoRemoveKeeps
<1>3. ASSUME NEW g \in Goroutines, Works(g) \/ StartFails(g) \/ StopFails(g)
      PROVE  AgentInv'
  BY <1>3, InspectKeeps, CreateKeeps, RunKeeps, TrackKeeps, ExpireKeeps, StopKeeps, RemoveKeeps,
     UntrackKeeps, StartFailsKeeps, StopFailsKeeps DEF Works
<1>4. CASE Watches \/ RemoveExitedFails \/ StreamEnds \/ Crash
  BY <1>4, HandleExitEventKeeps, NotifyKeeps, RemoveExitedKeeps, SubscribeKeeps,
     RemoveExitedFailsKeeps, StreamEndsKeeps, CrashKeeps DEF Watches
<1> QED
  BY <1>1, <1>2, <1>3, <1>4 DEF Next

LEMMA Invariance == Spec => []AgentInv
BY InitHolds, NextKeeps, PTL DEF Spec

(* No request for a match, no timer and no container of it is ever counted  *)
(* past what was asked for, and every record of a match, of a goroutine and *)
(* of the watcher stays one the code can be in.                             *)
THEOREM TypeCorrect == Spec => []TypeOK
<1>1. AgentInv => TypeOK
  BY DEF AgentInv
<1> QED
  BY <1>1, Invariance, PTL

(* stopMatch: whatever starts, stops, timers, exits and crashes it races,   *)
(* a stop that has gone through -- by id, or by the bare name if nothing    *)
(* was tracked -- leaves no container it was for running.                   *)
THEOREM StopsGoThrough == Spec => []StoppedIsStopped
<1>1. AgentInv => StoppedIsStopped
  BY DEF AgentInv, IdInv, Sound, StoppedIsStopped, First, Made
<1> QED
  BY <1>1, Invariance, PTL

-----------------------------------------------------------------------------
(* Attendance: why a running container always has somebody to end it *)

Pending == {events[i] : i \in 1..Len(events)}

(* Only a container that has been created is tracked, *)
TrackedAreMade == \A m \in Matches : Tracked(m) => matches[m].cid \in 1..Made(m)

(* or removed by the watcher. *)
WatchedIsMade == watch.pc \in {"notifyTracked", "remove"} => watch.cid \in 1..Made(watch.m)

(* A container is started by the handler that created it, once. *)
RunsTheCreated == \A g \in Goroutines : At(g, "run") =>
  /\ Meant(g) => container[go[g].m].st = "created"
  /\ \A h \in Goroutines \ {g} : At(h, "run") => go[h].m # go[g].m \/ go[h].cid # go[g].cid

(* No exit event is of a container that is still to run. *)
ExitsAreOfTheDead == \A e \in Pending :
  /\ e.cid \in 1..Made(e.m)
  /\ e.cid = container[e.m].cid => container[e.m].st = "dead"

LifeInv ==
  TrackedAreMade /\ WatchedIsMade /\ RunsTheCreated /\ ExitsAreOfTheDead /\ RunningIsAttended

Attending == {"track", "expire", "stop", "remove"}

(* Whoever attended a match before a step does so after it. *)
StillAttended(n) ==
  /\ matches[n] = [cid |-> 1, stopping |-> FALSE] /\ timers[n] > 0 =>
       matches'[n] = matches[n] /\ timers'[n] > 0
  /\ \A g \in Goroutines : go[g].m = n /\ go[g].pc \in Attending =>
       go'[g].m = n /\ go'[g].pc \in Attending
  /\ watch.m = n /\ watch.pc \in {"notifyTracked", "remove"} =>
       watch'.m = n /\ watch'.pc \in {"notifyTracked", "remove"}

LEMMA StaysAttended ==
  ASSUME NEW n, Attended(n), StillAttended(n)
  PROVE  Attended(n)'
<1>1. CASE matches[n] = [cid |-> 1, stopping |-> FALSE] /\ timers[n] > 0
  BY <1>1 DEF Attended, StillAttended
<1>2. CASE \E g \in Goroutines : go[g].m = n /\ go[g].pc \in Attending
  BY <1>2 DEF Attended, StillAttended, Attending
<1>3. CASE watch.m = n /\ watch.pc \in {"notifyTracked", "remove"}
  BY <1>3 DEF Attended, StillAttended
<1> QED
  BY <1>1, <1>2, <1>3 DEF Attended, Attending

(* Exit events come and go. *)
LEMMA PendingSteps ==
  ASSUME TypeOK
  PROVE  /\ Pending \subseteq [m : Matches, cid : Cids]
         /\ events' = <<>> => Pending' = {}
         /\ events # <<>> => Head(events) \in Pending
         /\ events # <<>> /\ events' = Tail(events) => Pending' \subseteq Pending
         /\ \A e : events' = Append(events, e) => Pending' \subseteq Pending \cup {e}
<1> DEFINE Exits == [m : Matches, cid : Cids]
<1>1. events \in Seq(Exits)
  BY DEF TypeOK
<1>2. \A i \in 1..Len(events) : events[i] \in Exits
  BY <1>1, Elements
<1>3. ASSUME events # <<>>, events' = Tail(events)
      PROVE  Pending' \subseteq Pending
  <2>1. Len(events') = Len(events) - 1 /\ \A i \in 1..Len(events') : events'[i] = events[i + 1]
    BY <1>1, <1>3
  <2>2. Len(events) \in Nat
    BY <1>1
  <2>3. \A i \in 1..Len(events') : i + 1 \in 1..Len(events)
    BY <2>1, <2>2
  <2> QED
    BY <2>1, <2>3 DEF Pending
<1>4. ASSUME NEW e, events' = Append(events, e)
      PROVE  Pending' \subseteq Pending \cup {e}
  <2>1. /\ Len(events') = Len(events) + 1
        /\ \A i \in 1..Len(events') :
             (i \in 1..Len(events) /\ events'[i] = events[i]) \/ events'[i] = e
    BY <1>1, <1>4
  <2> QED
    BY <2>1 DEF Pending
<1>5. events # <<>> => 1 \in 1..Len(events) /\ Head(events) = events[1]
  BY <1>1
<1>6. events' = <<>> => Pending' = {}
  BY DEF Pending
<1> QED
  BY <1>2, <1>3, <1>4, <1>5, <1>6 DEF Pending

(* What a container that ends does to the event stream. *)
LEMMA EndsPends ==
  ASSUME TypeOK, NEW m \in Matches, Ends(m)
  PROVE  Pending' \subseteq Pending \cup {[m |-> m, cid |-> container[m].cid]}
<1>1. events' = events \/ events' = Append(events, [m |-> m, cid |-> container[m].cid])
  BY DEF Ends
<1> QED
  BY <1>1, PendingSteps DEF Pending

(* Containers end, and are removed. *)
Withers(n) ==
  \/ container'[n] = container[n]
  \/ container'[n] = NoContainer
  \/ container[n].st # "created" /\ container'[n].cid = container[n].cid /\ container'[n].st = "dead"

(* Every step but those that create and start a container.                  *)
LEMMA Lives ==
  ASSUME AgentInv, LifeInv,
         \A n \in Matches : Made(n)' = Made(n), \A n \in Matches : Withers(n),
         failed \subseteq failed',
         \A n \in Matches : \/ matches'[n] = NoMatch \/ matches'[n].cid \in 1..Made(n)
                            \/ Tracked(n) /\ matches'[n].cid = matches[n].cid,
         \/ watch' = watch \/ watch'.pc \notin {"notifyTracked", "remove"}
         \/ watch'.m \in Matches /\ watch'.cid \in 1..Made(watch'.m),
         \A g \in Goroutines : At(g, "run")' => go'[g] = go[g],
         \A e \in Pending' :
           e \in Pending \/ \E m \in Matches : e = [m |-> m, cid |-> container[m].cid] /\ Running(m)
                                              /\ container'[m] # container[m],
         \A n \in Matches :
           First(n) /\ First(n)' /\ failed' \cap {"stop", "crash"} = {} =>
             Attended(n)' \/ StillAttended(n)
  PROVE  LifeInv'
<1>1. TypeOK /\ go \in [Goroutines -> Tasks]
  BY Parts DEF AgentInv
<1>2. TrackedAreMade'
  BY DEF LifeInv, TrackedAreMade, Tracked
<1>3. WatchedIsMade'
  <2>1. watch.m \in Matches
    BY <1>1 DEF TypeOK
  <2> QED
    BY <2>1 DEF LifeInv, WatchedIsMade
<1>4. ASSUME NEW n \in Matches, NEW c, c > 0, c \in Int, c = container'[n].cid
      PROVE  /\ c = container[n].cid
             /\ \/ container'[n].st = container[n].st
                \/ container[n].st # "created" /\ container'[n].st = "dead"
  BY <1>4 DEF Withers, NoContainer
<1>5. RunsTheCreated'
  <2> SUFFICES ASSUME NEW g \in Goroutines, At(g, "run")'
               PROVE  /\ Meant(g)' => container'[go'[g].m].st = "created"
                      /\ \A h \in Goroutines \ {g} : At(h, "run")' =>
                           go'[h].m # go'[g].m \/ go'[h].cid # go'[g].cid
    BY DEF RunsTheCreated
  <2>1. go'[g] = go[g] /\ At(g, "run")
    BY DEF At
  <2>2. PICK m \in Matches : m = go[g].m
    BY <1>1 DEF Tasks
  <2>3. go[g].cid > 0 /\ go[g].cid \in Int
    BY <1>1, <2>1, <2>2, Parts DEF AgentInv, IdInv, Sound, At
  <2>4. Meant(g)' => container'[m].st = "created"
    BY <1>4, <2>1, <2>2, <2>3 DEF LifeInv, RunsTheCreated, Meant
  <2>5. \A h \in Goroutines \ {g} : At(h, "run")' => go'[h].m # go'[g].m \/ go'[h].cid # go'[g].cid
    BY <2>1 DEF LifeInv, RunsTheCreated, At
  <2> QED
    BY <2>1, <2>2, <2>4, <2>5
<1>6. ExitsAreOfTheDead'
  <2> SUFFICES ASSUME NEW e \in Pending'
               PROVE  /\ e.cid \in 1..Made(e.m)'
                      /\ e.cid = container'[e.m].cid => container'[e.m].st = "dead"
    BY DEF ExitsAreOfTheDead
  <2>1. CASE e \in Pending
    <3>1. e.m \in Matches /\ e.cid \in 1..Made(e.m)
      BY <1>1, <2>1, PendingSteps DEF LifeInv, ExitsAreOfTheDead
    <3>2. e.cid > 0 /\ e.cid \in Int
      BY <3>1
    <3> QED
      BY <1>4, <2>1, <3>1, <3>2 DEF LifeInv, ExitsAreOfTheDead
  <2>2. CASE \E m \in Matches : e = [m |-> m, cid |-> container[m].cid] /\ Running(m)
                               /\ container'[m] # container[m]
    <3>1. PICK m \in Matches : e = [m |-> m, cid |-> container[m].cid] /\ Running(m)
                               /\ container'[m] # container[m]
      BY <2>2
    <3>2. e.m = m /\ e.cid = container[m].cid
      BY <3>1
    <3>3. container[m].cid \in 1..Made(m)
      BY <3>1 DEF AgentInv, IdInv, ContainersAreMade, Running, NoContainer
    <3>4. container'[m] = NoContainer \/ container'[m].st = "dead"
      BY <3>1 DEF Withers
    <3> QED
      BY <3>2, <3>3, <3>4 DEF NoContainer
  <2> QED
    BY <2>1, <2>2
<1>7. RunningIsAttended'
  <2> SUFFICES ASSUME failed' \cap {"stop", "crash"} = {}, NEW n \in Matches, First(n)'
               PROVE  Attended(n)'
    BY DEF RunningIsAttended
  <2>1. container'[n].st = "running" /\ container'[n].cid = 1 /\ requests'[n].creations = 1
    BY DEF First, Running
  <2>2. container'[n] = container[n]
    BY <2>1 DEF Withers, NoContainer
  <2>3. First(n)
    BY <2>1, <2>2 DEF First, Running, Made
  <2>4. failed \cap {"stop", "crash"} = {}
    OBVIOUS
  <2>5. Attended(n)
    BY <2>3, <2>4 DEF LifeInv, RunningIsAttended
  <2> QED
    BY <2>3, <2>5, StaysAttended
<1> QED
  BY <1>2, <1>3, <1>5, <1>6, <1>7 DEF LifeInv

(* What a step leaves alone lives. *)
LEMMA Unmoved ==
  /\ UNCHANGED requests => \A n \in Matches : Made(n)' = Made(n)
  /\ UNCHANGED container => \A n \in Matches : Withers(n)
  /\ UNCHANGED events => Pending' \subseteq Pending
  /\ UNCHANGED go => \A g \in Goroutines : At(g, "run")' => go'[g] = go[g]
  /\ UNCHANGED <<matches, timers, go, watch>> => \A n \in Matches : StillAttended(n)
BY DEF Made, Withers, Pending, At, StillAttended

(* A goroutine that neither starts a container nor stops attending one. *)
LEMMA GoesOn ==
  ASSUME TypeOK, NEW g \in Goroutines, NEW t, Moved(g, t), t.pc # "run"
  PROVE  /\ \A h \in Goroutines : At(h, "run")' => go'[h] = go[h]
         /\ \A n \in Matches :
              UNCHANGED <<matches, timers, watch>>
              /\ (go[g].m = n /\ go[g].pc \in Attending => t.m = n /\ t.pc \in Attending)
                => StillAttended(n)
<1>1. go'[g] = t /\ \A h \in Goroutines : h # g => go'[h] = go[h]
  BY Movement, Parts
<1> QED
  BY <1>1 DEF At, StillAttended

LEMMA MadeKept ==
  ASSUME TypeOK, NEW m \in Matches, NEW what, Count(m, what), "creations" \notin what
  PROVE  \A n \in Matches : Made(n)' = Made(n)
BY CountAdds, CountersAre, Parts DEF Made

LEMMA StartMatchLives ==
  ASSUME AgentInv, LifeInv, NEW m \in Matches, StartMatch(m)
  PROVE  LifeInv'
<1>0. TypeOK /\ 0 \in Cids
  BY AgentAssumption DEF AgentInv, Cids
<1>1. UNCHANGED <<matches, timers, watch, events, container, failed>>
  BY DEF StartMatch
<1>2. \A n \in Matches : Made(n)' = Made(n)
  <2>1. PICK what : Count(m, what) /\ "creations" \notin what
    BY DEF StartMatch
  <2> QED
    BY <1>0, <2>1, MadeKept
<1>3. /\ \A g \in Goroutines : At(g, "run")' => go'[g] = go[g]
      /\ \A n \in Matches : StillAttended(n)
  <2>1. CASE UNCHANGED go
    BY <1>1, <2>1, Unmoved
  <2>2. CASE Go(m, "inspect", 0)
    <3>1. PICK g \in Goroutines, t \in Tasks :
            At(g, "idle") /\ Moved(g, t) /\ t.pc = "inspect"
      BY <1>0, <2>2, Started
    <3> QED
      BY <1>0, <1>1, <3>1, GoesOn DEF At, Attending
  <2> QED
    BY <2>1, <2>2 DEF StartMatch
<1> QED
  BY <1>1, <1>2, <1>3, Unmoved, Lives DEF Tracked

LEMMA InspectLives ==
  ASSUME AgentInv, LifeInv, NEW g \in Goroutines, Inspect(g)
  PROVE  LifeInv'
<1>0. TypeOK
  BY DEF AgentInv
<1>1. UNCHANGED <<matches, timers, watch, events, requests, failed>> /\ go[g].pc = "inspect"
  BY DEF Inspect, At
<1>m. PICK m \in Matches : m = go[g].m
  BY <1>0, Parts DEF Tasks
<1>2. \A n \in Matches : Withers(n)
  <2>1. container' = container \/ container' = [container EXCEPT ![m] = NoContainer]
    BY <1>m DEF Inspect
  <2> QED
    BY <1>0, <2>1 DEF Withers, TypeOK
<1>3. PICK t : Moved(g, t) /\ t.pc # "run"
  <2>1. CASE Continue(g, "create")
    BY <1>0, <2>1, Continued, Parts
  <2>2. CASE go' = [go EXCEPT ![g].pc = "track", ![g].cid = container[m].cid]
    <3>1. container[m].cid \in Cids /\ Relabel(g, "track", container[m].cid)
      BY <1>0, <2>2 DEF TypeOK, Relabel
    <3> QED
      BY <1>0, <3>1, Relabelled, Parts
  <2> QED
    BY <1>m, <2>1, <2>2 DEF Inspect
<1>4. /\ \A h \in Goroutines : At(h, "run")' => go'[h] = go[h]
      /\ \A n \in Matches : StillAttended(n)
  BY <1>0, <1>1, <1>3, GoesOn DEF Attending
<1> QED
  BY <1>1, <1>2, <1>4, Unmoved, Lives DEF Tracked

LEMMA ReturnLives ==
  ASSUME AgentInv, LifeInv, NEW g \in Goroutines, Return(g),
         UNCHANGED <<matches, timers, watch, events, requests>>, failed \subseteq failed',
         \A n \in Matches : Withers(n),
         go[g].pc \in Attending => failed' \cap {"stop", "crash"} # {}
  PROVE  LifeInv'
<1>0. TypeOK
  BY DEF AgentInv
<1>1. PICK t : Moved(g, t) /\ t.pc # "run"
  BY Returned
<1>2. /\ \A h \in Goroutines : At(h, "run")' => go'[h] = go[h]
      /\ \A n \in Matches : go[g].pc \notin Attending => StillAttended(n)
  BY <1>0, <1>1, GoesOn
<1> QED
  BY <1>2, Unmoved, Lives DEF Tracked

LEMMA StartFailsLives ==
  ASSUME AgentInv, LifeInv, NEW g \in Goroutines, StartFails(g)
  PROVE  LifeInv'
<1>m. PICK m \in Matches : m = go[g].m
  BY Parts DEF Tasks, AgentInv
<1>1. container' = container \/ container' = [container EXCEPT ![m] = NoContainer]
  BY <1>m DEF StartFails
<1>2. \A n \in Matches : Withers(n)
  BY <1>1 DEF Withers, TypeOK, AgentInv
<1> QED
  BY <1>2, ReturnLives DEF StartFails, Fail, Attending, history

LEMMA StopFailsLives ==
  ASSUME AgentInv, LifeInv, NEW g \in Goroutines, StopFails(g)
  PROVE  LifeInv'
BY Unmoved, ReturnLives DEF StopFails, Fail, history

LEMMA TrackLives ==
  ASSUME AgentInv, LifeInv, NEW g \in Goroutines, Track(g)
  PROVE  LifeInv'
<1>0. TypeOK
  BY DEF AgentInv
<1>m. PICK m \in Matches : m = go[g].m
  BY <1>0, Parts DEF Tasks
<1>1. UNCHANGED <<watch, events, container, failed>> /\ go[g].pc = "track"
  BY DEF Track, At
<1>2. \A n \in Matches : Made(n)' = Made(n)
  <2>1. Count(m, {"answers"}) /\ "creations" \notin {"answers"}
    BY <1>m DEF Track
  <2> QED
    BY <1>0, <2>1, MadeKept
<1>3. go[g].cid \in 1..Made(m)
  BY <1>1, <1>m DEF AgentInv, IdInv, Sound
<1>4. /\ matches'[m] = [cid |-> go[g].cid, stopping |-> FALSE]
      /\ timers'[m] = timers[m] + 1
      /\ \A n \in Matches : n # m => matches'[n] = matches[n] /\ timers'[n] = timers[n]
  BY <1>0, <1>m DEF Track, TypeOK
<1>5. PICK t : Moved(g, t) /\ t.pc = "idle"
  BY Returned DEF Track
<1>6. go'[g] = t /\ \A h \in Goroutines : h # g => go'[h] = go[h]
  BY <1>0, <1>5, Movement, Parts
<1>7. \A h \in Goroutines : At(h, "run")' => go'[h] = go[h]
  BY <1>5, <1>6 DEF At
<1>8. ASSUME NEW n \in Matches, First(n)
      PROVE  Attended(n)' \/ StillAttended(n)
  <2>1. CASE n = m
    <3>1. Made(m) = 1
      BY <1>8, <2>1 DEF First, Made
    <3>2. go[g].cid = 1
      BY <1>3, <3>1
    <3>3. timers[m] \in Nat
      BY <1>0, AgentAssumption DEF TypeOK
    <3>4. timers'[m] > 0
      BY <1>4, <3>3
    <3> QED
      BY <1>4, <2>1, <3>2, <3>4 DEF Attended
  <2>2. CASE n # m
    BY <1>1, <1>4, <1>6, <1>m, <2>2 DEF StillAttended
  <2> QED
    BY <2>1, <2>2
<1>9. \A n \in Matches : \/ matches'[n].cid \in 1..Made(n)
                         \/ matches'[n] = NoMatch
                         \/ Tracked(n) /\ matches'[n].cid = matches[n].cid
  BY <1>3, <1>4 DEF Tracked
<1> QED
  BY <1>1, <1>2, <1>7, <1>8, <1>9, Unmoved, Lives

LEMMA StopMatchLives ==
  ASSUME AgentInv, LifeInv, NEW m \in Matches, StopMatch(m)
  PROVE  LifeInv'
<1>0. TypeOK
  BY DEF AgentInv
<1>1. UNCHANGED <<timers, watch, events, container, failed>>
  BY DEF StopMatch
<1>2. \A n \in Matches : Made(n)' = Made(n)
  <2>1. Count(m, {"stops"}) /\ "creations" \notin {"stops"}
    BY DEF StopMatch
  <2> QED
    BY <1>0, <2>1, MadeKept
<1>3. MatchesKept /\ \A n \in Matches : n # m => matches'[n] = matches[n]
  BY <1>0, MarkSteps DEF StopMatch, MarkStopping, TypeOK
<1>4. matches[m].cid \in Cids
  BY <1>0 DEF TypeOK
<1>5. PICK g \in Goroutines, t \in Tasks : At(g, "idle") /\ Moved(g, t) /\ t.pc = "stop" /\ t.m = m
  BY <1>4, Started DEF StopMatch
<1>6. go'[g] = t /\ \A h \in Goroutines : h # g => go'[h] = go[h]
  BY <1>0, <1>5, Movement, Parts
<1>7. \A h \in Goroutines : At(h, "run")' => go'[h] = go[h]
  BY <1>5, <1>6 DEF At
<1>8. ASSUME NEW n \in Matches
      PROVE  Attended(n)' \/ StillAttended(n)
  <2>1. CASE n = m
    BY <1>5, <1>6, <2>1 DEF Attended
  <2>2. CASE n # m
    BY <1>1, <1>3, <1>5, <1>6, <2>2 DEF StillAttended, At, Attending
  <2> QED
    BY <2>1, <2>2
<1> QED
  BY <1>1, <1>2, <1>3, <1>7, <1>8, Unmoved, Lives DEF MatchesKept

LEMMA FireLives ==
  ASSUME AgentInv, LifeInv, NEW m \in Matches, Fire(m)
  PROVE  LifeInv'
<1>0. TypeOK
  BY DEF AgentInv
<1>1. /\ UNCHANGED <<matches, watch, events, container, requests, failed>>
      /\ \A n \in Matches : n # m => timers'[n] = timers[n]
  BY <1>0 DEF Fire, history, TypeOK
<1>2. CASE (~Tracked(m) \/ matches[m].stopping) /\ UNCHANGED go
  <2>1. matches[m] # [cid |-> 1, stopping |-> FALSE]
    BY <1>2 DEF Tracked, NoMatch
  <2>2. \A n \in Matches : StillAttended(n)
    BY <1>1, <1>2, <2>1 DEF StillAttended
  <2> QED
    BY <1>1, <1>2, <2>2, Unmoved, Lives DEF Tracked
<1>3. CASE Go(m, "expire", matches[m].cid)
  <2>1. matches[m].cid \in Cids
    BY <1>0 DEF TypeOK
  <2>2. PICK g \in Goroutines, t \in Tasks :
          At(g, "idle") /\ Moved(g, t) /\ t.pc = "expire" /\ t.m = m
    BY <1>3, <2>1, Started
  <2>3. go'[g] = t /\ \A h \in Goroutines : h # g => go'[h] = go[h]
    BY <1>0, <2>2, Movement, Parts
  <2>4. \A h \in Goroutines : At(h, "run")' => go'[h] = go[h]
    BY <2>2, <2>3 DEF At
  <2>5. ASSUME NEW n \in Matches
        PROVE  Attended(n)' \/ StillAttended(n)
    <3>1. CASE n = m
      BY <2>2, <2>3, <3>1 DEF Attended
    <3>2. CASE n # m
      BY <1>1, <2>2, <2>3, <3>2 DEF StillAttended, At, Attending
    <3> QED
      BY <3>1, <3>2
  <2> QED
    BY <1>1, <2>4, <2>5, Unmoved, Lives DEF Tracked
<1> QED
  BY <1>2, <1>3 DEF Fire

LEMMA ExpireLives ==
  ASSUME AgentInv, LifeInv, NEW g \in Goroutines, Expire(g)
  PROVE  LifeInv'
<1>0. TypeOK
  BY DEF AgentInv
<1>m. PICK m \in Matches : m = go[g].m
  BY <1>0, Parts DEF Tasks
<1>1. UNCHANGED <<timers, watch, events, container, requests>> /\ failed \subseteq failed'
  BY DEF Expire, NotifyExit, Fail
<1>2. MatchesKept /\ \A n \in Matches : n # m => matches'[n] = matches[n]
  BY <1>0, <1>m, MarkSteps DEF Expire, MarkStopping, TypeOK
<1>3. matches[m].cid \in Cids /\ Relabel(g, "stop", matches[m].cid)
  BY <1>0, <1>m DEF TypeOK, Expire, Relabel
<1>4. PICK t : Moved(g, t) /\ t.pc = "stop" /\ t.m = m
  BY <1>0, <1>m, <1>3, Relabelled, Parts
<1>5. go'[g] = t /\ \A h \in Goroutines : h # g => go'[h] = go[h]
  BY <1>0, <1>4, Movement, Parts
<1>6. \A h \in Goroutines : At(h, "run")' => go'[h] = go[h]
  BY <1>4, <1>5 DEF At
<1>7. ASSUME NEW n \in Matches
      PROVE  Attended(n)' \/ StillAttended(n)
  <2>1. CASE n = m
    BY <1>4, <1>5, <2>1 DEF Attended
  <2>2. CASE n # m
    BY <1>1, <1>2, <1>m, <1>5, <2>2 DEF StillAttended
  <2> QED
    BY <2>1, <2>2
<1> QED
  BY <1>1, <1>2, <1>6, <1>7, Unmoved, Lives DEF MatchesKept

(* ContainerStop and ContainerRemove *)
LEMMA EndLives ==
  ASSUME AgentInv, LifeInv, NEW g \in Goroutines, NEW next \in {"remove", "untrack"},
         go[g].pc \in {"stop", "remove"}, next = "remove" <=> At(g, "stop"), End(g, next)
  PROVE  LifeInv'
<1>0. TypeOK
  BY DEF AgentInv
<1>m. PICK m \in Matches : m = go[g].m
  BY <1>0, Parts DEF Tasks
<1>1. UNCHANGED <<matches, timers, watch, requests, failed>>
  BY DEF End
<1>2. PICK t : Moved(g, t) /\ t.pc = next /\ t.m = m
  BY <1>0, <1>m, Continued, Parts DEF End
<1>3. go'[g] = t /\ \A h \in Goroutines : h # g => go'[h] = go[h]
  BY <1>0, <1>2, Movement, Parts
<1>4. \A h \in Goroutines : At(h, "run")' => go'[h] = go[h]
  BY <1>2, <1>3 DEF At
<1>5. /\ \A n \in Matches : n # m => container'[n] = container[n]
      /\ ~(Meant(g) /\ (Running(m) \/ At(g, "remove"))) => container' = container
      /\ Meant(g) /\ (Running(m) \/ At(g, "remove")) =>
           container'[m] = IF At(g, "stop") THEN [container[m] EXCEPT !.st = "dead"] ELSE NoContainer
  BY <1>0, <1>m DEF End, TypeOK
<1>6. Running(m) /\ Meant(g) => container'[m] # container[m] /\ container'[m].st # "running"
  <2>1. container[m] \in [cid : Cids, st : {"none", "created", "running", "dead"}]
    BY <1>0 DEF TypeOK
  <2>2. [container[m] EXCEPT !.st = "dead"].st = "dead" /\ NoContainer.st = "none"
    BY <2>1 DEF NoContainer
  <2> QED
    BY <1>5, <2>2 DEF Running
<1>7. \A n \in Matches : Withers(n)
  <2>1. [container[m] EXCEPT !.st = "dead"].st = "dead"
        /\ [container[m] EXCEPT !.st = "dead"].cid = container[m].cid
    BY <1>0 DEF TypeOK
  <2>2. At(g, "stop") => ~At(g, "remove")
    BY DEF At
  <2> QED
    BY <1>5, <2>1, <2>2 DEF Withers, Running
<1>8. \A e \in Pending' :
        e \in Pending \/ \E n \in Matches : e = [m |-> n, cid |-> container[n].cid] /\ Running(n)
                                           /\ container'[n] # container[n]
  <2>1. CASE Meant(g) /\ Running(m)
    <3>1. Ends(m)
      BY <1>m, <2>1 DEF End
    <3> QED
      BY <1>0, <1>6, <2>1, <3>1, EndsPends
  <2>2. CASE ~(Meant(g) /\ Running(m))
    BY <1>m, <2>2, Unmoved DEF End
  <2> QED
    BY <2>1, <2>2
<1>9. ASSUME NEW n \in Matches, First(n), First(n)'
      PROVE  Attended(n)' \/ StillAttended(n)
  <2>1. CASE n # m
    BY <1>1, <1>3, <1>m, <2>1 DEF StillAttended
  <2>2. CASE n = m /\ next = "remove"
    BY <1>2, <1>3, <2>2 DEF Attended
  <2>3. CASE n = m /\ next = "untrack"
    <3>1. Running(m) /\ container[m].cid = 1 /\ Made(m) = 1
      BY <1>9, <2>3 DEF First, Made
    <3>2. go[g].cid <= Made(m) /\ go[g].cid \in Nat
      BY <1>0, <1>m, Parts, AgentAssumption DEF AgentInv, IdInv, Sound, Tasks, Cids
    <3>3. Meant(g)
      BY <1>m, <3>1, <3>2 DEF Meant
    <3> QED
      BY <1>6, <1>9, <2>3, <3>1, <3>3 DEF First, Running
  <2> QED
    BY <2>1, <2>2, <2>3
<1> QED
  BY <1>1, <1>4, <1>7, <1>8, <1>9, Unmoved, Lives DEF Tracked

LEMMA UntrackLives ==
  ASSUME AgentInv, LifeInv, NEW g \in Goroutines, Untrack(g)
  PROVE  LifeInv'
<1>0. TypeOK
  BY DEF AgentInv
<1>m. PICK m \in Matches : m = go[g].m
  BY <1>0, Parts DEF Tasks
<1>1. /\ UNCHANGED <<timers, watch, events, container, requests, failed>>
      /\ go[g].pc = "untrack"
      /\ \A n \in Matches : n # m => matches'[n] = matches[n]
      /\ matches'[m] = NoMatch
  BY <1>0, <1>m DEF Untrack, Drop, history, At, TypeOK
<1>2. PICK t : Moved(g, t) /\ t.pc = "idle"
  BY Returned DEF Untrack
<1>3. go'[g] = t /\ \A h \in Goroutines : h # g => go'[h] = go[h]
  BY <1>0, <1>2, Movement, Parts
<1>4. \A h \in Goroutines : At(h, "run")' => go'[h] = go[h]
  BY <1>2, <1>3 DEF At
<1>5. ASSUME NEW n \in Matches, First(n)
      PROVE  StillAttended(n)
  <2>1. n # m
    BY <1>1, <1>5, <1>m DEF AgentInv, IdInv, Sound, At, First, Made
  <2> QED
    BY <1>1, <1>3, <1>m, <2>1 DEF StillAttended
<1> QED
  BY <1>1, <1>4, <1>5, Unmoved, Lives DEF Tracked

LEMMA CreateLives ==
  ASSUME AgentInv, LifeInv, NEW g \in Goroutines, Create(g)
  PROVE  LifeInv'
<1>0. TypeOK /\ go \in [Goroutines -> Tasks]
  BY Parts DEF AgentInv
<1>m. PICK m \in Matches : m = go[g].m
  BY <1>0 DEF Tasks
<1>1. UNCHANGED <<matches, timers, watch, events, failed>> /\ go[g].pc = "create"
  BY DEF Create, At
<1>2. CASE Return(g) /\ UNCHANGED <<container, requests>>
  BY <1>1, <1>2, Unmoved, ReturnLives DEF Attending
<1>3. CASE /\ container' = [container EXCEPT ![m] = [cid |-> Made(m) + 1, st |-> "created"]]
           /\ go' = [go EXCEPT ![g].pc = "run", ![g].cid = Made(m) + 1]
           /\ Count(m, {"creations"})
  <2>1. \A n \in Matches : Made(n) \in Nat
    BY <1>0, Parts
  <2>2. Made(m)' = Made(m) + 1 /\ \A n \in Matches : n # m => Made(n)' = Made(n)
    <3>1. /\ \A n \in Matches : n # m => requests'[n] = requests[n]
          /\ \A k \in Counters : requests'[m][k] =
               IF k \in {"creations"} THEN requests[m][k] + 1 ELSE requests[m][k]
      BY <1>0, <1>3, CountAdds, Parts
    <3> QED
      BY <3>1, CountersAre DEF Made
  <2>3. /\ container'[m] = [cid |-> Made(m) + 1, st |-> "created"]
        /\ \A n \in Matches : n # m => container'[n] = container[n]
    BY <1>0, <1>3 DEF TypeOK
  <2>4. /\ go'[g].pc = "run" /\ go'[g].cid = Made(m) + 1 /\ go'[g].m = m
        /\ \A h \in Goroutines : h # g => go'[h] = go[h]
    BY <1>0, <1>3, <1>m DEF Tasks
  <2>5. TrackedAreMade' /\ WatchedIsMade'
    <3>1. \A n \in Matches : Made(n) <= Made(n)'
      BY <2>1, <2>2
    <3>2. watch.m \in Matches
      BY <1>0 DEF TypeOK
    <3>3. \A n \in Matches : \A c \in 1..Made(n) : c \in 1..Made(n)'
      BY <2>1, <2>2
    <3> QED
      BY <1>1, <3>2, <3>3 DEF LifeInv, TrackedAreMade, WatchedIsMade, Tracked
  <2>6. RunsTheCreated'
    <3>1. ASSUME NEW h \in Goroutines, h # g, At(h, "run")'
          PROVE  /\ At(h, "run") /\ go'[h] = go[h] /\ go[h].m \in Matches
                 /\ go[h].cid \in 1..Made(go[h].m)
      BY <1>0, <2>4, <3>1 DEF At, AgentInv, IdInv, Sound, Tasks
    <3>2. Meant(g)' => container'[go'[g].m].st = "created"
      BY <2>3, <2>4
    <3>3. ASSUME NEW h \in Goroutines, h # g, At(h, "run")'
          PROVE  /\ Meant(h)' => container'[go'[h].m].st = "created"
                 /\ go'[h].m # m \/ go'[h].cid # Made(m) + 1
      <4>1. CASE go[h].m = m
        BY <2>1, <2>3, <3>1, <3>3, <4>1
      <4>2. CASE go[h].m # m
        BY <2>3, <3>1, <3>3, <4>2 DEF Meant, LifeInv, RunsTheCreated
      <4> QED
        BY <4>1, <4>2
    <3>4. ASSUME NEW h \in Goroutines, NEW k \in Goroutines \ {h}, At(h, "run")', At(k, "run")'
          PROVE  go'[k].m # go'[h].m \/ go'[k].cid # go'[h].cid
      <4>1. CASE h # g /\ k # g
        BY <3>1, <3>4, <4>1 DEF LifeInv, RunsTheCreated
      <4>2. CASE h = g \/ k = g
        BY <2>4, <3>3, <3>4, <4>2
      <4> QED
        BY <4>1, <4>2
    <3> QED
      BY <3>2, <3>3, <3>4 DEF RunsTheCreated
  <2>7. ExitsAreOfTheDead'
    <3> SUFFICES ASSUME NEW e \in Pending
                 PROVE  /\ e.cid \in 1..Made(e.m)'
                        /\ e.cid = container'[e.m].cid => container'[e.m].st = "dead"
      BY <1>1 DEF ExitsAreOfTheDead, Pending
    <3>1. /\ e.m \in Matches /\ e.cid \in 1..Made(e.m)
          /\ e.cid = container[e.m].cid => container[e.m].st = "dead"
      BY <1>0, PendingSteps DEF LifeInv, ExitsAreOfTheDead
    <3>2. CASE e.m = m
      BY <2>1, <2>2, <2>3, <3>1, <3>2
    <3>3. CASE e.m # m
      BY <2>2, <2>3, <3>1, <3>3
    <3> QED
      BY <3>2, <3>3
  <2>8. RunningIsAttended'
    <3> SUFFICES ASSUME failed' \cap {"stop", "crash"} = {}, NEW n \in Matches, First(n)'
                 PROVE  Attended(n)'
      BY DEF RunningIsAttended
    <3>1. n # m
      BY <2>3 DEF First, Running
    <3>2. First(n)
      BY <2>2, <2>3, <3>1 DEF First, Running, Made
    <3>3. Attended(n)
      BY <1>1, <3>2 DEF LifeInv, RunningIsAttended
    <3>4. StillAttended(n)
      BY <1>1, <2>4 DEF StillAttended, Attending
    <3> QED
      BY <3>3, <3>4, StaysAttended
  <2> QED
    BY <2>5, <2>6, <2>7, <2>8 DEF LifeInv
<1> QED
  BY <1>2, <1>3, <1>m DEF Create, Made

LEMMA RunLives ==
  ASSUME AgentInv, LifeInv, NEW g \in Goroutines, Run(g)
  PROVE  LifeInv'
<1>0. TypeOK /\ go \in [Goroutines -> Tasks]
  BY Parts DEF AgentInv
<1>m. PICK m \in Matches : m = go[g].m
  BY <1>0 DEF Tasks
<1>1. UNCHANGED <<matches, timers, watch, events, requests, failed>> /\ go[g].pc = "run"
  BY DEF Run, At, history
<1>2. CASE ~Meant(g) /\ Return(g) /\ UNCHANGED container
  BY <1>1, <1>2, Unmoved, ReturnLives DEF Attending
<1>3. CASE Meant(g) /\ container' = [container EXCEPT ![m].st = "running"] /\ Continue(g, "track")
  <2>1. /\ container'[m].cid = container[m].cid /\ container'[m].st = "running"
        /\ \A n \in Matches : n # m => container'[n] = container[n]
    BY <1>0, <1>3 DEF TypeOK
  <2>2. container[m].st = "created" /\ go[g].cid = container[m].cid /\ container[m].cid > 0
    <3>1. go[g].cid \in 1..Made(m) /\ Made(m) \in Nat
      BY <1>0, <1>1, <1>m, Parts DEF AgentInv, IdInv, Sound
    <3>2. go[g].cid = container[m].cid /\ go[g].cid > 0
      BY <1>3, <1>m, <3>1 DEF Meant
    <3> QED
      BY <1>1, <1>3, <1>m, <3>2 DEF LifeInv, RunsTheCreated, At
  <2>3. PICK t : Moved(g, t) /\ t.pc = "track" /\ t.m = m
    BY <1>0, <1>3, <1>m, Continued
  <2>4. go'[g] = t /\ \A h \in Goroutines : h # g => go'[h] = go[h]
    BY <1>0, <2>3, Movement
  <2>5. TrackedAreMade' /\ WatchedIsMade'
    BY <1>1 DEF LifeInv, TrackedAreMade, WatchedIsMade, Tracked, Made
  <2>6. RunsTheCreated'
    <3>1. ASSUME NEW h \in Goroutines, At(h, "run")'
          PROVE  h # g /\ At(h, "run") /\ go'[h] = go[h]
      BY <2>3, <2>4, <3>1 DEF At
    <3>2. ASSUME NEW h \in Goroutines, At(h, "run")', Meant(h)'
          PROVE  container'[go'[h].m].st = "created"
      <4>1. go[h].m \in Matches /\ go[h].cid \in 1..Made(go[h].m) /\ Made(go[h].m) \in Nat
        BY <1>0, <3>1, <3>2, Parts DEF AgentInv, IdInv, Sound, At, Tasks
      <4>2. go[h].m # m
        <5>1. go[h].m # go[g].m \/ go[h].cid # go[g].cid
          BY <1>1, <3>1, <3>2 DEF LifeInv, RunsTheCreated, At
        <5>2. go[h].cid # 0
          BY <4>1
        <5>3. go[h].cid = container'[go[h].m].cid
          BY <3>1, <3>2, <5>2 DEF Meant
        <5> QED
          BY <1>m, <2>1, <2>2, <5>1, <5>3
      <4>3. Meant(h) /\ container'[go[h].m] = container[go[h].m]
        BY <2>1, <3>1, <3>2, <4>1, <4>2 DEF Meant
      <4> QED
        BY <3>1, <3>2, <4>3 DEF LifeInv, RunsTheCreated
    <3> QED
      BY <3>1, <3>2 DEF LifeInv, RunsTheCreated
  <2>7. ExitsAreOfTheDead'
    <3> SUFFICES ASSUME NEW e \in Pending
                 PROVE  /\ e.cid \in 1..Made(e.m)'
                        /\ e.cid = container'[e.m].cid => container'[e.m].st = "dead"
      BY <1>1 DEF ExitsAreOfTheDead, Pending
    <3>1. /\ e.m \in Matches /\ e.cid \in 1..Made(e.m)
          /\ e.cid = container[e.m].cid => container[e.m].st = "dead"
      BY <1>0, PendingSteps DEF LifeInv, ExitsAreOfTheDead
    <3>2. e.cid \in 1..Made(e.m)'
      BY <1>1, <3>1 DEF Made
    <3> QED
      BY <2>1, <2>2, <3>1, <3>2
  <2>8. RunningIsAttended'
    <3> SUFFICES ASSUME failed' \cap {"stop", "crash"} = {}, NEW n \in Matches, First(n)'
                 PROVE  Attended(n)'
      BY DEF RunningIsAttended
    <3>1. CASE n = m
      BY <2>3, <2>4, <3>1 DEF Attended
    <3>2. CASE n # m
      <4>1. First(n)
        BY <1>1, <2>1, <3>2 DEF First, Running
      <4>2. Attended(n)
        BY <1>1, <4>1 DEF LifeInv, RunningIsAttended
      <4>3. StillAttended(n)
        BY <1>1, <2>4 DEF StillAttended, Attending
      <4> QED
        BY <4>2, <4>3, StaysAttended
    <3> QED
      BY <3>1, <3>2
  <2> QED
    BY <2>5, <2>6, <2>7, <2>8 DEF LifeInv
<1> QED
  BY <1>2, <1>3, <1>m DEF Run

(* The watcher *)
LEMMA HandleExitEventLives ==
  ASSUME AgentInv, LifeInv, HandleExitEvent
  PROVE  LifeInv'
<1>0. TypeOK
  BY DEF AgentInv
<1>1. /\ UNCHANGED <<timers, go, container, requests, failed>>
      /\ watch.pc = "listen" /\ events # <<>> /\ events' = Tail(events)
  BY DEF HandleExitEvent
<1>2. Pending' \subseteq Pending /\ Head(events) \in Pending
  BY <1>0, <1>1, PendingSteps
<1>m. PICK m \in Matches : m = Head(events).m
  BY <1>0, <1>2, PendingSteps
<1>3. matches'[m] = NoMatch /\ \A n \in Matches : n # m => matches'[n] = matches[n]
  BY <1>0, <1>m DEF HandleExitEvent, Drop, TypeOK
<1>4. \/ watch' = watch \/ watch'.pc \notin {"notifyTracked", "remove"}
      \/ watch'.m \in Matches /\ watch'.cid \in 1..Made(watch'.m)
  <2>1. CASE Tracked(m) /\ watch' = [pc |-> "notifyTracked", m |-> m, cid |-> matches[m].cid]
    BY <2>1 DEF LifeInv, TrackedAreMade
  <2>2. CASE watch' = watch \/ watch' = [pc |-> "notify", m |-> m, cid |-> Head(events).cid]
    BY <2>2
  <2> QED
    BY <1>m, <2>1, <2>2 DEF HandleExitEvent
<1>5. ASSUME NEW n \in Matches, First(n)
      PROVE  StillAttended(n)
  <2>1. n # m
    BY <1>2, <1>5, <1>m DEF LifeInv, ExitsAreOfTheDead, First, Running, Made
  <2> QED
    BY <1>1, <1>3, <2>1 DEF StillAttended
<1> QED
  BY <1>1, <1>2, <1>3, <1>4, <1>5, Unmoved, Lives DEF Tracked

LEMMA NotifyLives ==
  ASSUME AgentInv, LifeInv, Notify
  PROVE  LifeInv'
<1>0. TypeOK /\ watch \in Watchings
  BY Parts DEF AgentInv
<1>1. UNCHANGED <<matches, timers, go, events, container, requests>> /\ failed \subseteq failed'
  BY DEF Notify, NotifyExit, Fail
<1>2. CASE watch.pc = "notify" /\ watch' = Listening
  <2>1. watch'.pc \notin {"notifyTracked", "remove"}
    BY <1>2 DEF Listening, Idle
  <2>2. \A n \in Matches : StillAttended(n)
    BY <1>1, <1>2 DEF StillAttended
  <2> QED
    BY <1>1, <2>1, <2>2, Unmoved, Lives DEF Tracked
<1>3. CASE watch.pc = "notifyTracked" /\ watch' = [watch EXCEPT !.pc = "remove"]
  <2>1. watch'.pc = "remove" /\ watch'.m = watch.m /\ watch'.cid = watch.cid
    BY <1>0, <1>3 DEF Watchings
  <2>2. watch'.m \in Matches /\ watch'.cid \in 1..Made(watch'.m)
    BY <1>0, <1>3, <2>1 DEF LifeInv, WatchedIsMade, Watchings
  <2>3. \A n \in Matches : StillAttended(n)
    BY <1>1, <2>1 DEF StillAttended
  <2> QED
    BY <1>1, <2>2, <2>3, Unmoved, Lives DEF Tracked
<1> QED
  BY <1>2, <1>3 DEF Notify

LEMMA RemoveExitedLives ==
  ASSUME AgentInv, LifeInv, RemoveExited
  PROVE  LifeInv'
<1>0. TypeOK
  BY DEF AgentInv
<1>m. PICK m \in Matches : m = watch.m
  BY <1>0 DEF TypeOK
<1> DEFINE found == container[m].cid = watch.cid
<1>1. /\ UNCHANGED <<matches, timers, go, requests, failed>>
      /\ watch.pc = "remove" /\ watch' = Listening
      /\ container' = IF found THEN [container EXCEPT ![m] = NoContainer] ELSE container
      /\ IF found /\ Running(m) THEN Ends(m) ELSE UNCHANGED <<events, unheard>>
  BY <1>m DEF RemoveExited
<1>2. watch'.pc \notin {"notifyTracked", "remove"}
  BY <1>1 DEF Listening, Idle
<1>3. /\ found => container'[m] = NoContainer
      /\ ~found => container' = container
      /\ \A n \in Matches : n # m => container'[n] = container[n]
  BY <1>0, <1>1 DEF TypeOK
<1>4. \A n \in Matches : Withers(n)
  BY <1>3 DEF Withers
<1>5. \A e \in Pending' :
        e \in Pending \/ \E n \in Matches : e = [m |-> n, cid |-> container[n].cid] /\ Running(n)
                                           /\ container'[n] # container[n]
  <2>1. CASE found /\ Running(m)
    <3>1. Ends(m)
      BY <1>1, <2>1
    <3>2. container'[m] # container[m]
      BY <1>3, <2>1 DEF Running, NoContainer
    <3> QED
      BY <1>0, <2>1, <3>1, <3>2, EndsPends
  <2>2. CASE ~(found /\ Running(m))
    BY <1>1, <2>2, Unmoved
  <2> QED
    BY <2>1, <2>2
<1>6. ASSUME NEW n \in Matches, First(n), First(n)'
      PROVE  StillAttended(n)
  <2>1. n # m
    <3>1. SUFFICES ASSUME n = m
                   PROVE  FALSE
      OBVIOUS
    <3>2. watch.cid \in 1..Made(m) /\ Made(m) = 1 /\ container[m].cid = 1
      BY <1>1, <1>6, <1>m, <3>1 DEF LifeInv, WatchedIsMade, First, Made
    <3>3. container'[m] = NoContainer
      BY <1>3, <3>2
    <3> QED
      BY <1>6, <3>1, <3>3 DEF First, Running, NoContainer
  <2> QED
    BY <1>1, <1>m, <2>1 DEF StillAttended
<1> QED
  BY <1>1, <1>2, <1>4, <1>5, <1>6, Unmoved, Lives DEF Tracked

(* Steps at which the Agent gives up something it was about to do. *)
LEMMA FailuresLive ==
  ASSUME AgentInv, LifeInv, RemoveExitedFails \/ StreamEnds \/ Crash
  PROVE  LifeInv'
<1>0. TypeOK
  BY DEF AgentInv
<1>1. UNCHANGED <<container, requests>> /\ failed \subseteq failed' /\ Pending' \subseteq Pending
  BY <1>0, PendingSteps, Unmoved DEF RemoveExitedFails, StreamEnds, Crash, Fail
<1>2. watch'.pc \notin {"notifyTracked", "remove"}
  BY DEF RemoveExitedFails, StreamEnds, Crash, Listening, Idle
<1>3. /\ \A n \in Matches : \/ matches'[n] = NoMatch
                            \/ Tracked(n) /\ matches'[n].cid = matches[n].cid
      /\ \A g \in Goroutines : At(g, "run")' => go'[g] = go[g]
  <2>1. CASE UNCHANGED <<matches, go>>
    BY <2>1 DEF Tracked, At
  <2>2. CASE Crash
    BY <2>2, ValuesTyped DEF Crash, At
  <2> QED
    BY <2>1, <2>2 DEF RemoveExitedFails, StreamEnds
<1>4. failed' \cap {"stop", "crash"} = {} => \A n \in Matches : StillAttended(n)
  BY DEF RemoveExitedFails, StreamEnds, Crash, Fail, StillAttended
<1> QED
  BY <1>1, <1>2, <1>3, <1>4, Unmoved, Lives

LEMMA SubscribeLives ==
  ASSUME AgentInv, LifeInv, Subscribe
  PROVE  LifeInv'
<1>1. UNCHANGED <<matches, timers, go, events, container, requests, failed>>
  BY DEF Subscribe, history
<1>2. watch.pc = "gap" /\ watch'.pc \notin {"notifyTracked", "remove"}
  BY DEF Subscribe, Listening, Idle
<1>3. \A n \in Matches : StillAttended(n)
  BY <1>1, <1>2 DEF StillAttended
<1> QED
  BY <1>1, <1>2, <1>3, Unmoved, Lives DEF Tracked

(* Podman *)
LEMMA ContainerDiesLives ==
  ASSUME AgentInv, LifeInv, NEW m \in Matches, ContainerDies(m)
  PROVE  LifeInv'
<1>0. TypeOK
  BY DEF AgentInv
<1>1. UNCHANGED <<matches, timers, go, watch, requests, failed>> /\ Running(m) /\ Ends(m)
  BY DEF ContainerDies
<1>2. /\ container'[m].cid = container[m].cid /\ container'[m].st = "dead"
      /\ \A n \in Matches : n # m => container'[n] = container[n]
  BY <1>0 DEF ContainerDies, TypeOK
<1>3. \A n \in Matches : Withers(n)
  BY <1>1, <1>2 DEF Withers, Running
<1>4. container'[m] # container[m]
  BY <1>1, <1>2 DEF Running
<1>5. \A e \in Pending' :
        e \in Pending \/ \E n \in Matches : e = [m |-> n, cid |-> container[n].cid] /\ Running(n)
                                           /\ container'[n] # container[n]
  BY <1>0, <1>1, <1>4, EndsPends
<1> QED
  BY <1>1, <1>3, <1>5, Unmoved, Lives DEF Tracked

LEMMA AutoRemoveLives ==
  ASSUME AgentInv, LifeInv, NEW m \in Matches, AutoRemove(m)
  PROVE  LifeInv'
<1>1. UNCHANGED <<matches, timers, go, watch, events, requests, failed>>
  BY DEF AutoRemove
<1>2. \A n \in Matches : Withers(n)
  BY DEF AutoRemove, Withers, TypeOK, AgentInv
<1> QED
  BY <1>1, <1>2, Unmoved, Lives DEF Tracked

LEMMA LifeStarts == Init => LifeInv
<1> SUFFICES ASSUME Init
             PROVE  LifeInv
  OBVIOUS
<1>1. /\ \A m \in Matches : matches[m] = NoMatch /\ container[m] = NoContainer
      /\ \A g \in Goroutines : go[g].pc = "idle"
      /\ watch.pc = "gap" /\ Pending = {}
  BY ValuesTyped DEF Init, Listening, Idle, Pending
<1> QED
  BY <1>1 DEF LifeInv, TrackedAreMade, WatchedIsMade, RunsTheCreated, ExitsAreOfTheDead,
     RunningIsAttended, Tracked, At, First, Running, NoContainer

LEMMA LifeGoesOn == AgentInv /\ LifeInv /\ [Next]_vars => LifeInv'
<1> SUFFICES ASSUME AgentInv, LifeInv, [Next]_vars
             PROVE  LifeInv'
  OBVIOUS
<1>1. CASE UNCHANGED vars
  BY <1>1, Unmoved, Lives DEF vars, Tracked
<1>2. ASSUME NEW m \in Matches,
             StartMatch(m) \/ StopMatch(m) \/ Fire(m) \/ ContainerDies(m) \/ AutoRemove(m)
      PROVE  LifeInv'
  BY <1>2, StartMatchLives, StopMatchLives, FireLives, ContainerDiesLives, AutoRemoveLives
<1>3. ASSUME NEW g \in Goroutines, Works(g) \/ StartFails(g) \/ StopFails(g)
      PROVE  LifeInv'
  <2>1. CASE Stop(g)
    <3>1. At(g, "stop") /\ go[g].pc = "stop" /\ End(g, "remove")
      BY <2>1 DEF Stop, At
    <3> QED
      BY <3>1, EndLives
  <2>2. CASE Remove(g)
    <3>1. go[g].pc = "remove" /\ ~At(g, "stop") /\ End(g, "untrack")
      BY <2>2 DEF Remove, At
    <3> QED
      BY <3>1, EndLives
  <2> QED
    BY <1>3, <2>1, <2>2, InspectLives, CreateLives, RunLives, TrackLives, ExpireLives,
       UntrackLives, StartFailsLives, StopFailsLives DEF Works
<1>4. CASE Watches \/ RemoveExitedFails \/ StreamEnds \/ Crash
  BY <1>4, HandleExitEventLives, NotifyLives, RemoveExitedLives, SubscribeLives, FailuresLive
     DEF Watches
<1> QED
  BY <1>1, <1>2, <1>3, <1>4 DEF Next

(* startMatch, stopMatch, the timers and the watcher: in whatever order     *)
(* they interleave, and whatever else fails, the container of a match that  *)
(* was started once has a record with a timer pending as long as it runs,   *)
(* or a goroutine that is about to record it or to end it, unless a stop    *)
(* has failed or the Agent has crashed.                                     *)
THEOREM RunningAreAttended == Spec => []RunningIsAttended
<1>1. Spec => []LifeInv
  BY Invariance, LifeStarts, LifeGoesOn, PTL DEF Spec
<1>2. LifeInv => RunningIsAttended
  BY DEF LifeInv
<1> QED
  BY <1>1, <1>2, PTL
=============================================================================
