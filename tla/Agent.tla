-------------------------------- MODULE Agent --------------------------------
(***************************************************************************)
(* The container Agent (container-agent/main.go): the maps it keeps under a *)
(* mutex, and the goroutines that work on them -- HTTP handlers, the timers *)
(* of the hard timeout and the watcher of Podman's event stream -- with     *)
(* Podman and the Worker as services that may fail.                         *)
(*                                                                         *)
(* A step is what happens between two releases of the mutex or two calls    *)
(* that leave the process.  A container is known by the match whose name it *)
(* bears and by its id, the number of the creation for that match.          *)
(***************************************************************************)
EXTENDS Integers, Sequences, FiniteSets

CONSTANTS
  Matches,     \* match ids
  Goroutines,  \* bound: HTTP handlers and timers that run at the same time
  MaxStarts,   \* bound: /match/start requests for a match
  MaxStops,    \* bound: /match/stop requests for a match
  Faults,      \* what fails, a subset of FaultKinds, each once
  MaxFaults    \* bound: and how many of them

FaultKinds ==
  {"start",   \* Podman refuses to inspect, create or start a container
   "stop",    \* or to stop or remove one
   "stream",  \* the event stream ends, and what it carried is lost
   "post",    \* an exit notification does not reach the Worker
   "crash"}   \* the Agent restarts, with empty maps and no timers

ASSUME AgentAssumption ==
  /\ Matches # {}
  /\ IsFiniteSet(Goroutines)
  /\ MaxStarts \in Nat
  /\ MaxStops \in Nat
  /\ Faults \subseteq FaultKinds
  /\ MaxFaults \in Nat

VARIABLES
  matches,    \* a.matches: the container of each match, and if it is Stopping
  timers,     \* how many timers of scheduleTimeout are pending for a match
  go,         \* the running handlers and timers
  watch,      \* the watcher: what handleExitEvent is at
  events,     \* the exit events the stream has not delivered yet
  container,  \* Podman: the container that bears the name of each match
  requests,   \* starts, answers to them, creations and stops so far
  deaths,     \* history: matches whose container ended by itself
  asked,      \* history: matches somebody asked to stop
  heard,      \* history: matches whose exit the Worker was notified of
  unheard,    \* history: matches an exit event or notification of which was lost
  failed      \* the kinds of failure so far

vars == <<matches, timers, go, watch, events, container, requests, deaths, asked,
          heard, unheard, failed>>
history == <<deaths, asked, heard, unheard>>

-----------------------------------------------------------------------------
Counters    == {"starts", "answers", "creations", "stops"}
NoMatch     == [cid |-> 0, stopping |-> FALSE]
NoContainer == [cid |-> 0, st |-> "none"]
Idle        == [pc |-> "idle", m |-> CHOOSE m \in Matches : TRUE, cid |-> 0]
Listening   == [Idle EXCEPT !.pc = "listen"]

Tracked(m)  == matches[m] # NoMatch
Running(m)  == container[m].st = "running"
Cids        == 0..MaxStarts
At(g, pc)   == go[g].pc = pc

(* Mutant of Meant: a stop that knows no id finds nothing. *)
MeantById(g) == go[g].cid = container[go[g].m].cid

(* The container a stop is for: by id, or by name if none was tracked. *)
Meant(g) == go[g].cid \in {0, container[go[g].m].cid}

Continue(g, pc) == go' = [go EXCEPT ![g].pc = pc]
Return(g)       == go' = [go EXCEPT ![g] = Idle]
Go(m, pc, cid)  ==
  LET free == {g \in Goroutines : At(g, "idle")} IN
  /\ free # {}
  /\ go' = [go EXCEPT ![CHOOSE g \in free : TRUE] = [pc |-> pc, m |-> m, cid |-> cid]]

Count(m, what) == requests' = [requests EXCEPT ![m] =
  [k \in Counters |-> IF k \in what THEN @[k] + 1 ELSE @[k]]]
Drop(m)        == matches' = [matches EXCEPT ![m] = NoMatch]

Fail(kind) ==
  /\ kind \in Faults \ failed
  /\ Cardinality(failed) < MaxFaults
  /\ failed' = failed \cup {kind}

(* notifyExit: one POST, whose failure is only logged. *)
NotifyExit(m) ==
  \/ heard' = heard \cup {m} /\ UNCHANGED <<unheard, failed>>
  \/ Fail("post") /\ unheard' = unheard \cup {m} /\ UNCHANGED heard

(* A container ends: Podman sends its exit event, to nobody if the watcher    *)
(* has no stream.                                                           *)
Ends(m) ==
  IF watch.pc = "gap"
  THEN unheard' = unheard \cup {m} /\ UNCHANGED events
  ELSE events' = Append(events, [m |-> m, cid |-> container[m].cid]) /\ UNCHANGED unheard

-----------------------------------------------------------------------------
(* startMatch *)

(* Ids are minted for one match (queue.ts:248): a repeated request for one    *)
(* comes before its container has ended.                                    *)
StartMatch(m) ==
  /\ requests[m].starts < MaxStarts
  /\ m \notin deaths \cup asked
  /\ \/ Tracked(m) /\ Count(m, {"starts", "answers"}) /\ UNCHANGED go
     \/ ~Tracked(m) /\ Count(m, {"starts"}) /\ Go(m, "inspect", 0)
  /\ UNCHANGED <<matches, timers, watch, events, container, failed, history>>

(* inspectExisting: adopt what runs under the name, remove what does not. *)
Inspect(g) ==
  LET m == go[g].m IN
  /\ At(g, "inspect")
  /\ \/ /\ Running(m)
        /\ go' = [go EXCEPT ![g].pc = "track", ![g].cid = container[m].cid]
        /\ UNCHANGED container
     \/ /\ ~Running(m)
        /\ Continue(g, "create")
        /\ container' = [container EXCEPT ![m] = NoContainer]
  /\ UNCHANGED <<matches, timers, watch, events, requests, failed, history>>

(* A name that is taken is an error. *)
Create(g) ==
  LET m == go[g].m  cid == requests[m].creations + 1 IN
  /\ At(g, "create")
  /\ \/ /\ container[m] = NoContainer
        /\ container' = [container EXCEPT ![m] = [cid |-> cid, st |-> "created"]]
        /\ go' = [go EXCEPT ![g].pc = "run", ![g].cid = cid]
        /\ Count(m, {"creations"})
     \/ /\ container[m] # NoContainer
        /\ Return(g)
        /\ UNCHANGED <<container, requests>>
  /\ UNCHANGED <<matches, timers, watch, events, failed, history>>

(* Another handler may have removed it since. *)
Run(g) ==
  LET m == go[g].m IN
  /\ At(g, "run")
  /\ \/ /\ Meant(g)
        /\ container' = [container EXCEPT ![m].st = "running"]
        /\ Continue(g, "track")
     \/ /\ ~Meant(g)
        /\ Return(g)
        /\ UNCHANGED container
  /\ UNCHANGED <<matches, timers, watch, events, requests, failed, history>>

StartFails(g) ==
  /\ go[g].pc \in {"inspect", "create", "run"}
  /\ Fail("start")
  /\ Return(g)
  /\ container' = IF At(g, "run") /\ Meant(g)
                  THEN [container EXCEPT ![go[g].m] = NoContainer]
                  ELSE container
  /\ UNCHANGED <<matches, timers, watch, events, requests, history>>

(* Mutants of Track: no timer is scheduled, or two. *)
TrackUntimed(g) ==
  /\ At(g, "track")
  /\ matches' = [matches EXCEPT ![go[g].m] = [cid |-> go[g].cid, stopping |-> FALSE]]
  /\ Return(g)
  /\ Count(go[g].m, {"answers"})
  /\ UNCHANGED <<timers, watch, events, container, failed, history>>

TrackTwice(g) ==
  /\ At(g, "track")
  /\ matches' = [matches EXCEPT ![go[g].m] = [cid |-> go[g].cid, stopping |-> FALSE]]
  /\ timers' = [timers EXCEPT ![go[g].m] = @ + 2]
  /\ Return(g)
  /\ Count(go[g].m, {"answers"})
  /\ UNCHANGED <<watch, events, container, failed, history>>

(* track and scheduleTimeout *)
Track(g) ==
  LET m == go[g].m IN
  /\ At(g, "track")
  /\ matches' = [matches EXCEPT ![m] = [cid |-> go[g].cid, stopping |-> FALSE]]
  /\ timers' = [timers EXCEPT ![m] = @ + 1]
  /\ Return(g)
  /\ Count(m, {"answers"})
  /\ UNCHANGED <<watch, events, container, failed, history>>

-----------------------------------------------------------------------------
(* stopMatch, for a request and for a timer *)

MarkStopping(m) ==
  /\ matches' = IF Tracked(m) THEN [matches EXCEPT ![m].stopping = TRUE] ELSE matches
  /\ asked' = asked \cup {m}

(* The Worker stops a match whose start it has had an answer to (queue.ts:306). *)
StopMatch(m) ==
  /\ requests[m].answers > 0
  /\ requests[m].stops < MaxStops
  /\ Count(m, {"stops"})
  /\ Go(m, "stop", matches[m].cid)
  /\ MarkStopping(m)
  /\ UNCHANGED <<timers, watch, events, container, deaths, heard, unheard, failed>>

(* The timer's look under the read lock, and what it does after it. *)
Fire(m) ==
  /\ timers[m] > 0
  /\ timers' = [timers EXCEPT ![m] = @ - 1]
  /\ \/ (~Tracked(m) \/ matches[m].stopping) /\ UNCHANGED go
     \/ (Tracked(m) /\ ~matches[m].stopping) /\ Go(m, "expire", matches[m].cid)
  /\ UNCHANGED <<matches, watch, events, container, requests, failed, history>>

(* Mutant of Expire: the timer gives up when its notification fails. *)
ExpireIfHeard(g) ==
  LET m == go[g].m IN
  /\ At(g, "expire")
  /\ NotifyExit(m)
  /\ IF m \in heard'
     THEN MarkStopping(m) /\ go' = [go EXCEPT ![g].pc = "stop", ![g].cid = matches[m].cid]
     ELSE Return(g) /\ UNCHANGED <<matches, asked>>
  /\ UNCHANGED <<timers, watch, events, container, requests, deaths>>

Expire(g) ==
  LET m == go[g].m IN
  /\ At(g, "expire")
  /\ NotifyExit(m)
  /\ MarkStopping(m)
  /\ go' = [go EXCEPT ![g].pc = "stop", ![g].cid = matches[m].cid]
  /\ UNCHANGED <<timers, watch, events, container, requests, deaths>>

(* ContainerStop, and ContainerRemove by force: either ends what still runs. *)
End(g, next) ==
  LET m == go[g].m  left == IF At(g, "stop") THEN [container[m] EXCEPT !.st = "dead"]
                                             ELSE NoContainer IN
  /\ Continue(g, next)
  /\ container' = IF Meant(g) /\ (Running(m) \/ At(g, "remove"))
                  THEN [container EXCEPT ![m] = left] ELSE container
  /\ IF Meant(g) /\ Running(m) THEN Ends(m) ELSE UNCHANGED <<events, unheard>>
  /\ UNCHANGED <<matches, timers, watch, requests, failed, deaths, asked, heard>>

Stop(g) == At(g, "stop") /\ End(g, "remove")

Remove(g) == At(g, "remove") /\ End(g, "untrack")

Untrack(g) ==
  /\ At(g, "untrack")
  /\ Drop(go[g].m)
  /\ Return(g)
  /\ UNCHANGED <<timers, watch, events, container, requests, failed, history>>

(* The error is returned, or logged by a timer; Stopping stays set. *)
StopFails(g) ==
  /\ go[g].pc \in {"stop", "remove"}
  /\ Fail("stop")
  /\ Return(g)
  /\ UNCHANGED <<matches, timers, watch, events, container, requests, history>>

-----------------------------------------------------------------------------
(* watchEvents *)

(* Mutant of HandleExitEvent: a match that is not tracked is not reported. *)
HandleKnownExit ==
  LET m == Head(events).m IN
  /\ watch.pc = "listen"
  /\ events # <<>>
  /\ events' = Tail(events)
  /\ Drop(m)
  /\ watch' = IF Tracked(m) /\ ~matches[m].stopping
              THEN [pc |-> "notifyTracked", m |-> m, cid |-> matches[m].cid] ELSE watch
  /\ UNCHANGED <<timers, go, container, requests, failed, history>>

(* handleExitEvent up to its Unlock: forget the match, whatever container   *)
(* the event is of; notify unless a stop is under way.                      *)
HandleExitEvent ==
  LET e == Head(events)  m == e.m IN
  /\ watch.pc = "listen"
  /\ events # <<>>
  /\ events' = Tail(events)
  /\ Drop(m)
  /\ watch' = IF ~Tracked(m) THEN [pc |-> "notify", m |-> m, cid |-> e.cid]
              ELSE IF matches[m].stopping THEN watch
              ELSE [pc |-> "notifyTracked", m |-> m, cid |-> matches[m].cid]
  /\ UNCHANGED <<timers, go, container, requests, failed, history>>

Notify ==
  /\ watch.pc \in {"notify", "notifyTracked"}
  /\ NotifyExit(watch.m)
  /\ watch' = IF watch.pc = "notify" THEN Listening ELSE [watch EXCEPT !.pc = "remove"]
  /\ UNCHANGED <<matches, timers, go, events, container, requests, deaths, asked>>

RemoveExited ==
  LET m == watch.m  found == container[m].cid = watch.cid IN
  /\ watch.pc = "remove"
  /\ watch' = Listening
  /\ container' = IF found THEN [container EXCEPT ![m] = NoContainer] ELSE container
  /\ IF found /\ Running(m) THEN Ends(m) ELSE UNCHANGED <<events, unheard>>
  /\ UNCHANGED <<matches, timers, go, requests, failed, deaths, asked, heard>>

RemoveExitedFails ==
  /\ watch.pc = "remove"
  /\ Fail("stop")
  /\ watch' = Listening
  /\ UNCHANGED <<matches, timers, go, events, container, requests, history>>

Lost == {events[i].m : i \in 1..Len(events)}

StreamEnds ==
  /\ watch.pc = "listen"
  /\ Fail("stream")
  /\ watch' = [Listening EXCEPT !.pc = "gap"]
  /\ events' = <<>>
  /\ unheard' = unheard \cup Lost
  /\ UNCHANGED <<matches, timers, go, container, requests, deaths, asked, heard>>

Subscribe ==
  /\ watch.pc = "gap"
  /\ watch' = Listening
  /\ UNCHANGED <<matches, timers, go, events, container, requests, failed, history>>

-----------------------------------------------------------------------------
(* Podman and the host *)

ContainerDies(m) ==
  /\ Running(m)
  /\ container' = [container EXCEPT ![m].st = "dead"]
  /\ Ends(m)
  /\ deaths' = deaths \cup {m}
  /\ UNCHANGED <<matches, timers, go, watch, requests, failed, asked, heard>>

AutoRemove(m) ==
  /\ container[m].st = "dead"
  /\ container' = [container EXCEPT ![m] = NoContainer]
  /\ UNCHANGED <<matches, timers, go, watch, events, requests, failed, history>>

(* main starts again; containers are not looked for. *)
Crash ==
  /\ Fail("crash")
  /\ matches' = [m \in Matches |-> NoMatch]
  /\ timers' = [m \in Matches |-> 0]
  /\ go' = [g \in Goroutines |-> Idle]
  /\ watch' = [Listening EXCEPT !.pc = "gap"]
  /\ events' = <<>>
  /\ unheard' = unheard \cup Lost \cup (IF watch.pc \in {"gap", "listen"} THEN {} ELSE {watch.m})
  /\ UNCHANGED <<container, requests, deaths, asked, heard>>

-----------------------------------------------------------------------------
Init ==
  /\ matches = [m \in Matches |-> NoMatch]
  /\ timers = [m \in Matches |-> 0]
  /\ go = [g \in Goroutines |-> Idle]
  /\ watch = [Listening EXCEPT !.pc = "gap"]
  /\ events = <<>>
  /\ container = [m \in Matches |-> NoContainer]
  /\ requests = [m \in Matches |-> [k \in Counters |-> 0]]
  /\ deaths = {} /\ asked = {} /\ heard = {} /\ unheard = {}
  /\ failed = {}

Works(g) ==
  Inspect(g) \/ Create(g) \/ Run(g) \/ Track(g)
  \/ Expire(g) \/ Stop(g) \/ Remove(g) \/ Untrack(g)

Watches == HandleExitEvent \/ Notify \/ RemoveExited \/ Subscribe

Next ==
  \/ \E m \in Matches :
       StartMatch(m) \/ StopMatch(m) \/ Fire(m) \/ ContainerDies(m) \/ AutoRemove(m)
  \/ \E g \in Goroutines : Works(g) \/ StartFails(g) \/ StopFails(g)
  \/ Watches \/ RemoveExitedFails \/ StreamEnds \/ Crash

(* Timers expire, goroutines run, the watcher reads.  Nobody has to ask for *)
(* a stop, and no container has to end by itself.                           *)
Fairness ==
  /\ \A m \in Matches : WF_vars(Fire(m))
  /\ \A g \in Goroutines : WF_vars(Works(g))
  /\ WF_vars(Watches)

Spec == Init /\ [][Next]_vars /\ Fairness

-----------------------------------------------------------------------------
TypeOK ==
  /\ matches \in [Matches -> [cid : Cids, stopping : BOOLEAN]]
  /\ timers \in [Matches -> 0..MaxStarts]
  /\ go \in [Goroutines ->
       [pc : {"idle", "inspect", "create", "run", "track", "expire", "stop", "remove",
              "untrack"}, m : Matches, cid : Cids]]
  /\ watch \in [pc : {"gap", "listen", "notify", "notifyTracked", "remove"},
                m : Matches, cid : Cids]
  /\ events \in Seq([m : Matches, cid : Cids])
  /\ container \in [Matches ->
       [cid : Cids, st : {"none", "created", "running", "dead"}]]
  /\ requests \in [Matches -> [Counters -> Nat]]
  /\ \A m \in Matches :
       /\ requests[m].starts <= MaxStarts /\ requests[m].stops <= MaxStops
       /\ requests[m].answers <= requests[m].starts
       /\ requests[m].creations <= requests[m].starts
  /\ \A seen \in {deaths, asked, heard, unheard} : seen \subseteq Matches
  /\ failed \subseteq Faults

(* One container = one match (ARCHITECTURE.MD:598): the Worker starts a     *)
(* match id once, and what follows is claimed for its first container.      *)
First(m) == Running(m) /\ container[m].cid = 1 /\ requests[m].creations = 1

Attended(m) ==
  \/ matches[m] = [cid |-> 1, stopping |-> FALSE] /\ timers[m] > 0
  \/ \E g \in Goroutines :
       /\ go[g].m = m
       /\ go[g].pc \in {"track", "expire", "stop", "remove"}
  \/ watch.m = m /\ watch.pc \in {"notifyTracked", "remove"}

(* Whatever order starts, stops, timers and exit events interleave in, a    *)
(* running container has a record with a pending timer, or somebody who is  *)
(* about to record or end it -- unless a stop failed or the Agent crashed.  *)
RunningIsAttended ==
  failed \cap {"stop", "crash"} = {} => \A m \in Matches : First(m) => Attended(m)

(* A stop that has gone through, even one that knew only the name, leaves   *)
(* no container it was for running; the handler is about to say so.         *)
StoppedIsStopped ==
  \A g \in Goroutines : At(g, "untrack") => ~First(go[g].m)

(* Agent force-kills past the timeout: a container does not run for ever,   *)
(* lost events and notifications or not, if stops work and the Agent stays. *)
ContainersEnd == \A m \in Matches :
  First(m) ~> (~First(m) \/ failed \cap {"stop", "crash"} # {})

(* The same, whatever fails once: what ARCHITECTURE.MD:313 says.            *)
HardTimeout == \A m \in Matches : Running(m) ~> ~Running(m)

(* A container that ends by itself is reported to the Worker, tracked or    *)
(* not, also by an Agent that has restarted, unless somebody asked to stop  *)
(* it or the event or the notification was lost.                            *)
DeathsAreReported == \A m \in Matches :
  m \in deaths ~> m \in heard \cup unheard \cup asked
=============================================================================
