------------------------------- MODULE Client -------------------------------
(***************************************************************************)
(* One player's browser: the queue provider (lib/queue.tsx), which outlives *)
(* its page and owns the queue socket and the socket of the match that was  *)
(* found, and the match page (pages/MatchResult.tsx), which has a socket of *)
(* its own and asks for the state of the match when it opens.  What they    *)
(* show comes from three channels that are not ordered with one another: a  *)
(* socket, the answer to a forfeit, and the answer to GET state.            *)
(*                                                                         *)
(* Effects that follow a render (a socket that is opened or closed because  *)
(* what it depends on has changed) are part of the step that causes them.   *)
(* The Queue and Match Durable Objects are external here.                   *)
(***************************************************************************)
EXTENDS Naturals, Sequences, FiniteSets

CONSTANTS
  Matches,      \* matches the player is in, numbered as they are formed
  None,
  MaxFails,     \* bound: sockets and calls that fail
  MaxForfeits   \* bound: forfeits under way at once

ASSUME ClientAssumption ==
  /\ Matches \subseteq Nat /\ MaxFails \in Nat /\ MaxForfeits \in Nat
  /\ None \notin Matches /\ None \notin {"provider", "page", "me", "them"}

VARIABLES
  auth,        \* status of the auth context
  isQueueing,  \* the provider's flag
  queue,       \* the queue socket: its phase, and match_found on its way
  id,          \* the provider's match, the match page's id
  state,       \* matchState of both
  socket,      \* the match socket of both: phase, and messages on their way
  forfeiting,  \* isForfeitingMatch, isForfeiting
  calls,       \* forfeits under way
  fetch,       \* the match page's GET state
  server,      \* what each Match object has in its meta, or Unformed
  fails        \* sockets and calls that have failed

session == <<auth, isQueueing, queue>>
view    == <<id, state, socket, forfeiting>>
net     == <<calls, fetch, server>>
vars    == <<session, view, net, fails>>

-----------------------------------------------------------------------------
Views == {"provider", "page"}
Meta(m)  == [match |-> m, ready |-> FALSE, winner |-> None, aborted |-> FALSE]
NoState  == Meta(None)
NoSocket == [phase |-> "idle", inbox |-> <<>>]
Connecting == [phase |-> "connecting", inbox |-> <<>>]
NoQueue  == [phase |-> "idle", found |-> None]
NewQueue == [phase |-> "connecting", found |-> None]
NoFetch  == [pc |-> "idle", state |-> NoState]

(* QueueActionButton offers to leave the queue. *)
Waiting == queue.phase \in {"connecting", "queued"}

Formed(m)  == server[m].match = m
Over(m)    == server[m].winner # None \/ server[m].aborted
Decided(s) == s.winner # None \/ s.aborted

Set(f, v, x) == [f EXCEPT ![v] = x]

(* Mutant of Apply: only results are looked at, the snapshot is not. *)
ApplyResultsOnly(current, message) ==
  IF message.type = "result" THEN [current EXCEPT !.winner = message.meta.winner] ELSE current

(* applyMatchRealtimeMessage *)
Apply(current, message) ==
  IF message.type = "state" THEN message.meta
  ELSE IF current.match # message.meta.match THEN current
  ELSE CASE message.type = "ready" -> [current EXCEPT !.ready = TRUE]
         [] message.type = "aborted" -> [current EXCEPT !.aborted = TRUE]
         [] message.type = "result" -> [current EXCEPT !.winner = message.meta.winner]

Fail == fails < MaxFails /\ fails' = fails + 1

(* What reset() and the unmounting of the page do to one of them. *)
Leave(v) ==
  /\ id' = Set(id, v, None)
  /\ state' = Set(state, v, NoState)
  /\ socket' = Set(socket, v, NoSocket)
  /\ forfeiting' = Set(forfeiting, v, FALSE)

(* A forfeit the page has asked for is answered to nobody; what the object   *)
(* may still do with it, it does in Claimed.                                 *)
Unmount == calls' = {c \in calls : c.view # "page"}

-----------------------------------------------------------------------------
(* Signing in and out. *)

Hydrate ==
  /\ auth = "loading"
  /\ auth' \in {"authenticated", "anonymous"}
  /\ UNCHANGED <<isQueueing, queue, view, net, fails>>

(* The provider resets, and RequireAuth takes the match page away. *)
Logout ==
  /\ auth = "authenticated"
  /\ auth' = "anonymous"
  /\ isQueueing' = FALSE
  /\ queue' = NoQueue
  /\ id' = [v \in Views |-> None]
  /\ state' = [v \in Views |-> NoState]
  /\ socket' = [v \in Views |-> NoSocket]
  /\ forfeiting' = [v \in Views |-> FALSE]
  /\ Unmount
  /\ fetch' = NoFetch
  /\ UNCHANGED <<server, fails>>

-----------------------------------------------------------------------------
(* The queue. *)

JoinQueue ==
  /\ auth = "authenticated"
  /\ id["provider"] = None
  /\ ~isQueueing
  /\ isQueueing' = TRUE
  /\ queue' = NewQueue
  /\ UNCHANGED <<auth, view, net, fails>>

LeaveQueue ==
  /\ Waiting
  /\ isQueueing' = FALSE
  /\ queue' = NoQueue
  /\ Leave("provider")
  /\ UNCHANGED <<auth, net, fails>>

QueueOpens ==
  /\ queue.phase = "connecting"
  /\ queue' = [queue EXCEPT !.phase = "queued"]
  /\ UNCHANGED <<auth, isQueueing, view, net, fails>>

(* isQueueing stays set: nothing opens another socket, and the Join Queue    *)
(* button that is shown again does nothing.                                  *)
QueueFails ==
  /\ Waiting
  /\ Fail
  /\ queue' = [phase |-> "error", found |-> None]
  /\ UNCHANGED <<auth, isQueueing, view, net>>

Pair(m) ==
  /\ queue.phase = "queued"
  /\ queue.found = None
  /\ ~Formed(m)
  /\ \A n \in Matches : n < m => Formed(n) /\ Over(n)
  /\ server' = [server EXCEPT ![m] = Meta(m)]
  /\ queue' = [queue EXCEPT !.found = m]
  /\ UNCHANGED <<auth, isQueueing, view, calls, fetch, fails>>

MatchFound ==
  LET m == queue.found IN
  /\ m # None
  /\ isQueueing' = FALSE
  /\ queue' = NoQueue
  /\ id' = Set(id, "provider", m)
  /\ state' = Set(state, "provider", Meta(m))
  /\ socket' = Set(socket, "provider", Connecting)
  /\ UNCHANGED <<auth, forfeiting, net, fails>>

(* Mutant of QueueAgain: the match is left, what is known of it is not. *)
QueueAgainKeeps ==
  /\ Decided(state["provider"])
  /\ isQueueing' = TRUE
  /\ queue' = NewQueue
  /\ id' = Set(id, "provider", None)
  /\ socket' = Set(socket, "provider", NoSocket)
  /\ forfeiting' = Set(forfeiting, "provider", FALSE)
  /\ UNCHANGED <<auth, state, net, fails>>

QueueAgain ==
  /\ Decided(state["provider"])
  /\ isQueueing' = TRUE
  /\ queue' = NewQueue
  /\ Leave("provider")
  /\ UNCHANGED <<auth, net, fails>>

-----------------------------------------------------------------------------
(* The match page. *)

(* From another match page, by a jump in the history, the page stays: its    *)
(* effects ask for the state and for a socket of the new match, what it      *)
(* shows and isForfeiting are of the earlier one.                            *)
OpenPage(m) ==
  /\ auth = "authenticated"
  /\ id["page"] # m
  /\ Formed(m)
  /\ queue.found # m
  /\ id' = Set(id, "page", m)
  /\ socket' = Set(socket, "page", Connecting)
  /\ fetch' = [pc |-> "asked", state |-> NoState]
  /\ UNCHANGED <<session, state, forfeiting, calls, server, fails>>

ClosePage ==
  /\ id["page"] # None
  /\ Leave("page")
  /\ Unmount
  /\ fetch' = NoFetch
  /\ UNCHANGED <<session, server, fails>>

FetchServed ==
  /\ fetch.pc = "asked"
  /\ ~server[id["page"]].aborted
  /\ fetch' = [pc |-> "answered", state |-> server[id["page"]]]
  /\ UNCHANGED <<session, view, calls, server, fails>>

(* The answer replaces whatever the socket has brought in the meantime. *)
FetchAnswered ==
  /\ fetch.pc = "answered"
  /\ fetch' = NoFetch
  /\ state' = Set(state, "page", fetch.state)
  /\ UNCHANGED <<session, id, socket, forfeiting, calls, server, fails>>

(* The call is lost, or the object has dropped its meta: an error is shown. *)
FetchFails ==
  /\ fetch.pc # "idle"
  /\ IF server[id["page"]].aborted /\ fetch.pc = "asked" THEN UNCHANGED fails ELSE Fail
  /\ fetch' = NoFetch
  /\ UNCHANGED <<session, view, calls, server>>

-----------------------------------------------------------------------------
(* useMatchSocket, in the provider and in the match page. *)

(* A snapshot is sent first; of an aborted match there is none any more. *)
SocketOpens(v) ==
  /\ socket[v].phase = "connecting"
  /\ socket' = Set(socket, v,
       [phase |-> "connected",
        inbox |-> IF server[id[v]].aborted THEN <<>>
                  ELSE <<[type |-> "state", meta |-> server[id[v]]]>>])
  /\ UNCHANGED <<session, id, state, forfeiting, net, fails>>

Receive(v) ==
  LET message == Head(socket[v].inbox) IN
  /\ socket[v].inbox # <<>>
  /\ IF message.type = "close"
     THEN /\ socket' = Set(socket, v, [NoSocket EXCEPT !.phase = "closed"])
          /\ UNCHANGED state
     ELSE /\ socket' = [socket EXCEPT ![v].inbox = Tail(@)]
          /\ state' = Set(state, v, Apply(state[v], message))
  /\ UNCHANGED <<session, id, forfeiting, net, fails>>

(* Nothing reconnects it. *)
SocketFails(v) ==
  /\ socket[v].phase \in {"connecting", "connected"}
  /\ Fail
  /\ socket' = Set(socket, v, [NoSocket EXCEPT !.phase = "error"])
  /\ UNCHANGED <<session, id, state, forfeiting, net>>

-----------------------------------------------------------------------------
(* Forfeits. *)

Forfeit(v) ==
  /\ auth = "authenticated"
  /\ state[v].match # None
  /\ ~Decided(state[v])
  /\ ~forfeiting[v]
  /\ Cardinality(calls) < MaxForfeits
  /\ forfeiting' = Set(forfeiting, v, TRUE)
  /\ calls' = calls \cup {[view |-> v, match |-> id[v], pc |-> "asked"]}
  /\ UNCHANGED <<session, id, state, socket, fetch, server, fails>>

(* Mutant of Show: an answer is shown whatever match the view is at. *)
ShowAnyway(c) ==
  [state EXCEPT ![c.view].winner = server[c.match].winner]

(* The setMatchState that follows an answer; the object answers with the     *)
(* winner it has, and that does not change any more.                         *)
Show(c) ==
  IF state[c.view].match = c.match
  THEN [state EXCEPT ![c.view].winner = server[c.match].winner] ELSE state

(* Mutant of Finally: the flag is left when the call has failed. *)
FinallyUnlessFailed(c) ==
  /\ calls' = calls \ {c}
  /\ forfeiting' = IF c.pc = "asked" THEN forfeiting ELSE Set(forfeiting, c.view, FALSE)

Finally(c) ==
  /\ calls' = calls \ {c}
  /\ forfeiting' = Set(forfeiting, c.view, FALSE)

ForfeitAnswered(c) ==
  /\ c.pc = "served"
  /\ state' = Show(c)
  /\ Finally(c)
  /\ UNCHANGED <<session, id, socket, fetch, server, fails>>

(* The call or its answer is lost, or the object has dropped its meta. *)
ForfeitFails(c) ==
  /\ IF server[c.match].aborted THEN UNCHANGED fails ELSE Fail
  /\ Finally(c)
  /\ UNCHANGED <<session, id, state, socket, fetch, server>>

-----------------------------------------------------------------------------
(* The Match object: what it does to the sockets it holds (match.ts). *)

Broadcast(m, messages) ==
  socket' = [v \in Views |->
    IF id[v] = m /\ socket[v].phase = "connected"
    THEN [socket[v] EXCEPT !.inbox = @ \o messages] ELSE socket[v]]

Ready(m) ==
  /\ Formed(m)
  /\ ~server[m].ready
  /\ ~Over(m)
  /\ server' = [server EXCEPT ![m].ready = TRUE]
  /\ Broadcast(m, <<[type |-> "ready", meta |-> server'[m]]>>)
  /\ UNCHANGED <<session, id, state, forfeiting, calls, fetch, fails>>

(* Mutant of Decide: the sockets are closed, the result is not sent. *)
DecideSilently(m, w) ==
  /\ server' = [server EXCEPT ![m].winner = w]
  /\ Broadcast(m, <<[type |-> "close", meta |-> server'[m]]>>)

Decide(m, w) ==
  /\ server' = [server EXCEPT ![m].winner = w]
  /\ Broadcast(m, <<[type |-> "result", meta |-> server'[m]],
                    [type |-> "close", meta |-> server'[m]]>>)

Claimed(m) ==
  /\ Formed(m)
  /\ ~Over(m)
  /\ \E w \in {"me", "them"} : Decide(m, w)
  /\ UNCHANGED <<session, id, state, forfeiting, calls, fetch, fails>>

(* A forfeit of a match that is won is answered with its winner. *)
ForfeitServed(c) ==
  /\ c.pc = "asked"
  /\ ~server[c.match].aborted
  /\ calls' = (calls \ {c}) \cup {[c EXCEPT !.pc = "served"]}
  /\ IF Over(c.match) THEN UNCHANGED <<socket, server>> ELSE Decide(c.match, "them")
  /\ UNCHANGED <<session, id, state, forfeiting, fetch, fails>>

Abort(m) ==
  /\ Formed(m)
  /\ ~Over(m)
  /\ server' = [server EXCEPT ![m].aborted = TRUE]
  /\ Broadcast(m, <<[type |-> "aborted", meta |-> server'[m]],
                    [type |-> "close", meta |-> server'[m]]>>)
  /\ UNCHANGED <<session, id, state, forfeiting, calls, fetch, fails>>

-----------------------------------------------------------------------------
Init ==
  /\ auth = "loading"
  /\ isQueueing = FALSE
  /\ queue = NoQueue
  /\ id = [v \in Views |-> None]
  /\ state = [v \in Views |-> NoState]
  /\ socket = [v \in Views |-> NoSocket]
  /\ forfeiting = [v \in Views |-> FALSE]
  /\ calls = {}
  /\ fetch = NoFetch
  /\ server = [m \in Matches |-> NoState]
  /\ fails = 0

Next ==
  \/ Hydrate \/ Logout \/ JoinQueue \/ LeaveQueue \/ QueueOpens \/ QueueFails
  \/ MatchFound \/ QueueAgain \/ ClosePage \/ FetchServed \/ FetchAnswered \/ FetchFails
  \/ \E m \in Matches : Pair(m) \/ OpenPage(m) \/ Ready(m) \/ Claimed(m) \/ Abort(m)
  \/ \E v \in Views : SocketOpens(v) \/ Receive(v) \/ SocketFails(v) \/ Forfeit(v)
  \/ \E c \in calls : ForfeitServed(c) \/ ForfeitAnswered(c) \/ ForfeitFails(c)

(* The queue provider's socket connects or fails, and what is sent on it     *)
(* while it stays open arrives.  Nothing is assumed of the player, of the    *)
(* match page, of the matches, or of calls.                                  *)
Fairness == WF_vars(SocketOpens("provider")) /\ WF_vars(Receive("provider"))

Spec == Init /\ [][Next]_vars /\ Fairness

-----------------------------------------------------------------------------
Winners == {None, "me", "them"}
Metas == [match : Matches \cup {None}, ready : BOOLEAN, winner : Winners, aborted : BOOLEAN]
Messages == [type : {"state", "ready", "result", "aborted", "close"}, meta : Metas]

(* The types; a view that has no match has nothing to show of one, and a     *)
(* player who has a match, or is signed out, has no queue socket.            *)
TypeOK ==
  /\ auth \in {"loading", "authenticated", "anonymous"}
  /\ isQueueing \in BOOLEAN
  /\ queue \in [phase : {"idle", "connecting", "queued", "error"}, found : Matches \cup {None}]
  /\ id \in [Views -> Matches \cup {None}]
  /\ state \in [Views -> Metas]
  /\ \A v \in Views :
       /\ socket[v].phase \in {"idle", "connecting", "connected", "closed", "error"}
       /\ Len(socket[v].inbox) <= 4
       /\ \A i \in DOMAIN socket[v].inbox : socket[v].inbox[i] \in Messages
       /\ id[v] = None => state[v] = NoState /\ socket[v] = NoSocket
  /\ forfeiting \in [Views -> BOOLEAN]
  /\ \A c \in calls : c.view \in Views /\ c.match \in Matches
  /\ fetch.state \in Metas
  /\ server \in [Matches -> Metas]
  /\ queue.phase # "idle" <=> isQueueing
  /\ isQueueing => auth = "authenticated" /\ id["provider"] = None

(* A winner, an abort or a server that is ready is shown of a match only if  *)
(* its Match object has it: answers of an earlier match do not get into a    *)
(* later one.  The queue page shows its own match, and so does a match page  *)
(* once its socket has brought what it was sent, whatever it showed before   *)
(* (a match aborted before that has no snapshot to bring).                   *)
ShownIsTrue ==
  /\ \A v \in Views : state[v].match # None =>
       LET s == server[state[v].match] IN
       /\ state[v].winner \in {None, s.winner}
       /\ state[v].aborted => s.aborted
       /\ state[v].ready => s.ready
  /\ state["provider"].match = id["provider"]
  /\ socket["page"].phase \in {"connected", "closed"} /\ socket["page"].inbox = <<>> =>
       state["page"].match = id["page"] \/ server[id["page"]].aborted

(* A button that says Forfeiting... has a call under way that will reset it. *)
ForfeitIsPending == \A v \in Views : forfeiting[v] => \E c \in calls : c.view = v

(* A player who is signed out has no match, no sockets and nothing shown,    *)
(* whatever answers come later.                                              *)
SignedOutIsEmpty ==
  auth = "anonymous" =>
    \A v \in Views : id[v] = None /\ state[v] = NoState /\ socket[v] = NoSocket

(* A view that has everything: nothing is on its way, no socket has failed.  *)
Settled(v) ==
  /\ socket[v].phase \in {"connected", "closed"}
  /\ socket[v].inbox = <<>>
  /\ v = "page" => fetch = NoFetch
ShowsWinner(v) == id[v] # None /\ Settled(v) => state[v].winner = server[id[v]].winner

(* The queue page shows the winner of its match whatever order the forfeit's *)
(* answer and the socket's messages come in.                                 *)
QueueShowsWinner == ShowsWinner("provider")

(* MatchResult.tsx:166 "This page will update when a winner is broadcast". *)
PageShowsWinner == ShowsWinner("page")

(* The queue page is at a match that is won and does not show the winner. *)
OwesWinner ==
  /\ id["provider"] # None
  /\ server[id["provider"]].winner # None
  /\ state["provider"].winner = None

(* A winner is shown in the end by a queue page that stays at the match and  *)
(* whose socket does not fail.                                               *)
WinnerIsShown == []<>(~OwesWinner \/ socket["provider"].phase = "error")
=============================================================================
