---------------------------- MODULE ClientProofs ----------------------------
(***************************************************************************)
(* Theorems about module Client: any number of matches, failures and        *)
(* forfeits.                                                                *)
(***************************************************************************)
EXTENDS Client, TLAPS, SequenceTheorems

Sockets == [phase : {"idle", "connecting", "connected", "closed", "error"}, inbox : Seq(Messages)]
Calls == [view : Views, match : Matches, pc : {"asked", "served"}]

Typed ==
  /\ auth \in {"loading", "authenticated", "anonymous"}
  /\ isQueueing \in BOOLEAN
  /\ queue \in [phase : {"idle", "connecting", "queued", "error"}, found : Matches \cup {None}]
  /\ id \in [Views -> Matches \cup {None}]
  /\ state \in [Views -> Metas]
  /\ socket \in [Views -> Sockets]
  /\ forfeiting \in [Views -> BOOLEAN]
  /\ calls \subseteq Calls
  /\ fetch \in [pc : {"idle", "asked", "answered"}, state : Metas]
  /\ server \in [Matches -> Metas]

(* What a snapshot, or a view, says of a match was the case, and still is:  *)
(* a result, an abort and a ready server are not taken back.                *)
TrueOf(s, meta) ==
  /\ s.match = meta.match
  /\ s.winner \in {None, meta.winner}
  /\ s.aborted => meta.aborted
  /\ s.ready => meta.ready

(* A message on its way to a view of the match that has this meta. *)
Carries(x, meta) ==
  /\ TrueOf(x.meta, meta)
  /\ x.type = "ready" => meta.ready
  /\ x.type = "aborted" => meta.aborted
  /\ x.type = "result" => meta.winner # None /\ x.meta.winner = meta.winner
  /\ x.type = "close" => Decided(meta)

(* What the Match object can have sent on a socket: a snapshot, ready, a    *)
(* result or an abort, and the close.                                       *)
Room(meta) == (IF meta.ready THEN 2 ELSE 1) + (IF Decided(meta) THEN 2 ELSE 0)

(* A snapshot comes first and the close comes last. *)
Ordered(inbox) ==
  \A i \in 1..Len(inbox) :
    /\ inbox[i].type = "state" => i = 1
    /\ inbox[i].type = "close" => i = Len(inbox)

(* What is shown is true of the match that is shown. *)
Truthful(s) == s.match # None => TrueOf(s, server[s.match])

(* A socket that is open has a snapshot on its way until the view shows the *)
(* socket's match.                                                          *)
SnapshotDue(k, shown, meta) ==
  k.phase \in {"connected", "closed"} =>
    \/ shown = meta.match
    \/ meta.aborted
    \/ k.inbox # <<>> /\ k.inbox[1].type = "state"

ViewOK(v) ==
  /\ id[v] = None => state[v] = NoState /\ socket[v] = NoSocket
  /\ Truthful(state[v])
  /\ id[v] # None =>
       /\ Formed(id[v])
       /\ SnapshotDue(socket[v], state[v].match, server[id[v]])
       /\ \A i \in 1..Len(socket[v].inbox) : Carries(socket[v].inbox[i], server[id[v]])
       /\ Len(socket[v].inbox) <= Room(server[id[v]])
       /\ Ordered(socket[v].inbox)
       /\ socket[v].inbox # <<>> => socket[v].phase = "connected"
       /\ socket[v].phase = "closed" => Decided(server[id[v]])

(* The winner is shown or on its way, and no older snapshot will take it    *)
(* back.                                                                    *)
WinnerDue(inbox, shown, meta) ==
  \/ \E i \in 1..Len(inbox) : inbox[i].type = "result"
  \/ inbox # <<>> /\ inbox[1].type = "state" /\ inbox[1].meta.winner = meta.winner
  \/ shown = meta.winner /\ (inbox # <<>> => inbox[1].type # "state")

ProviderOK ==
  LET m == id["provider"]  s == socket["provider"]  shown == state["provider"].winner IN
  m # None =>
    /\ state["provider"].match = m
    /\ s.phase = "connected" /\ server[m].winner # None => WinnerDue(s.inbox, shown, server[m])
    /\ s.phase = "closed" => shown = server[m].winner

QueueOK ==
  /\ queue.phase # "idle" <=> isQueueing
  /\ isQueueing => auth = "authenticated" /\ id["provider"] = None
  /\ queue.found # None => queue.phase = "queued" /\ Formed(queue.found)
  /\ auth # "authenticated" => \A v \in Views : id[v] = None

ServerOK ==
  /\ \A m \in Matches : server[m].match \in {None, m} /\ (server[m].aborted => server[m].winner = None)
  /\ \A c \in calls : Formed(c.match)
  /\ fetch.pc # "idle" => id["page"] # None
  /\ fetch.pc = "answered" => TrueOf(fetch.state, server[id["page"]])

ClientInv ==
  /\ Typed /\ QueueOK /\ ServerOK /\ ForfeitIsPending
  /\ \A v \in Views : ViewOK(v)
  /\ ProviderOK

-----------------------------------------------------------------------------
(* Values *)

LEMMA EmptyIs ==
  /\ NoState \in Metas /\ NoState.match = None /\ NoState.winner = None /\ ~NoState.aborted
  /\ \A m \in Matches : /\ Meta(m) \in Metas /\ Meta(m).match = m /\ Meta(m).winner = None
                        /\ ~Meta(m).ready /\ ~Meta(m).aborted
BY DEF NoState, Meta, Metas, Winners

LEMMA SocketsAre ==
  /\ NoSocket \in Sockets /\ NoSocket.phase = "idle" /\ NoSocket.inbox = <<>>
  /\ Connecting \in Sockets /\ Connecting.phase = "connecting" /\ Connecting.inbox = <<>>
BY DEF NoSocket, Connecting, Sockets

LEMMA QueuesAre ==
  /\ NoQueue \in [phase : {"idle", "connecting", "queued", "error"}, found : Matches \cup {None}]
  /\ NoQueue.phase = "idle" /\ NoQueue.found = None
  /\ NewQueue \in [phase : {"idle", "connecting", "queued", "error"}, found : Matches \cup {None}]
  /\ NewQueue.phase = "connecting" /\ NewQueue.found = None
BY DEF NoQueue, NewQueue

LEMMA FetchesAre ==
  NoFetch \in [pc : {"idle", "asked", "answered"}, state : Metas] /\ NoFetch.pc = "idle"
BY EmptyIs DEF NoFetch

LEMMA InvParts ==
  ASSUME ClientInv
  PROVE  /\ Typed /\ QueueOK /\ ServerOK /\ ForfeitIsPending /\ ProviderOK
         /\ \A v \in Views : ViewOK(v)
BY DEF ClientInv

-----------------------------------------------------------------------------
(* The views *)

LEMMA ViewsStay ==
  ASSUME ClientInv, id' = id, state' = state, socket' = socket, server' = server
  PROVE  (\A v \in Views : ViewOK(v)') /\ ProviderOK'
<1>1. ASSUME NEW v \in Views PROVE ViewOK(v)'
  <2>1. /\ Formed(id[v])' = Formed(id[v]) /\ Decided(server[id[v]])' = Decided(server[id[v]])
        /\ Room(server[id[v]])' = Room(server[id[v]])
    BY DEF Formed, Decided, Room
  <2>2. /\ Truthful(state[v])' = Truthful(state[v])
        /\ SnapshotDue(socket[v], state[v].match, server[id[v]])'
             = SnapshotDue(socket[v], state[v].match, server[id[v]])
    BY DEF Truthful, TrueOf, SnapshotDue
  <2>3. Ordered(socket[v].inbox)' = Ordered(socket[v].inbox)
    BY DEF Ordered
  <2>4. \A i : Carries(socket[v].inbox[i], server[id[v]])' = Carries(socket[v].inbox[i], server[id[v]])
    BY DEF Carries, TrueOf, Decided
  <2>5. ViewOK(v)
    BY InvParts
  <2> QED
    BY <2>1, <2>2, <2>3, <2>4, <2>5 DEF ViewOK
<1>2. ProviderOK'
  BY InvParts DEF ProviderOK, WinnerDue
<1> QED
  BY <1>1, <1>2

(* What was true of a match still is. *)
Later == \A n \in Matches : Formed(n) => \A x : TrueOf(x, server[n]) => TrueOf(x, server'[n])

LEMMA TruthStays ==
  ASSUME ClientInv, NEW v \in Views, state'[v] = state[v], server' = server \/ Later
  PROVE  Truthful(state[v])'
<1>1. Truthful(state[v]) /\ state[v].match \in Matches \cup {None}
  BY InvParts DEF ViewOK, Typed, Metas
<1>2. CASE server' = server
  BY <1>1, <1>2 DEF Truthful, TrueOf
<1>3. CASE Later /\ state[v].match # None
  <2>1. state[v].match \in Matches /\ Formed(state[v].match)
    BY <1>1, <1>3 DEF Truthful, TrueOf, Formed
  <2>2. TrueOf(state[v], server'[state[v].match])
    BY <1>1, <1>3, <2>1 DEF Truthful, Later
  <2> QED
    BY <2>2 DEF Truthful, TrueOf
<1>4. CASE state[v].match = None
  BY <1>4 DEF Truthful
<1> QED
  BY <1>2, <1>3, <1>4

(* A view that is not touched, of a match that is not touched. *)
LEMMA OneViewStays ==
  ASSUME ClientInv, NEW v \in Views, id'[v] = id[v], state'[v] = state[v], socket'[v] = socket[v],
         id[v] # None => server'[id[v]] = server[id[v]], server' = server \/ Later
  PROVE  ViewOK(v)' /\ (v = "provider" => ProviderOK')
<1>1. ViewOK(v) /\ (v = "provider" => ProviderOK)
  BY InvParts
<1>2. CASE id[v] = None
  BY <1>1, <1>2, TruthStays DEF ViewOK, ProviderOK, NoState, Meta, NoSocket
<1>3. CASE id[v] # None
  <2>1. /\ Formed(id[v])' = Formed(id[v]) /\ Decided(server[id[v]])' = Decided(server[id[v]])
        /\ Room(server[id[v]])' = Room(server[id[v]])
        /\ SnapshotDue(socket[v], state[v].match, server[id[v]])'
             = SnapshotDue(socket[v], state[v].match, server[id[v]])
        /\ Ordered(socket[v].inbox)' = Ordered(socket[v].inbox)
        /\ \A i : Carries(socket[v].inbox[i], server[id[v]])' = Carries(socket[v].inbox[i], server[id[v]])
        /\ WinnerDue(socket[v].inbox, state[v].winner, server[id[v]])'
             = WinnerDue(socket[v].inbox, state[v].winner, server[id[v]])
    BY <1>3 DEF Formed, Decided, Room, TrueOf, Carries, Ordered, WinnerDue, SnapshotDue
  <2>2. ViewOK(v)'
    BY <2>1, <1>1, <1>3, TruthStays DEF ViewOK
  <2>3. ASSUME v = "provider" PROVE ProviderOK'
    BY <2>1, <2>3, <1>1, <1>3 DEF ProviderOK
  <2> QED
    BY <2>2, <2>3
<1> QED
  BY <1>2, <1>3

(* A view without a match. *)
LEMMA EmptyView ==
  ASSUME NEW v \in Views, id'[v] = None, state'[v] = NoState, socket'[v] = NoSocket
  PROVE  ViewOK(v)' /\ (v = "provider" => ProviderOK')
BY DEF ViewOK, ProviderOK, NoState, Meta, NoSocket, Truthful

LEMMA LeaveViews ==
  ASSUME ClientInv, NEW v \in Views, Leave(v), server' = server
  PROVE  /\ id' \in [Views -> Matches \cup {None}] /\ state' \in [Views -> Metas]
         /\ socket' \in [Views -> Sockets] /\ forfeiting' \in [Views -> BOOLEAN]
         /\ id'[v] = None /\ ~forfeiting'[v]
         /\ \A u \in Views \ {v} : id'[u] = id[u] /\ forfeiting'[u] = forfeiting[u]
         /\ (\A u \in Views : ViewOK(u)') /\ ProviderOK'
<1>1. Typed
  BY InvParts
<1>2. /\ id' \in [Views -> Matches \cup {None}]
      /\ id'[v] = None /\ \A u \in Views \ {v} : id'[u] = id[u]
  BY <1>1 DEF Leave, Typed, Set
<1>3. /\ state' \in [Views -> Metas]
      /\ state'[v] = NoState /\ \A u \in Views \ {v} : state'[u] = state[u]
  BY <1>1, EmptyIs DEF Leave, Typed, Set
<1>4. /\ socket' \in [Views -> Sockets]
      /\ socket'[v] = NoSocket /\ \A u \in Views \ {v} : socket'[u] = socket[u]
  BY <1>1, SocketsAre DEF Leave, Typed, Set
<1>5. /\ forfeiting' \in [Views -> BOOLEAN]
      /\ forfeiting'[v] = FALSE /\ \A u \in Views \ {v} : forfeiting'[u] = forfeiting[u]
  BY <1>1 DEF Leave, Typed, Set
<1>6. \A u \in Views : ViewOK(u)' /\ (u = "provider" => ProviderOK')
  BY <1>2, <1>3, <1>4, EmptyView, OneViewStays
<1> QED
  BY <1>2, <1>3, <1>4, <1>5, <1>6 DEF Views

(* A call stays pending for its view. *)
LEMMA PendingStays ==
  ASSUME ForfeitIsPending, calls' = calls, \A v \in Views : forfeiting'[v] => forfeiting[v]
  PROVE  ForfeitIsPending'
BY DEF ForfeitIsPending

-----------------------------------------------------------------------------
(* Steps that leave both views as they are *)

LEMMA HydrateKeeps ==
  ASSUME ClientInv, Hydrate
  PROVE  ClientInv'
<1>1. (\A v \in Views : ViewOK(v)') /\ ProviderOK'
  BY ViewsStay DEF Hydrate, view, net
<1>2. Typed' /\ ForfeitIsPending'
  BY InvParts DEF Hydrate, view, net, Typed, ForfeitIsPending
<1>3. QueueOK' /\ ServerOK'
  BY InvParts DEF Hydrate, view, net, QueueOK, ServerOK, Formed, TrueOf
<1> QED
  BY <1>1, <1>2, <1>3 DEF ClientInv

LEMMA JoinQueueKeeps ==
  ASSUME ClientInv, JoinQueue
  PROVE  ClientInv'
<1>1. (\A v \in Views : ViewOK(v)') /\ ProviderOK'
  BY ViewsStay DEF JoinQueue, view, net
<1>2. Typed' /\ ForfeitIsPending'
  BY InvParts, QueuesAre DEF JoinQueue, view, net, Typed, ForfeitIsPending
<1>3. QueueOK' /\ ServerOK'
  BY InvParts, QueuesAre DEF JoinQueue, view, net, QueueOK, ServerOK, Formed, TrueOf
<1> QED
  BY <1>1, <1>2, <1>3 DEF ClientInv

LEMMA QueueOpensKeeps ==
  ASSUME ClientInv, QueueOpens
  PROVE  ClientInv'
<1>1. (\A v \in Views : ViewOK(v)') /\ ProviderOK'
  BY ViewsStay DEF QueueOpens, view, net
<1>2. Typed' /\ ForfeitIsPending'
  BY InvParts DEF QueueOpens, view, net, Typed, ForfeitIsPending
<1>3. QueueOK' /\ ServerOK'
  BY InvParts DEF QueueOpens, view, net, QueueOK, ServerOK, Formed, TrueOf, Typed
<1> QED
  BY <1>1, <1>2, <1>3 DEF ClientInv

LEMMA QueueFailsKeeps ==
  ASSUME ClientInv, QueueFails
  PROVE  ClientInv'
<1>1. (\A v \in Views : ViewOK(v)') /\ ProviderOK'
  BY ViewsStay DEF QueueFails, view, net
<1>2. Typed' /\ ForfeitIsPending'
  BY InvParts DEF QueueFails, view, net, Typed, ForfeitIsPending
<1>3. QueueOK' /\ ServerOK'
  BY InvParts DEF QueueFails, view, net, QueueOK, ServerOK, Formed, TrueOf, Waiting
<1> QED
  BY <1>1, <1>2, <1>3 DEF ClientInv

LEMMA FetchServedKeeps ==
  ASSUME ClientInv, FetchServed
  PROVE  ClientInv'
<1>1. (\A v \in Views : ViewOK(v)') /\ ProviderOK'
  BY ViewsStay DEF FetchServed, view
<1>2. id["page"] \in Matches /\ Formed(id["page"])
  BY InvParts DEF FetchServed, ServerOK, Typed, ViewOK, Views
<1>3. Typed' /\ ForfeitIsPending'
  BY <1>2, InvParts DEF FetchServed, session, view, Typed, ForfeitIsPending
<1>4. QueueOK' /\ ServerOK'
  BY <1>2, InvParts DEF FetchServed, session, view, QueueOK, ServerOK, Formed, TrueOf
<1> QED
  BY <1>1, <1>3, <1>4 DEF ClientInv

LEMMA FetchFailsKeeps ==
  ASSUME ClientInv, FetchFails
  PROVE  ClientInv'
<1>1. (\A v \in Views : ViewOK(v)') /\ ProviderOK'
  BY ViewsStay DEF FetchFails, view
<1>2. Typed' /\ ForfeitIsPending'
  BY FetchesAre, InvParts DEF FetchFails, session, view, Typed, ForfeitIsPending
<1>3. QueueOK' /\ ServerOK'
  BY FetchesAre, InvParts DEF FetchFails, session, view, QueueOK, ServerOK, Formed, TrueOf
<1> QED
  BY <1>1, <1>2, <1>3 DEF ClientInv

-----------------------------------------------------------------------------
(* Steps that empty a view *)

LEMMA LeaveQueueKeeps ==
  ASSUME ClientInv, LeaveQueue
  PROVE  ClientInv'
<1>1. Leave("provider") /\ server' = server /\ "provider" \in Views
  BY DEF LeaveQueue, net, Views
<1>2. /\ id' \in [Views -> Matches \cup {None}] /\ state' \in [Views -> Metas]
      /\ socket' \in [Views -> Sockets] /\ forfeiting' \in [Views -> BOOLEAN]
      /\ id'["provider"] = None /\ ~forfeiting'["provider"]
      /\ \A u \in Views \ {"provider"} : id'[u] = id[u] /\ forfeiting'[u] = forfeiting[u]
  BY <1>1, LeaveViews
<1>3. (\A u \in Views : ViewOK(u)') /\ ProviderOK'
  BY <1>1, LeaveViews
<1>4. Typed' /\ ForfeitIsPending'
  BY <1>2, InvParts, QueuesAre DEF LeaveQueue, net, Typed, ForfeitIsPending
<1>5. QueueOK' /\ ServerOK'
  BY <1>2, InvParts, QueuesAre DEF LeaveQueue, net, QueueOK, ServerOK, Formed, TrueOf, Views
<1> QED
  BY <1>3, <1>4, <1>5 DEF ClientInv

LEMMA QueueAgainStep ==
  ASSUME ClientInv, QueueAgain
  PROVE  ClientInv'
<1>1. Leave("provider") /\ server' = server /\ "provider" \in Views
  BY DEF QueueAgain, net, Views
<1>2. /\ id' \in [Views -> Matches \cup {None}] /\ state' \in [Views -> Metas]
      /\ socket' \in [Views -> Sockets] /\ forfeiting' \in [Views -> BOOLEAN]
      /\ id'["provider"] = None /\ ~forfeiting'["provider"]
      /\ \A u \in Views \ {"provider"} : id'[u] = id[u] /\ forfeiting'[u] = forfeiting[u]
  BY <1>1, LeaveViews
<1>3. (\A u \in Views : ViewOK(u)') /\ ProviderOK'
  BY <1>1, LeaveViews
<1>4. id["provider"] # None
  <2>1. state["provider"] # NoState
    BY EmptyIs DEF QueueAgain, Decided
  <2> QED
    BY <1>1, <2>1, InvParts DEF ViewOK
<1>5. auth = "authenticated"
  BY <1>1, <1>4, InvParts DEF QueueOK
<1>6. Typed' /\ ForfeitIsPending'
  BY <1>2, InvParts, QueuesAre DEF QueueAgain, net, Typed, ForfeitIsPending
<1>7. QueueOK' /\ ServerOK'
  BY <1>2, <1>5, InvParts, QueuesAre DEF QueueAgain, net, QueueOK, ServerOK, Formed, TrueOf, Views
<1> QED
  BY <1>3, <1>6, <1>7 DEF ClientInv

(* The calls that are left are the provider's. *)
LEMMA UnmountCalls ==
  ASSUME ClientInv, Unmount
  PROVE  /\ calls' \subseteq calls /\ calls' \subseteq Calls
         /\ \A c \in calls : c.view = "provider" => c \in calls'
BY InvParts DEF Unmount, Typed

LEMMA ClosePageKeeps ==
  ASSUME ClientInv, ClosePage
  PROVE  ClientInv'
<1>1. Leave("page") /\ server' = server /\ "page" \in Views /\ Unmount
  BY DEF ClosePage, Views
<1>2. /\ id' \in [Views -> Matches \cup {None}] /\ state' \in [Views -> Metas]
      /\ socket' \in [Views -> Sockets] /\ forfeiting' \in [Views -> BOOLEAN]
      /\ id'["page"] = None /\ ~forfeiting'["page"]
      /\ \A u \in Views \ {"page"} : id'[u] = id[u] /\ forfeiting'[u] = forfeiting[u]
  BY <1>1, LeaveViews
<1>3. (\A u \in Views : ViewOK(u)') /\ ProviderOK'
  BY <1>1, LeaveViews
<1>4. Typed'
  BY <1>1, <1>2, InvParts, UnmountCalls, FetchesAre DEF ClosePage, session, Typed
<1>5. ForfeitIsPending'
  BY <1>1, <1>2, InvParts, UnmountCalls DEF ForfeitIsPending, Views
<1>6. QueueOK' /\ ServerOK'
  BY <1>1, <1>2, InvParts, UnmountCalls, FetchesAre
     DEF ClosePage, session, QueueOK, ServerOK, Formed, TrueOf, Views
<1> QED
  BY <1>3, <1>4, <1>5, <1>6 DEF ClientInv

LEMMA LogoutKeeps ==
  ASSUME ClientInv, Logout
  PROVE  ClientInv'
<1>1. /\ server' = server /\ Unmount
      /\ \A v \in Views : id'[v] = None /\ state'[v] = NoState /\ socket'[v] = NoSocket /\ ~forfeiting'[v]
      /\ id' \in [Views -> Matches \cup {None}] /\ state' \in [Views -> Metas]
      /\ socket' \in [Views -> Sockets] /\ forfeiting' \in [Views -> BOOLEAN]
  BY EmptyIs, SocketsAre DEF Logout
<1>2. (\A u \in Views : ViewOK(u)') /\ ProviderOK'
  BY <1>1, EmptyView DEF Views
<1>3. Typed' /\ ForfeitIsPending'
  BY <1>1, InvParts, UnmountCalls, QueuesAre, FetchesAre DEF Logout, Typed, ForfeitIsPending
<1>4. QueueOK' /\ ServerOK'
  BY <1>1, InvParts, UnmountCalls, QueuesAre, FetchesAre
     DEF Logout, QueueOK, ServerOK, Formed, TrueOf, Views
<1> QED
  BY <1>2, <1>3, <1>4 DEF ClientInv

-----------------------------------------------------------------------------
(* Steps that bring a view to a match *)

(* A view that has just come to a match, with nothing on its socket. *)
LEMMA FreshView ==
  ASSUME Typed, NEW v \in Views, NEW m \in Matches, Formed(m)', id'[v] = m, socket'[v] = Connecting,
         Truthful(state[v])'
  PROVE  ViewOK(v)' /\ (v = "provider" /\ state'[v] = Meta(m) => ProviderOK')
<1>1. m # None /\ Connecting.inbox = <<>> /\ Connecting.phase = "connecting" /\ Len(<<>>) = 0
  BY ClientAssumption, SocketsAre
<1>2. SnapshotDue(socket[v], state[v].match, server[id[v]])'
  BY <1>1 DEF SnapshotDue
<1>3. Len(socket'[v].inbox) <= Room(server[id[v]])'
  BY <1>1 DEF Room
<1>4. ViewOK(v)'
  BY <1>1, <1>2, <1>3 DEF ViewOK, Ordered
<1> QED
  BY <1>1, <1>4, EmptyIs DEF ProviderOK

LEMMA MatchFoundKeeps ==
  ASSUME ClientInv, MatchFound
  PROVE  ClientInv'
<1>1. PICK m \in Matches : m = queue.found /\ Formed(m) /\ queue.phase = "queued"
  BY InvParts DEF MatchFound, QueueOK, Typed
<1>2. server' = server /\ Formed(m)' /\ forfeiting' = forfeiting /\ calls' = calls /\ fetch' = fetch
  BY <1>1 DEF MatchFound, net, Formed
<1>3. /\ id' \in [Views -> Matches \cup {None}] /\ state' \in [Views -> Metas]
      /\ socket' \in [Views -> Sockets]
      /\ id'["provider"] = m /\ state'["provider"] = Meta(m) /\ socket'["provider"] = Connecting
      /\ id'["page"] = id["page"] /\ state'["page"] = state["page"] /\ socket'["page"] = socket["page"]
  BY <1>1, EmptyIs, SocketsAre, InvParts DEF MatchFound, Typed, Set, Views
<1>4. (\A u \in Views : ViewOK(u)') /\ ProviderOK'
  <2>1. Truthful(state["provider"])'
    BY <1>1, <1>2, <1>3, EmptyIs DEF Truthful, TrueOf, Formed
  <2> QED
    BY <2>1, <1>2, <1>3, InvParts, FreshView, OneViewStays DEF Views
<1>5. Typed' /\ ForfeitIsPending'
  <2>1. /\ queue' \in [phase : {"idle", "connecting", "queued", "error"}, found : Matches \cup {None}]
        /\ isQueueing' \in BOOLEAN /\ auth' = auth
    BY QueuesAre DEF MatchFound
  <2>2. Typed'
    BY <1>2, <1>3, <2>1, InvParts DEF Typed
  <2>3. ForfeitIsPending'
    BY <1>2, InvParts, PendingStays
  <2> QED
    BY <2>2, <2>3
<1>6. auth = "authenticated" /\ auth' = auth
  BY <1>1, InvParts DEF QueueOK, MatchFound
<1>7. QueueOK' /\ ServerOK'
  BY <1>2, <1>3, <1>6, InvParts, QueuesAre DEF MatchFound, QueueOK, ServerOK, Formed, TrueOf
<1> QED
  BY <1>4, <1>5, <1>7 DEF ClientInv

LEMMA OpenPageKeeps ==
  ASSUME ClientInv, NEW m \in Matches, OpenPage(m)
  PROVE  ClientInv'
<1>1. server' = server /\ Formed(m)' /\ forfeiting' = forfeiting /\ calls' = calls /\ state' = state
  BY DEF OpenPage, Formed
<1>2. Truthful(state["page"])'
  BY <1>1, TruthStays DEF Views
<1>3. /\ id' \in [Views -> Matches \cup {None}] /\ socket' \in [Views -> Sockets]
      /\ id'["page"] = m /\ socket'["page"] = Connecting
      /\ id'["provider"] = id["provider"] /\ socket'["provider"] = socket["provider"]
  BY SocketsAre, InvParts DEF OpenPage, Typed, Set, Views
<1>4. (\A u \in Views : ViewOK(u)') /\ ProviderOK'
  BY <1>1, <1>2, <1>3, InvParts, FreshView, OneViewStays DEF Views
<1>5. fetch' \in [pc : {"idle", "asked", "answered"}, state : Metas] /\ fetch'.pc = "asked"
  BY EmptyIs DEF OpenPage
<1>6. Typed' /\ ForfeitIsPending'
  BY <1>1, <1>3, <1>5, InvParts DEF OpenPage, session, Typed, ForfeitIsPending
<1>7. m # None
  BY ClientAssumption
<1>8. QueueOK' /\ ServerOK'
  BY <1>1, <1>3, <1>5, <1>7, InvParts DEF OpenPage, session, QueueOK, ServerOK, Formed, TrueOf, Views
<1> QED
  BY <1>4, <1>6, <1>8 DEF ClientInv

-----------------------------------------------------------------------------
(* Steps that change what a view shows *)

(* The state of a view is replaced, or its winner set. *)
LEMMA StateShown ==
  ASSUME ClientInv, NEW v \in Views, NEW s \in Metas, id[v] # None,
         id' = id, socket' = socket, server' = server, state' = [state EXCEPT ![v] = s],
         Truthful(s), s.match \in {state[v].match, id[v]},
         v = "provider" => /\ s.match = id[v]
                           /\ s.winner \in {state[v].winner, server[id[v]].winner}
  PROVE  /\ state' \in [Views -> Metas]
         /\ (\A u \in Views : ViewOK(u)') /\ ProviderOK'
<1>1. state' \in [Views -> Metas] /\ state'[v] = s /\ \A u \in Views \ {v} : state'[u] = state[u]
  BY InvParts DEF Typed
<1>2. /\ Formed(id[v])' = Formed(id[v]) /\ Decided(server[id[v]])' = Decided(server[id[v]])
      /\ Room(server[id[v]])' = Room(server[id[v]])
      /\ Ordered(socket[v].inbox)' = Ordered(socket[v].inbox)
      /\ \A i : Carries(socket[v].inbox[i], server[id[v]])' = Carries(socket[v].inbox[i], server[id[v]])
      /\ Truthful(state[v])' = Truthful(s)
      /\ SnapshotDue(socket[v], state[v].match, server[id[v]])'
           = SnapshotDue(socket[v], s.match, server[id[v]])
  BY <1>1 DEF Formed, Decided, Room, TrueOf, Carries, Ordered, Truthful, SnapshotDue
<1>3. ViewOK(v) /\ (v = "provider" => ProviderOK)
  BY InvParts
<1>4. ViewOK(v)'
  <2>1. server[id[v]].match = id[v]
    BY <1>3 DEF ViewOK, Formed
  <2>2. SnapshotDue(socket[v], s.match, server[id[v]])
    BY <2>1, <1>3 DEF ViewOK, SnapshotDue
  <2> QED
    BY <2>2, <1>1, <1>2, <1>3 DEF ViewOK
<1>5. ASSUME v = "provider" PROVE ProviderOK'
  <2>1. WinnerDue(socket[v].inbox, state[v].winner, server[id[v]])
          => WinnerDue(socket[v].inbox, s.winner, server[id[v]])'
    BY <1>5 DEF WinnerDue
  <2> QED
    BY <2>1, <1>1, <1>3, <1>5 DEF ProviderOK
<1>6. \A u \in Views \ {v} : ViewOK(u)' /\ (u = "provider" => ProviderOK')
  BY <1>1, OneViewStays
<1> QED
  BY <1>1, <1>4, <1>5, <1>6 DEF Views

LEMMA FetchAnsweredKeeps ==
  ASSUME ClientInv, FetchAnswered
  PROVE  ClientInv'
<1>1. /\ id["page"] # None /\ fetch.state \in Metas /\ TrueOf(fetch.state, server[id["page"]])
      /\ "page" \in Views /\ "page" # "provider"
  BY InvParts DEF FetchAnswered, ServerOK, Typed, Views
<1>2. /\ id' = id /\ socket' = socket /\ server' = server /\ calls' = calls /\ forfeiting' = forfeiting
      /\ state' = [state EXCEPT !["page"] = fetch.state] /\ fetch' = NoFetch
  BY DEF FetchAnswered, Set
<1>3. state' \in [Views -> Metas] /\ (\A u \in Views : ViewOK(u)') /\ ProviderOK'
  <2>1. fetch.state.match = id["page"]
    BY <1>1, InvParts DEF ViewOK, Formed, TrueOf
  <2>2. Truthful(fetch.state)
    BY <2>1, <1>1 DEF Truthful
  <2> QED
    BY <2>1, <2>2, <1>1, <1>2, StateShown
<1>4. Typed' /\ ForfeitIsPending'
  BY <1>2, <1>3, InvParts, FetchesAre DEF FetchAnswered, session, Typed, ForfeitIsPending
<1>5. QueueOK' /\ ServerOK'
  BY <1>2, InvParts, FetchesAre DEF FetchAnswered, session, QueueOK, ServerOK, Formed, TrueOf
<1> QED
  BY <1>3, <1>4, <1>5 DEF ClientInv

(* A call ends, and the flag of the view that made it is reset. *)
LEMMA FinallyResets ==
  ASSUME ClientInv, NEW c \in calls, Finally(c)
  PROVE  /\ calls' \subseteq Calls /\ calls' \subseteq calls
         /\ forfeiting' \in [Views -> BOOLEAN]
         /\ ForfeitIsPending'
<1>1. forfeiting \in [Views -> BOOLEAN] /\ c.view \in Views
      /\ calls \subseteq Calls /\ calls' = calls \ {c}
  BY InvParts DEF Typed, Calls, Finally
<1>2. forfeiting' = [forfeiting EXCEPT ![c.view] = FALSE]
  BY DEF Finally, Set
<1> QED
  BY <1>1, <1>2, InvParts DEF ForfeitIsPending

LEMMA ForfeitFailsKeeps ==
  ASSUME ClientInv, NEW c \in calls, ForfeitFails(c)
  PROVE  ClientInv'
<1>1. /\ calls' \subseteq Calls /\ calls' \subseteq calls
      /\ forfeiting' \in [Views -> BOOLEAN]
      /\ ForfeitIsPending'
  BY FinallyResets DEF ForfeitFails
<1>2. (\A v \in Views : ViewOK(v)') /\ ProviderOK'
  BY ViewsStay DEF ForfeitFails
<1>3. Typed'
  BY <1>1, InvParts DEF ForfeitFails, session, Typed
<1>4. QueueOK' /\ ServerOK'
  BY <1>1, InvParts DEF ForfeitFails, session, QueueOK, ServerOK, Formed, TrueOf
<1> QED
  BY <1>1, <1>2, <1>3, <1>4 DEF ClientInv

LEMMA ForfeitAnsweredKeeps ==
  ASSUME ClientInv, NEW c \in calls, ForfeitAnswered(c)
  PROVE  ClientInv'
<1>1. /\ calls' \subseteq Calls /\ calls' \subseteq calls
      /\ forfeiting' \in [Views -> BOOLEAN]
      /\ ForfeitIsPending'
  BY FinallyResets DEF ForfeitAnswered
<1>2. /\ id' = id /\ socket' = socket /\ server' = server /\ fetch' = fetch
      /\ c.view \in Views /\ c.match \in Matches /\ state \in [Views -> Metas]
      /\ server[c.match] \in Metas
  BY InvParts DEF ForfeitAnswered, Typed, Calls
<1>3. state' \in [Views -> Metas] /\ (\A v \in Views : ViewOK(v)') /\ ProviderOK'
  <2>1. CASE state[c.view].match = c.match
    <3> DEFINE s == [state[c.view] EXCEPT !.winner = server[c.match].winner]
    <3>1. state' = [state EXCEPT ![c.view] = s]
      BY <2>1, <1>2 DEF ForfeitAnswered, Show
    <3>2. /\ s \in Metas /\ s.match = state[c.view].match /\ s.winner = server[c.match].winner
          /\ s.ready = state[c.view].ready /\ s.aborted = state[c.view].aborted
      BY <1>2, <3>1 DEF Metas
    <3>3. /\ c.match # None /\ TrueOf(state[c.view], server[c.match]) /\ ViewOK(c.view)
          /\ c.view = "provider" => ProviderOK
      BY <2>1, <1>2, InvParts, ClientAssumption DEF ViewOK, Truthful
    <3>4. Truthful(s)
      BY <2>1, <3>2, <3>3 DEF Truthful, TrueOf
    <3>5. id[c.view] # None
      BY <2>1, <3>3, EmptyIs DEF ViewOK
    <3>6. c.view = "provider" => s.match = id[c.view] /\ s.winner = server[id[c.view]].winner
      BY <2>1, <3>2, <3>3, <3>5 DEF ProviderOK
    <3> HIDE DEF s
    <3> QED
      BY <1>2, <3>1, <3>2, <3>4, <3>5, <3>6, StateShown
  <2>2. CASE ~(state[c.view].match = c.match)
    BY <2>2, <1>2, ViewsStay DEF ForfeitAnswered, Show
  <2> QED
    BY <2>1, <2>2
<1>4. Typed'
  BY <1>1, <1>2, <1>3, InvParts DEF ForfeitAnswered, session, Typed
<1>5. QueueOK' /\ ServerOK'
  BY <1>1, <1>2, InvParts DEF ForfeitAnswered, session, QueueOK, ServerOK, Formed, TrueOf
<1> QED
  BY <1>1, <1>3, <1>4, <1>5 DEF ClientInv

LEMMA ForfeitKeeps ==
  ASSUME ClientInv, NEW v \in Views, Forfeit(v)
  PROVE  ClientInv'
<1>1. (\A u \in Views : ViewOK(u)') /\ ProviderOK'
  BY ViewsStay DEF Forfeit
<1>2. id[v] \in Matches /\ Formed(id[v])
  BY InvParts, EmptyIs DEF Forfeit, ViewOK, Typed
<1>4. PICK d \in Calls : d.view = v /\ d.match = id[v] /\ calls' = calls \cup {d}
  BY <1>2 DEF Forfeit, Calls
<1>5. /\ forfeiting' \in [Views -> BOOLEAN]
      /\ \A u \in Views \ {v} : forfeiting'[u] = forfeiting[u]
  BY InvParts DEF Forfeit, Typed, Set
<1>6. Typed'
  BY <1>4, <1>5, InvParts DEF Forfeit, session, Typed
<1>7. ForfeitIsPending'
  BY <1>4, <1>5, InvParts DEF ForfeitIsPending
<1>8. QueueOK' /\ ServerOK'
  BY <1>2, <1>4, InvParts DEF Forfeit, session, QueueOK, ServerOK, Formed, TrueOf
<1> QED
  BY <1>1, <1>6, <1>7, <1>8 DEF ClientInv

LEMMA PairKeeps ==
  ASSUME ClientInv, NEW m \in Matches, Pair(m)
  PROVE  ClientInv'
<1>1. /\ server' \in [Matches -> Metas] /\ server'[m] = Meta(m)
      /\ \A n \in Matches \ {m} : server'[n] = server[n]
  BY InvParts, EmptyIs DEF Pair, Typed
<1>2. id' = id /\ state' = state /\ socket' = socket /\ forfeiting' = forfeiting /\ calls' = calls
      /\ fetch' = fetch
  BY DEF Pair, view
<1>3. \A n \in Matches : Formed(n) => n # m /\ server'[n] = server[n] /\ Formed(n)'
  BY <1>1 DEF Pair, Formed
<1>4. \A v \in Views : id[v] # None => id[v] \in Matches /\ Formed(id[v])
  BY InvParts DEF ViewOK, Typed
<1>5. (\A u \in Views : ViewOK(u)') /\ ProviderOK'
  <2>1. Later
    BY <1>3 DEF Later
  <2> QED
    BY <2>1, <1>2, <1>3, <1>4, OneViewStays DEF Views
<1>6. Typed' /\ ForfeitIsPending'
  BY <1>1, <1>2, InvParts DEF Pair, view, Typed, ForfeitIsPending
<1>7. QueueOK'
  BY <1>1, <1>2, InvParts, EmptyIs DEF Pair, QueueOK, Formed, Typed
<1>8. ServerOK'
  <2>1. \A n \in Matches : server'[n].match \in {None, n} /\ (server'[n].aborted => server'[n].winner = None)
    BY <1>1, EmptyIs, InvParts DEF ServerOK
  <2>2. \A c \in calls : Formed(c.match)'
    BY <1>3, InvParts DEF ServerOK, Typed, Calls
  <2>3. "page" \in Views
    BY DEF Views
  <2>4. fetch.pc = "answered" => TrueOf(fetch.state, server[id["page"]])'
    BY <1>2, <1>3, <1>4, <2>3, InvParts DEF ServerOK, TrueOf
  <2> QED
    BY <1>2, <2>1, <2>2, <2>4, InvParts DEF ServerOK
<1> QED
  BY <1>5, <1>6, <1>7, <1>8 DEF ClientInv

-----------------------------------------------------------------------------
(* The sockets *)

LEMMA TailIs ==
  ASSUME NEW S, NEW s \in Seq(S), s # <<>>
  PROVE  /\ Len(s) \in Nat /\ Len(s) >= 1 /\ Head(s) = s[1] /\ s[1] \in S
         /\ Tail(s) \in Seq(S) /\ Len(Tail(s)) = Len(s) - 1
         /\ \A i \in 1..Len(Tail(s)) : Tail(s)[i] = s[i + 1] /\ i + 1 \in 1..Len(s)
OBVIOUS

LEMMA OneIs ==
  ASSUME NEW S, NEW x \in S
  PROVE  /\ <<x>> \in Seq(S) /\ Len(<<x>>) = 1 /\ <<x>>[1] = x /\ <<x>> # <<>>
         /\ <<>> \in Seq(S) /\ Len(<<>>) = 0
OBVIOUS

(* The socket of a view is another one, of the same match. *)
LEMMA SocketMoves ==
  ASSUME ClientInv, NEW v \in Views, NEW k \in Sockets, id[v] # None,
         id' = id, server' = server, socket' = [socket EXCEPT ![v] = k], state' \in [Views -> Metas],
         \A u \in Views \ {v} : state'[u] = state[u],
         Truthful(state'[v]), SnapshotDue(k, state'[v].match, server[id[v]]),
         \A i \in 1..Len(k.inbox) : Carries(k.inbox[i], server[id[v]]),
         Len(k.inbox) <= Room(server[id[v]]),
         Ordered(k.inbox),
         k.inbox # <<>> => k.phase = "connected",
         k.phase = "closed" => Decided(server[id[v]]),
         v = "provider" =>
           /\ state'[v].match = id[v]
           /\ k.phase = "connected" /\ server[id[v]].winner # None
                => WinnerDue(k.inbox, state'[v].winner, server[id[v]])
           /\ k.phase = "closed" => state'[v].winner = server[id[v]].winner
  PROVE  /\ socket' \in [Views -> Sockets]
         /\ (\A u \in Views : ViewOK(u)') /\ ProviderOK'
<1>1. /\ socket' \in [Views -> Sockets] /\ socket'[v] = k
      /\ \A u \in Views \ {v} : socket'[u] = socket[u]
  BY InvParts DEF Typed
<1>2. /\ Formed(id[v])' = Formed(id[v]) /\ Decided(server[id[v]])' = Decided(server[id[v]])
      /\ Room(server[id[v]])' = Room(server[id[v]])
      /\ Truthful(state[v])' = Truthful(state'[v])
      /\ SnapshotDue(socket[v], state[v].match, server[id[v]])'
           = SnapshotDue(k, state'[v].match, server[id[v]])
      /\ Ordered(socket[v].inbox)' = Ordered(k.inbox)
      /\ \A i : Carries(socket[v].inbox[i], server[id[v]])' = Carries(k.inbox[i], server[id[v]])
      /\ WinnerDue(socket[v].inbox, state[v].winner, server[id[v]])'
           = WinnerDue(k.inbox, state'[v].winner, server[id[v]])
  <2>1. /\ Formed(id[v])' = Formed(id[v]) /\ Decided(server[id[v]])' = Decided(server[id[v]])
        /\ Room(server[id[v]])' = Room(server[id[v]])
    BY DEF Formed, Decided, Room
  <2>2. /\ Truthful(state[v])' = Truthful(state'[v])
        /\ SnapshotDue(socket[v], state[v].match, server[id[v]])'
             = SnapshotDue(k, state'[v].match, server[id[v]])
    BY <1>1 DEF Truthful, TrueOf, SnapshotDue
  <2>3. Ordered(socket[v].inbox)' = Ordered(k.inbox)
    BY <1>1 DEF Ordered
  <2>4. \A i : Carries(socket[v].inbox[i], server[id[v]])' = Carries(k.inbox[i], server[id[v]])
    BY <1>1 DEF Carries, TrueOf, Decided
  <2>5. WinnerDue(socket[v].inbox, state[v].winner, server[id[v]])'
          = WinnerDue(k.inbox, state'[v].winner, server[id[v]])
    BY <1>1 DEF WinnerDue
  <2> QED
    BY <2>1, <2>2, <2>3, <2>4, <2>5
<1>3. ViewOK(v)
  BY InvParts
<1>4. ViewOK(v)'
  BY <1>1, <1>2, <1>3 DEF ViewOK
<1>5. ASSUME v = "provider" PROVE ProviderOK'
  BY <1>1, <1>2, <1>5 DEF ProviderOK
<1>6. \A u \in Views \ {v} : ViewOK(u)' /\ (u = "provider" => ProviderOK')
  BY <1>1, OneViewStays
<1> QED
  BY <1>1, <1>4, <1>5, <1>6 DEF Views

(* A socket in use is that of a view with a match. *)
LEMMA SocketInUse ==
  ASSUME ClientInv, NEW v \in Views, socket[v].phase # "idle" \/ socket[v].inbox # <<>>
  PROVE  /\ id[v] # None /\ id[v] \in Matches /\ Formed(id[v])
         /\ server[id[v]] \in Metas /\ server[id[v]].match = id[v]
         /\ state[v] \in Metas /\ socket[v] \in Sockets
BY InvParts, SocketsAre DEF ViewOK, Typed, Formed

LEMMA SocketFailsKeeps ==
  ASSUME ClientInv, NEW v \in Views, SocketFails(v)
  PROVE  ClientInv'
<1>1. id[v] # None /\ ViewOK(v) /\ (v = "provider" => ProviderOK)
  BY InvParts, SocketInUse DEF SocketFails
<1>2. PICK k \in Sockets : k.phase = "error" /\ k.inbox = <<>> /\ socket' = [socket EXCEPT ![v] = k]
  BY SocketsAre DEF SocketFails, Set, Sockets
<1>3. id' = id /\ server' = server /\ state' = state /\ state \in [Views -> Metas]
  BY InvParts DEF SocketFails, net, Typed
<1>4. /\ Ordered(k.inbox) /\ Len(k.inbox) <= Room(server[id[v]])
      /\ \A i \in 1..Len(k.inbox) : Carries(k.inbox[i], server[id[v]])
  <2>1. Len(k.inbox) = 0
    BY <1>2
  <2> QED
    BY <2>1 DEF Ordered, Room
<1>5. socket' \in [Views -> Sockets] /\ (\A u \in Views : ViewOK(u)') /\ ProviderOK'
  <2>1. /\ Truthful(state'[v]) /\ SnapshotDue(k, state'[v].match, server[id[v]])
        /\ v = "provider" => state'[v].match = id[v]
    BY <1>1, <1>2, <1>3 DEF ViewOK, ProviderOK, SnapshotDue
  <2> QED
    BY <2>1, <1>1, <1>2, <1>3, <1>4, SocketMoves
<1>6. Typed' /\ ForfeitIsPending'
  BY <1>3, <1>5, InvParts DEF SocketFails, session, net, Typed, ForfeitIsPending
<1>7. QueueOK' /\ ServerOK'
  BY <1>3, InvParts DEF SocketFails, session, net, QueueOK, ServerOK, Formed, TrueOf
<1> QED
  BY <1>5, <1>6, <1>7 DEF ClientInv

LEMMA SocketOpensKeeps ==
  ASSUME ClientInv, NEW v \in Views, SocketOpens(v)
  PROVE  ClientInv'
<1>1. /\ id[v] # None /\ id[v] \in Matches /\ server[id[v]] \in Metas /\ server[id[v]].match = id[v]
      /\ ViewOK(v) /\ (v = "provider" => ProviderOK)
  BY InvParts, SocketInUse DEF SocketOpens
<1>2. id' = id /\ server' = server /\ state' = state /\ state \in [Views -> Metas]
  BY InvParts DEF SocketOpens, net, Typed
<1>3. server[id[v]].aborted => server[id[v]].winner = None
  BY <1>1, InvParts DEF ServerOK
<1> DEFINE x == [type |-> "state", meta |-> server[id[v]]]
           in == IF server[id[v]].aborted THEN <<>> ELSE <<x>>
           k == [phase |-> "connected", inbox |-> in]
<1>4. x \in Messages /\ x.type = "state" /\ x.meta = server[id[v]]
  BY <1>1 DEF Messages
<1>5. Carries(x, server[id[v]])
  BY <1>1, <1>4 DEF Carries, TrueOf
<1> HIDE DEF x
<1>6. /\ in \in Seq(Messages)
      /\ in # <<>> => Len(in) = 1 /\ in[1] = x
      /\ in = <<>> => Len(in) = 0 /\ server[id[v]].winner = None
  <2>1. CASE server[id[v]].aborted
    BY <2>1, <1>3, <1>4, OneIs
  <2>2. CASE ~server[id[v]].aborted
    <3>1. in = <<x>>
      BY <2>2
    <3> HIDE DEF in
    <3> QED
      BY <3>1, <1>4, OneIs
  <2> QED
    BY <2>1, <2>2
<1>7. socket' = [socket EXCEPT ![v] = k]
  BY DEF SocketOpens, Set, x
<1> HIDE DEF in
<1>8. k \in Sockets /\ k.phase = "connected" /\ k.inbox = in
  BY <1>6 DEF Sockets
<1> HIDE DEF k
<1>9. (\A i \in 1..Len(in) : Carries(in[i], server[id[v]])) /\ Ordered(in) /\ Len(in) <= Room(server[id[v]])
  <2>1. Len(in) \in {0, 1} /\ \A i \in 1..Len(in) : i = 1 /\ Len(in) = 1 /\ in[i] = x
    BY <1>6
  <2>2. Len(in) <= Room(server[id[v]])
    BY <2>1 DEF Room
  <2> QED
    BY <2>1, <2>2, <1>4, <1>5 DEF Ordered
<1>10. server[id[v]].winner # None => WinnerDue(in, state[v].winner, server[id[v]])
  BY <1>4, <1>6 DEF WinnerDue
<1>11. socket' \in [Views -> Sockets] /\ (\A u \in Views : ViewOK(u)') /\ ProviderOK'
  <2>1. /\ Truthful(state'[v])
        /\ v = "provider" => state'[v].match = id[v]
    BY <1>1, <1>2 DEF ViewOK, ProviderOK
  <2>2. SnapshotDue(k, state'[v].match, server[id[v]])
    BY <1>4, <1>6, <1>8 DEF SnapshotDue, in
  <2> QED
    BY <2>1, <2>2, <1>1, <1>2, <1>7, <1>8, <1>9, <1>10, SocketMoves
<1>12. Typed' /\ ForfeitIsPending'
  BY <1>2, <1>11, InvParts DEF SocketOpens, session, net, Typed, ForfeitIsPending
<1>13. QueueOK' /\ ServerOK'
  BY <1>2, InvParts DEF SocketOpens, session, net, QueueOK, ServerOK, Formed, TrueOf
<1> QED
  BY <1>11, <1>12, <1>13 DEF ClientInv

(* What a message leaves a view with. *)
LEMMA ApplyIs ==
  ASSUME NEW s \in Metas, NEW x \in Messages, NEW r, Carries(x, r), x.type # "close",
         s.match = r.match => TrueOf(s, r)
  PROVE  /\ Apply(s, x) \in Metas
         /\ Apply(s, x).match = r.match => TrueOf(Apply(s, x), r)
         /\ Apply(s, x).match # r.match => Apply(s, x) = s
         /\ s.match = r.match \/ x.type = "state" => Apply(s, x).match = r.match
         /\ x.type = "state" => Apply(s, x).winner = x.meta.winner
         /\ s.match = r.match /\ x.type = "result" => Apply(s, x).winner = r.winner
         /\ x.type \in {"ready", "aborted"} => Apply(s, x).winner = s.winner
<1>1. x.meta \in Metas /\ x.type \in {"state", "ready", "result", "aborted"} /\ x.meta.match = r.match
      /\ TrueOf(x.meta, r)
  BY DEF Messages, Carries, TrueOf
<1>2. CASE x.type = "state"
  <2>1. Apply(s, x) = x.meta
    BY <1>2 DEF Apply
  <2> QED
    BY <2>1, <1>1, <1>2
<1>3. CASE x.type # "state" /\ s.match # r.match
  <2>1. Apply(s, x) = s
    BY <1>1, <1>3 DEF Apply
  <2> QED
    BY <2>1, <1>1, <1>3
<1>4. CASE x.type = "ready" /\ s.match = r.match
  <2>1. Apply(s, x) = [s EXCEPT !.ready = TRUE]
    BY <1>1, <1>4 DEF Apply
  <2> QED
    BY <2>1, <1>4 DEF Metas, TrueOf, Carries
<1>5. CASE x.type = "aborted" /\ s.match = r.match
  <2>1. Apply(s, x) = [s EXCEPT !.aborted = TRUE]
    BY <1>1, <1>5 DEF Apply
  <2> QED
    BY <2>1, <1>5 DEF Metas, TrueOf, Carries
<1>6. CASE x.type = "result" /\ s.match = r.match
  <2>1. Apply(s, x) = [s EXCEPT !.winner = x.meta.winner]
    BY <1>1, <1>6 DEF Apply
  <2> QED
    BY <2>1, <1>1, <1>6 DEF Metas, TrueOf, Carries
<1> QED
  BY <1>1, <1>2, <1>3, <1>4, <1>5, <1>6

LEMMA ReceiveKeeps ==
  ASSUME ClientInv, NEW v \in Views, Receive(v)
  PROVE  ClientInv'
<1> DEFINE in == socket[v].inbox
           x == in[1]
<1>1. /\ id[v] # None /\ state[v] \in Metas /\ socket[v] \in Sockets
      /\ server[id[v]].match = id[v]
      /\ in # <<>> /\ in \in Seq(Messages) /\ socket[v].phase = "connected"
      /\ ViewOK(v) /\ (v = "provider" => ProviderOK)
  BY InvParts, SocketInUse DEF Receive, ViewOK, Sockets
<1>2. id' = id /\ server' = server /\ state \in [Views -> Metas] /\ socket \in [Views -> Sockets]
      /\ forfeiting' = forfeiting /\ calls' = calls /\ fetch' = fetch
  BY InvParts DEF Receive, net, Typed
<1>3. /\ Len(in) \in Nat /\ Len(in) >= 1 /\ Head(in) = x /\ x \in Messages
      /\ Tail(in) \in Seq(Messages) /\ Len(Tail(in)) = Len(in) - 1
      /\ \A i \in 1..Len(Tail(in)) : Tail(in)[i] = in[i + 1] /\ i + 1 \in 1..Len(in)
  BY <1>1, TailIs
<1>4. /\ \A i \in 1..Len(in) : Carries(in[i], server[id[v]])
      /\ Len(in) <= Room(server[id[v]]) /\ Ordered(in)
      /\ Truthful(state[v]) /\ SnapshotDue(socket[v], state[v].match, server[id[v]])
      /\ state[v].match = id[v] => TrueOf(state[v], server[id[v]])
  BY <1>1 DEF ViewOK, Truthful
<1>5. Carries(x, server[id[v]]) /\ 1 \in 1..Len(in)
  BY <1>3, <1>4
<1>6. /\ x.type = "close" => Len(in) = 1
      /\ \A i \in 1..Len(in) : in[i].type = "state" => i = 1
      /\ \A i \in 1..Len(in) : in[i].type = "close" => i = Len(in)
  BY <1>4, <1>5 DEF Ordered
<1>7. v = "provider" => /\ state[v].match = id[v]
                        /\ server[id[v]].winner # None => WinnerDue(in, state[v].winner, server[id[v]])
  BY <1>1 DEF ProviderOK
<1>8. Receive(v) =>
        /\ x.type = "close" =>
             /\ socket' = [socket EXCEPT ![v] = [NoSocket EXCEPT !.phase = "closed"]]
             /\ state' = state
        /\ x.type # "close" =>
             /\ socket' = [socket EXCEPT ![v] = [socket[v] EXCEPT !.inbox = Tail(in)]]
             /\ state' = [state EXCEPT ![v] = Apply(state[v], x)]
  BY <1>2, <1>3 DEF Receive, Set
<1>9. socket' \in [Views -> Sockets] /\ state' \in [Views -> Metas]
      /\ (\A u \in Views : ViewOK(u)') /\ ProviderOK'
  <2>1. CASE x.type = "close"
    <3>1. PICK k \in Sockets : k.phase = "closed" /\ k.inbox = <<>> /\ socket' = [socket EXCEPT ![v] = k]
      BY <2>1, <1>8, SocketsAre DEF Sockets
    <3>2. Len(k.inbox) = 0
      BY <3>1
    <3>3. /\ Ordered(k.inbox) /\ Len(k.inbox) <= Room(server[id[v]])
          /\ \A i \in 1..Len(k.inbox) : Carries(k.inbox[i], server[id[v]])
      BY <3>2 DEF Ordered, Room
    <3>4. Decided(server[id[v]])
      BY <2>1, <1>5 DEF Carries
    <3>5. v = "provider" => state[v].winner = server[id[v]].winner
      <4>1. server[id[v]].winner = None /\ v = "provider" => state[v].winner = None
        BY <1>1, <1>4, <1>7 DEF TrueOf
      <4>2. WinnerDue(in, state[v].winner, server[id[v]]) => state[v].winner = server[id[v]].winner
        BY <2>1, <1>6 DEF WinnerDue
      <4> QED
        BY <4>1, <4>2, <1>7
    <3>6. state' = state
      BY <2>1, <1>8
    <3>7. SnapshotDue(k, state[v].match, server[id[v]])
      BY <2>1, <3>1, <1>1, <1>4 DEF SnapshotDue
    <3> QED
      BY <3>1, <3>3, <3>4, <3>5, <3>6, <3>7, <1>1, <1>2, <1>4, <1>7, SocketMoves
  <2>2. CASE x.type # "close"
    <3> DEFINE s == Apply(state[v], x)
               k == [socket[v] EXCEPT !.inbox = Tail(in)]
    <3>1. /\ s \in Metas
          /\ s.match = id[v] => TrueOf(s, server[id[v]])
          /\ s.match # id[v] => s = state[v]
          /\ state[v].match = id[v] \/ x.type = "state" => s.match = id[v]
          /\ x.type = "state" => s.winner = x.meta.winner
          /\ state[v].match = id[v] /\ x.type = "result" => s.winner = server[id[v]].winner
          /\ x.type \in {"ready", "aborted"} => s.winner = state[v].winner
      BY <2>2, <1>1, <1>3, <1>4, <1>5, ApplyIs
    <3>2. k \in Sockets /\ k.phase = "connected" /\ k.inbox = Tail(in)
      BY <1>1, <1>3 DEF Sockets
    <3>3. socket' = [socket EXCEPT ![v] = k] /\ state' = [state EXCEPT ![v] = s]
      BY <2>2, <1>8
    <3> HIDE DEF s, k, in, x
    <3>4. /\ \A i \in 1..Len(k.inbox) : Carries(k.inbox[i], server[id[v]])
          /\ Len(k.inbox) <= Room(server[id[v]])
      <4>1. Len(in) - 1 <= Room(server[id[v]])
        BY <1>3, <1>4 DEF Room
      <4> QED
        BY <4>1, <3>2, <1>3, <1>4
    <3>5. Ordered(Tail(in)) /\ (Tail(in) # <<>> => Tail(in)[1].type # "state")
      <4>1. \A i \in 1..Len(Tail(in)) : /\ Tail(in)[i].type # "state"
                                        /\ Tail(in)[i].type = "close" => i = Len(Tail(in))
        <5> TAKE i \in 1..Len(Tail(in))
        <5>1. Tail(in)[i] = in[i + 1] /\ i + 1 \in 1..Len(in)
          BY <1>3
        <5>2. i + 1 # 1 /\ (i + 1 = Len(in) => i = Len(Tail(in)))
          <6>1. Len(in) \in Nat /\ Len(Tail(in)) = Len(in) - 1
            BY <1>3
          <6>2. i \in Nat /\ i >= 1
            BY <6>1
          <6> QED
            BY <6>1, <6>2
        <5>3. in[i + 1].type # "state" /\ (in[i + 1].type = "close" => i + 1 = Len(in))
          BY <5>1, <5>2, <1>6
        <5> QED
          BY <5>1, <5>2, <5>3
      <4>2. Tail(in) # <<>> => 1 \in 1..Len(Tail(in))
        BY <1>3, TailIs
      <4> QED
        BY <4>1, <4>2 DEF Ordered
    <3>6. ASSUME v = "provider", server[id[v]].winner # None
          PROVE  WinnerDue(Tail(in), s.winner, server[id[v]])
      <4>1. WinnerDue(in, state[v].winner, server[id[v]]) /\ state[v].match = id[v]
        BY <3>6, <1>7
      <4>2. CASE \E i \in 1..Len(in) : i # 1 /\ in[i].type = "result"
        <5>1. PICK i \in 1..Len(in) : i # 1 /\ in[i].type = "result"
          BY <4>2
        <5>2. i - 1 \in 1..Len(Tail(in)) /\ Tail(in)[i - 1] = in[i]
          BY <5>1, <1>3
        <5> QED
          BY <5>1, <5>2 DEF WinnerDue
      <4>3. CASE in[1].type = "result"
        BY <4>1, <4>3, <3>1, <3>5 DEF WinnerDue, x
      <4>4. CASE in[1].type = "state" /\ in[1].meta.winner = server[id[v]].winner
        BY <4>4, <3>1, <3>5 DEF WinnerDue, x
      <4>5. CASE state[v].winner = server[id[v]].winner /\ in[1].type \in {"ready", "aborted"}
        BY <4>5, <3>1, <3>5 DEF WinnerDue, x
      <4>6. in[1].type \in {"state", "ready", "result", "aborted"}
        BY <2>2, <1>3 DEF Messages, x
      <4> QED
        BY <4>1, <4>2, <4>3, <4>4, <4>5, <4>6, <1>1 DEF WinnerDue, in
    <3>7. /\ state' \in [Views -> Metas] /\ state'[v] = s
          /\ \A u \in Views \ {v} : state'[u] = state[u]
      BY <3>1, <3>3, <1>2
    <3>8. Truthful(s)
      BY <3>1, <1>4 DEF Truthful
    <3>9. SnapshotDue(k, s.match, server[id[v]])
      BY <3>1, <1>1, <1>4 DEF SnapshotDue, in, x
    <3>10. /\ Ordered(k.inbox) /\ Truthful(state'[v]) /\ SnapshotDue(k, state'[v].match, server[id[v]])
           /\ k.phase = "connected"
      BY <3>2, <3>5, <3>7, <3>8, <3>9
    <3>11. v = "provider" =>
             /\ state'[v].match = id[v]
             /\ server[id[v]].winner # None => WinnerDue(k.inbox, state'[v].winner, server[id[v]])
      BY <3>1, <3>2, <3>6, <3>7, <1>7
    <3> QED
      BY <3>2, <3>3, <3>4, <3>7, <3>10, <3>11, <1>1, <1>2, SocketMoves
  <2> QED
    BY <2>1, <2>2
<1>10. Typed' /\ ForfeitIsPending'
  BY <1>2, <1>9, InvParts DEF Receive, session, net, Typed, ForfeitIsPending
<1>11. QueueOK' /\ ServerOK'
  BY <1>2, InvParts DEF Receive, session, net, QueueOK, ServerOK, Formed, TrueOf
<1> QED
  BY <1>9, <1>10, <1>11 DEF ClientInv

-----------------------------------------------------------------------------
(* The Match object *)

LEMMA ConcatIs ==
  ASSUME NEW S, NEW s \in Seq(S), NEW t \in Seq(S)
  PROVE  /\ Len(s) \in Nat /\ Len(t) \in Nat
         /\ s \o t \in Seq(S) /\ Len(s \o t) = Len(s) + Len(t)
         /\ \A i \in 1..Len(s \o t) :
              (s \o t)[i] = IF i <= Len(s) THEN s[i] ELSE t[i - Len(s)]
OBVIOUS

LEMMA TwoIs ==
  ASSUME NEW S, NEW x \in S, NEW y \in S
  PROVE  /\ <<x, y>> \in Seq(S) /\ Len(<<x, y>>) = 2 /\ <<x, y>>[1] = x /\ <<x, y>>[2] = y
         /\ 1..Len(<<x, y>>) = {1, 2}
OBVIOUS

(* A match that is not over is decided, aborted or gets its server: what    *)
(* has been said of it and of others stays true.                            *)
Grows(m, s) ==
  /\ Formed(m) /\ ~Decided(server[m])
  /\ s \in Metas /\ s.match = m /\ (server[m].ready => s.ready)
  /\ s.aborted => s.winner = None
  /\ server' = [server EXCEPT ![m] = s]

LEMMA TruthGrows ==
  ASSUME ClientInv, NEW m \in Matches, NEW s, Grows(m, s), NEW n \in Matches
  PROVE  /\ server' \in [Matches -> Metas] /\ server'[m] = s
         /\ n # m => server'[n] = server[n]
         /\ Formed(n) => Formed(n)'
         /\ \A x : TrueOf(x, server[n]) => TrueOf(x, server'[n])
         /\ \A x : Carries(x, server[n]) => Carries(x, server'[n])
         /\ server'[n].match \in {None, n} /\ (server'[n].aborted => server'[n].winner = None)
<1>1. /\ server' \in [Matches -> Metas] /\ server'[m] = s /\ (n # m => server'[n] = server[n])
      /\ server[m].winner = None /\ ~server[m].aborted /\ server[m].match = m
  BY InvParts DEF Grows, Typed, Decided, Formed
<1>2. CASE n = m
  BY <1>1, <1>2 DEF Grows, Formed, TrueOf, Carries, Decided
<1>3. CASE n # m
  BY <1>1, <1>3, InvParts DEF Grows, Formed, TrueOf, Carries, Decided, ServerOK
<1> QED
  BY <1>1, <1>2, <1>3

(* What is sent of the change: no snapshot, the close at the end, and the   *)
(* result if there is a winner now.                                         *)
LEMMA BroadcastViews ==
  ASSUME ClientInv, NEW m \in Matches, NEW s, Grows(m, s), NEW messages \in Seq(Messages),
         Broadcast(m, messages), id' = id, state' = state,
         Room(server[m]) + Len(messages) <= Room(s),
         \A i \in 1..Len(messages) : /\ Carries(messages[i], s)
                                     /\ messages[i].type # "state"
                                     /\ messages[i].type = "close" => i = Len(messages),
         s.winner # None => \E i \in 1..Len(messages) : messages[i].type = "result"
  PROVE  /\ socket' \in [Views -> Sockets]
         /\ (\A u \in Views : ViewOK(u)') /\ ProviderOK'
<1>1. /\ socket \in [Views -> Sockets] /\ id \in [Views -> Matches \cup {None}]
      /\ ~Decided(server[m]) /\ server'[m] = s
  BY InvParts, TruthGrows DEF Typed, Grows
<1> Later
  BY TruthGrows DEF Later
<1>2. \A v \in Views :
        socket'[v] = IF id[v] = m /\ socket[v].phase = "connected"
                     THEN [socket[v] EXCEPT !.inbox = @ \o messages] ELSE socket[v]
  BY DEF Broadcast
<1>3. ASSUME NEW v \in Views, id[v] # m
      PROVE  socket'[v] = socket[v] /\ ViewOK(v)' /\ (v = "provider" => ProviderOK')
  <2>1. socket'[v] = socket[v]
    BY <1>2, <1>3
  <2>2. id[v] # None => server'[id[v]] = server[id[v]]
    BY <1>1, <1>3, TruthGrows
  <2> QED
    BY <2>1, <2>2, OneViewStays
<1>4. ASSUME NEW v \in Views, id[v] = m, socket[v].phase # "connected"
      PROVE  socket'[v] = socket[v] /\ ViewOK(v)' /\ (v = "provider" => ProviderOK')
  <2>1. socket'[v] = socket[v] /\ ViewOK(v) /\ (v = "provider" => ProviderOK) /\ m # None
    BY <1>2, <1>4, InvParts, ClientAssumption
  <2>2. socket[v].inbox = <<>> /\ socket[v].phase # "closed" /\ Len(<<>>) = 0
    BY <2>1, <1>1, <1>4 DEF ViewOK
  <2>3. Formed(m)' /\ Truthful(state[v])'
    <3>1. Formed(m)
      BY <2>1, <1>4 DEF ViewOK
    <3> QED
      BY <3>1, TruthGrows, TruthStays
  <2>4. Len(socket'[v].inbox) <= Room(s) /\ Ordered(socket'[v].inbox)
        /\ \A i \in 1..Len(socket'[v].inbox) : Carries(socket'[v].inbox[i], s)
    BY <2>1, <2>2 DEF Room, Ordered
  <2>5. Ordered(socket[v].inbox)' /\ id'[v] = m
        /\ SnapshotDue(socket[v], state[v].match, server[id[v]])'
        /\ Room(server[id[v]])' = Room(s) /\ Formed(id[v])' = Formed(m)'
    BY <2>1, <2>2, <2>4, <1>1, <1>4 DEF Ordered, Formed, SnapshotDue
  <2>6. ViewOK(v)'
    BY <2>1, <2>2, <2>3, <2>4, <2>5 DEF ViewOK
  <2>7. ASSUME v = "provider" PROVE ProviderOK'
    BY <2>1, <2>2, <2>7, <1>4 DEF ProviderOK
  <2> QED
    BY <2>1, <2>6, <2>7
<1>5. ASSUME NEW v \in Views, id[v] = m, socket[v].phase = "connected"
      PROVE  socket'[v] \in Sockets /\ ViewOK(v)' /\ (v = "provider" => ProviderOK')
  <2> DEFINE in == socket[v].inbox
             k == [socket[v] EXCEPT !.inbox = in \o messages]
  <2>1. /\ socket'[v] = k /\ m # None
        /\ ViewOK(v) /\ (v = "provider" => ProviderOK) /\ in \in Seq(Messages)
    BY <1>1, <1>2, <1>5, InvParts, ClientAssumption DEF Sockets
  <2>2. /\ Len(in) \in Nat /\ Len(messages) \in Nat
        /\ in \o messages \in Seq(Messages) /\ Len(in \o messages) = Len(in) + Len(messages)
        /\ \A i \in 1..Len(in \o messages) :
             (in \o messages)[i] = IF i <= Len(in) THEN in[i] ELSE messages[i - Len(in)]
    BY <2>1, ConcatIs
  <2>3. k \in Sockets /\ k.phase = "connected" /\ k.inbox = in \o messages
    BY <2>2, <1>1, <1>5 DEF Sockets
  <2>4. /\ \A i \in 1..Len(in) : Carries(in[i], server[m]) /\ in[i].type # "close"
        /\ Ordered(in) /\ Len(in) <= Room(server[m])
    BY <2>1, <1>1, <1>5 DEF ViewOK, Carries
  <2> HIDE DEF k, in
  <2>5. \A i \in 1..Len(k.inbox) :
          \/ i \in 1..Len(in) /\ k.inbox[i] = in[i]
          \/ i - Len(in) \in 1..Len(messages) /\ k.inbox[i] = messages[i - Len(in)] /\ i > Len(in)
    BY <2>2, <2>3
  <2>6. \A i \in 1..Len(k.inbox) : Carries(k.inbox[i], s)
    <3>1. \A x : Carries(x, server[m]) => Carries(x, s)
      BY <1>1, TruthGrows
    <3> QED
      BY <3>1, <2>4, <2>5
  <2>7. Ordered(k.inbox)
    <3> SUFFICES ASSUME NEW i \in 1..Len(k.inbox)
                 PROVE  /\ k.inbox[i].type = "state" => i = 1
                        /\ k.inbox[i].type = "close" => i = Len(k.inbox)
      BY DEF Ordered
    <3>1. CASE i \in 1..Len(in) /\ k.inbox[i] = in[i]
      BY <3>1, <2>4 DEF Ordered
    <3>2. CASE i - Len(in) \in 1..Len(messages) /\ k.inbox[i] = messages[i - Len(in)]
      BY <3>2, <2>2, <2>3
    <3> QED
      BY <3>1, <3>2, <2>5
  <2>8. Len(k.inbox) <= Room(s)
    <3>1. Room(server[m]) \in Nat /\ Room(s) \in Nat
      BY DEF Room
    <3> QED
      BY <3>1, <2>2, <2>3, <2>4
  <2>9. /\ Formed(m)' /\ Truthful(state[v])'
        /\ SnapshotDue(k, state[v].match, s)
    <3>1. /\ Formed(m) /\ server[m].match = m /\ ~server[m].aborted
          /\ SnapshotDue(socket[v], state[v].match, server[m])
      BY <2>1, <1>1, <1>5 DEF ViewOK, Formed, Decided
    <3>2. state[v].match = m \/ (in # <<>> /\ in[1].type = "state")
      BY <3>1, <1>5 DEF SnapshotDue, in
    <3>3. in # <<>> => k.inbox # <<>> /\ k.inbox[1] = in[1]
      <4>1. in # <<>> => 1 <= Len(in) /\ 1 \in 1..Len(k.inbox)
        BY <2>1, <2>2, <2>3
      <4> QED
        BY <4>1, <2>2, <2>3
    <3>4. s.match = m
      BY DEF Grows
    <3> QED
      BY <3>1, <3>2, <3>3, <3>4, TruthGrows, TruthStays DEF SnapshotDue
  <2>10. /\ id'[v] = m /\ (SnapshotDue(socket[v], state[v].match, server[id[v]])' = SnapshotDue(k, state[v].match, s))
         /\ Room(server[id[v]])' = Room(s) /\ Formed(id[v])' = Formed(m)'
         /\ Ordered(socket[v].inbox)' = Ordered(k.inbox)
         /\ \A i : Carries(socket[v].inbox[i], server[id[v]])' = Carries(k.inbox[i], s)
    BY <2>1, <1>1, <1>5 DEF Ordered, Formed, SnapshotDue
  <2>11. ViewOK(v)'
    BY <2>1, <2>3, <2>6, <2>7, <2>8, <2>9, <2>10 DEF ViewOK
  <2>12. ASSUME v = "provider" PROVE ProviderOK'
    <3>1. state[v].match = m /\ state' = state
      BY <2>1, <2>12, <1>5 DEF ProviderOK
    <3>2. ASSUME s.winner # None PROVE WinnerDue(k.inbox, state[v].winner, s)
      <4>1. PICK i \in 1..Len(messages) : messages[i].type = "result"
        BY <3>2, <1>1
      <4>2. i + Len(in) \in 1..Len(k.inbox)
        BY <2>2, <2>3
      <4>3. k.inbox[i + Len(in)] = messages[i]
        BY <4>2, <2>2, <2>3
      <4> QED
        BY <4>1, <4>2, <4>3 DEF WinnerDue
    <3> QED
      BY <3>1, <3>2, <2>1, <2>3, <2>12, <1>1, <1>5 DEF ProviderOK
  <2> QED
    BY <2>1, <2>3, <2>11, <2>12
<1>6. \A v \in Views : socket'[v] \in Sockets /\ ViewOK(v)' /\ (v = "provider" => ProviderOK')
  BY <1>1, <1>3, <1>4, <1>5
<1>7. socket' = [v \in Views |-> socket'[v]]
  BY DEF Broadcast
<1> QED
  BY <1>6, <1>7 DEF Views

LEMMA OthersGrow ==
  ASSUME ClientInv, NEW m \in Matches, NEW s, Grows(m, s), session' = session, id' = id,
         fetch' = fetch, calls' \subseteq Calls,
         \A d \in calls' : \E c \in calls : d.match = c.match
  PROVE  QueueOK' /\ ServerOK'
<1>1. QueueOK /\ ServerOK /\ Typed
  BY InvParts
<1>2. \A n \in Matches : Formed(n) => Formed(n)'
  BY TruthGrows
<1>3. QueueOK'
  BY <1>1, <1>2 DEF session, QueueOK, Typed
<1>4. \A d \in calls' : Formed(d.match)'
  BY <1>1, <1>2 DEF ServerOK, Calls
<1>5. fetch.pc = "answered" => TrueOf(fetch.state, server'[id["page"]])
  <2>1. "page" \in Views
    BY DEF Views
  <2> QED
    BY <2>1, <1>1, TruthGrows DEF ServerOK, Typed
<1>6. \A n \in Matches : /\ server'[n].match \in {None, n}
                         /\ server'[n].aborted => server'[n].winner = None
  BY TruthGrows
<1> QED
  BY <1>1, <1>3, <1>4, <1>5, <1>6 DEF ServerOK

(* What the object does to its meta. *)
LEMMA MetaReady ==
  ASSUME NEW a \in Metas
  PROVE  \E s \in Metas : s = [a EXCEPT !.ready = TRUE] /\ s.ready = TRUE
                         /\ s.match = a.match /\ s.winner = a.winner /\ s.aborted = a.aborted
<1>1. [a EXCEPT !.ready = TRUE] \in Metas
  BY DEF Metas, Winners
<1>2. /\ [a EXCEPT !.ready = TRUE].ready = TRUE
      /\ [a EXCEPT !.ready = TRUE].match = a.match
      /\ [a EXCEPT !.ready = TRUE].winner = a.winner
      /\ [a EXCEPT !.ready = TRUE].aborted = a.aborted
  BY DEF Metas
<1> QED
  BY <1>1, <1>2, Zenon

LEMMA MetaAborted ==
  ASSUME NEW a \in Metas
  PROVE  \E s \in Metas : s = [a EXCEPT !.aborted = TRUE] /\ s.aborted = TRUE
                         /\ s.match = a.match /\ s.ready = a.ready /\ s.winner = a.winner
<1>1. [a EXCEPT !.aborted = TRUE] \in Metas
  BY DEF Metas, Winners
<1>2. /\ [a EXCEPT !.aborted = TRUE].aborted = TRUE
      /\ [a EXCEPT !.aborted = TRUE].match = a.match
      /\ [a EXCEPT !.aborted = TRUE].ready = a.ready
      /\ [a EXCEPT !.aborted = TRUE].winner = a.winner
  BY DEF Metas
<1> QED
  BY <1>1, <1>2, Zenon

LEMMA MetaWon ==
  ASSUME NEW a \in Metas, NEW w \in Winners
  PROVE  \E s \in Metas : s = [a EXCEPT !.winner = w] /\ s.winner = w
                         /\ s.match = a.match /\ s.ready = a.ready /\ s.aborted = a.aborted
<1>1. [a EXCEPT !.winner = w] \in Metas
  BY DEF Metas, Winners
<1>2. /\ [a EXCEPT !.winner = w].winner = w
      /\ [a EXCEPT !.winner = w].match = a.match
      /\ [a EXCEPT !.winner = w].ready = a.ready
      /\ [a EXCEPT !.winner = w].aborted = a.aborted
  BY DEF Metas
<1> QED
  BY <1>1, <1>2, Zenon

LEMMA ReadyKeeps ==
  ASSUME ClientInv, NEW m \in Matches, Ready(m)
  PROVE  ClientInv'
<1>1. server \in [Matches -> Metas] /\ server[m] \in Metas
  BY InvParts DEF Typed
<1>2. PICK s \in Metas : /\ s = [server[m] EXCEPT !.ready = TRUE]
                         /\ s.match = server[m].match /\ s.ready = TRUE
                         /\ s.winner = server[m].winner /\ s.aborted = server[m].aborted
  BY <1>1, MetaReady
<1>3. server' = [server EXCEPT ![m] = s] /\ server'[m] = s
  BY <1>1, <1>2 DEF Ready
<1>4. /\ ~Decided(server[m]) /\ server[m].match = m /\ ~server[m].ready
      /\ Grows(m, s) /\ ~Decided(s)
  BY <1>2, <1>3 DEF Ready, Over, Decided, Formed, Grows
<1>5. PICK x \in Messages : x.type = "ready" /\ x.meta = s /\ x = [type |-> "ready", meta |-> server'[m]]
  BY <1>2, <1>3 DEF Messages
<1>6. Broadcast(m, <<x>>)
  BY <1>5 DEF Ready
<1>7. <<x>> \in Seq(Messages) /\ Len(<<x>>) = 1 /\ <<x>>[1] = x
  BY OneIs
<1>8. Room(server[m]) + 1 <= Room(s)
  BY <1>2, <1>4 DEF Room
<1>9. Carries(x, s) /\ s.winner = None
  BY <1>2, <1>4, <1>5 DEF Carries, TrueOf, Decided
<1>10. /\ id' = id /\ state' = state /\ session' = session /\ forfeiting' = forfeiting /\ calls' = calls
       /\ fetch' = fetch /\ fails' = fails
  BY DEF Ready
<1>11. \A i \in 1..Len(<<x>>) : /\ Carries(<<x>>[i], s) /\ <<x>>[i].type # "state"
                                /\ <<x>>[i].type = "close" => i = Len(<<x>>)
  BY <1>5, <1>7, <1>9
<1>12. socket' \in [Views -> Sockets] /\ (\A u \in Views : ViewOK(u)') /\ ProviderOK'
  BY <1>4, <1>6, <1>7, <1>8, <1>9, <1>10, <1>11, BroadcastViews
<1>13. QueueOK' /\ ServerOK'
  BY <1>4, <1>10, InvParts, OthersGrow DEF Typed
<1>14. Typed' /\ ForfeitIsPending'
  BY <1>4, <1>10, <1>12, InvParts, TruthGrows DEF session, Typed, ForfeitIsPending
<1> QED
  BY <1>12, <1>13, <1>14 DEF ClientInv

(* The end of a match: what is sent last but one says how it ended. *)
LEMMA EndViews ==
  ASSUME ClientInv, NEW m \in Matches, NEW s \in Metas, Grows(m, s), Decided(s),
         s.ready = server[m].ready,
         NEW x \in Messages, NEW y \in Messages, Broadcast(m, <<x, y>>), id' = id, state' = state,
         x.meta = s, y.meta = s, y.type = "close",
         \/ x.type = "result" /\ s.winner # None
         \/ x.type = "aborted" /\ s.winner = None /\ s.aborted
  PROVE  /\ socket' \in [Views -> Sockets]
         /\ (\A u \in Views : ViewOK(u)') /\ ProviderOK'
<1>1. /\ <<x, y>> \in Seq(Messages) /\ Len(<<x, y>>) = 2 /\ <<x, y>>[1] = x /\ <<x, y>>[2] = y
      /\ 1..Len(<<x, y>>) = {1, 2}
  BY TwoIs
<1>2. Carries(x, s) /\ Carries(y, s)
  BY DEF Carries, TrueOf
<1>3. Room(server[m]) + 2 <= Room(s)
  BY DEF Room, Grows, Over, Decided
<1>4. \A i \in 1..Len(<<x, y>>) : /\ Carries(<<x, y>>[i], s) /\ <<x, y>>[i].type # "state"
                                  /\ <<x, y>>[i].type = "close" => i = Len(<<x, y>>)
  BY <1>1, <1>2
<1>5. s.winner # None => \E i \in 1..Len(<<x, y>>) : <<x, y>>[i].type = "result"
  BY <1>1
<1>6. PICK messages \in Seq(Messages) : messages = <<x, y>>
  BY <1>1
<1>7. /\ Broadcast(m, messages) /\ Len(messages) = 2
      /\ s.winner # None => \E i \in 1..Len(messages) : messages[i].type = "result"
  BY <1>1, <1>5, <1>6
<1>8. \A i \in 1..Len(messages) : /\ Carries(messages[i], s)
                                  /\ messages[i].type # "state"
                                  /\ messages[i].type = "close" => i = Len(messages)
  BY <1>1, <1>4, <1>6
<1>9. Room(server[m]) + Len(messages) <= Room(s)
  BY <1>3, <1>7
<1> QED
  BY <1>6, <1>7, <1>8, <1>9, BroadcastViews

LEMMA DecideViews ==
  ASSUME ClientInv, NEW m \in Matches, NEW w \in {"me", "them"}, Formed(m), ~Over(m), Decide(m, w),
         id' = id, state' = state
  PROVE  /\ socket' \in [Views -> Sockets]
         /\ (\A u \in Views : ViewOK(u)') /\ ProviderOK'
         /\ \E s : Grows(m, s)
<1>1. server \in [Matches -> Metas] /\ server[m] \in Metas /\ w # None /\ w \in Winners
  BY InvParts, ClientAssumption DEF Typed, Winners
<1>2. PICK s \in Metas : /\ s = [server[m] EXCEPT !.winner = w]
                         /\ s.match = server[m].match /\ s.ready = server[m].ready
                         /\ s.winner = w /\ s.aborted = server[m].aborted
  BY <1>1, MetaWon
<1>3. server' = [server EXCEPT ![m] = s] /\ server'[m] = s
  BY <1>1, <1>2 DEF Decide
<1>4. Grows(m, s) /\ Decided(s)
  BY <1>1, <1>2, <1>3 DEF Over, Decided, Formed, Grows
<1>5. PICK x \in Messages : x.type = "result" /\ x.meta = s /\ x = [type |-> "result", meta |-> server'[m]]
  BY <1>2, <1>3 DEF Messages
<1>6. PICK y \in Messages : y.type = "close" /\ y.meta = s /\ y = [type |-> "close", meta |-> server'[m]]
  BY <1>2, <1>3 DEF Messages
<1>7. Broadcast(m, <<x, y>>)
  BY <1>5, <1>6 DEF Decide
<1> QED
  BY <1>1, <1>2, <1>4, <1>5, <1>6, <1>7, EndViews

LEMMA ClaimedKeeps ==
  ASSUME ClientInv, NEW m \in Matches, Claimed(m)
  PROVE  ClientInv'
<1>1. PICK w \in {"me", "them"} : Decide(m, w)
  BY DEF Claimed
<1>2. /\ id' = id /\ state' = state /\ session' = session /\ forfeiting' = forfeiting /\ calls' = calls
      /\ fetch' = fetch /\ fails' = fails /\ Formed(m) /\ ~Over(m)
  BY DEF Claimed
<1>3. socket' \in [Views -> Sockets] /\ (\A u \in Views : ViewOK(u)') /\ ProviderOK'
  BY <1>1, <1>2, DecideViews
<1>4. PICK s : Grows(m, s)
  BY <1>1, <1>2, DecideViews
<1>5. QueueOK' /\ ServerOK'
  BY <1>2, <1>4, InvParts, OthersGrow DEF Typed
<1>6. Typed' /\ ForfeitIsPending'
  BY <1>2, <1>3, <1>4, InvParts, TruthGrows DEF session, Typed, ForfeitIsPending
<1> QED
  BY <1>3, <1>5, <1>6 DEF ClientInv

LEMMA AbortKeeps ==
  ASSUME ClientInv, NEW m \in Matches, Abort(m)
  PROVE  ClientInv'
<1>1. server \in [Matches -> Metas] /\ server[m] \in Metas
  BY InvParts DEF Typed
<1>2. PICK s \in Metas : /\ s = [server[m] EXCEPT !.aborted = TRUE]
                         /\ s.match = server[m].match /\ s.ready = server[m].ready
                         /\ s.winner = server[m].winner /\ s.aborted
  BY <1>1, MetaAborted
<1>3. server' = [server EXCEPT ![m] = s] /\ server'[m] = s
  BY <1>1, <1>2 DEF Abort
<1>4. Grows(m, s) /\ Decided(s) /\ s.winner = None
  BY <1>1, <1>2, <1>3 DEF Abort, Over, Decided, Formed, Grows
<1>5. PICK x \in Messages : x.type = "aborted" /\ x.meta = s /\ x = [type |-> "aborted", meta |-> server'[m]]
  BY <1>2, <1>3 DEF Messages
<1>6. PICK y \in Messages : y.type = "close" /\ y.meta = s /\ y = [type |-> "close", meta |-> server'[m]]
  BY <1>2, <1>3 DEF Messages
<1>7. Broadcast(m, <<x, y>>)
  BY <1>5, <1>6 DEF Abort
<1>8. /\ id' = id /\ state' = state /\ session' = session /\ forfeiting' = forfeiting /\ calls' = calls
      /\ fetch' = fetch /\ fails' = fails
  BY DEF Abort
<1>9. socket' \in [Views -> Sockets] /\ (\A u \in Views : ViewOK(u)') /\ ProviderOK'
  BY <1>2, <1>4, <1>5, <1>6, <1>7, <1>8, EndViews
<1>10. QueueOK' /\ ServerOK'
  BY <1>4, <1>8, InvParts, OthersGrow DEF Typed
<1>11. Typed' /\ ForfeitIsPending'
  BY <1>4, <1>8, <1>9, InvParts, TruthGrows DEF session, Typed, ForfeitIsPending
<1> QED
  BY <1>9, <1>10, <1>11 DEF ClientInv

LEMMA ForfeitServedKeeps ==
  ASSUME ClientInv, NEW c \in calls, ForfeitServed(c)
  PROVE  ClientInv'
<1>1. c \in Calls /\ c.match \in Matches /\ Formed(c.match) /\ calls \subseteq Calls
  BY InvParts DEF Typed, Calls, ServerOK
<1>2. PICK d \in Calls : /\ d = [c EXCEPT !.pc = "served"] /\ d.view = c.view /\ d.match = c.match
  <2>1. [c EXCEPT !.pc = "served"] \in Calls
    BY <1>1 DEF Calls
  <2>2. [c EXCEPT !.pc = "served"].view = c.view /\ [c EXCEPT !.pc = "served"].match = c.match
    BY <1>1 DEF Calls
  <2> QED
    BY <2>1, <2>2
<1>3. calls' = (calls \ {c}) \cup {d}
  BY <1>2 DEF ForfeitServed
<1>4. /\ calls' \subseteq Calls /\ \A e \in calls' : \E f \in calls : e.match = f.match
      /\ \A e \in calls : \E f \in calls' : e.view = f.view
  BY <1>1, <1>2, <1>3
<1>5. /\ id' = id /\ state' = state /\ session' = session /\ forfeiting' = forfeiting
      /\ fetch' = fetch /\ fails' = fails
  BY DEF ForfeitServed
<1>6. ForfeitIsPending'
  BY <1>4, <1>5, InvParts DEF ForfeitIsPending
<1>7. CASE Over(c.match)
  <2>1. socket' = socket /\ server' = server
    BY <1>7 DEF ForfeitServed
  <2>2. (\A u \in Views : ViewOK(u)') /\ ProviderOK'
    BY <2>1, <1>5, ViewsStay
  <2>3. Typed'
    BY <2>1, <1>4, <1>5, InvParts DEF session, Typed
  <2>4. QueueOK' /\ ServerOK'
    BY <2>1, <1>4, <1>5, InvParts DEF session, QueueOK, ServerOK, Formed, TrueOf
  <2> QED
    BY <2>2, <2>3, <2>4, <1>6 DEF ClientInv
<1>8. CASE ~Over(c.match)
  <2>1. Decide(c.match, "them")
    BY <1>8 DEF ForfeitServed
  <2>2. socket' \in [Views -> Sockets] /\ (\A u \in Views : ViewOK(u)') /\ ProviderOK'
    BY <2>1, <1>1, <1>5, <1>8, DecideViews
  <2>3. PICK s : Grows(c.match, s)
    BY <2>1, <1>1, <1>5, <1>8, DecideViews
  <2>4. QueueOK' /\ ServerOK'
    BY <2>3, <1>1, <1>4, <1>5, OthersGrow
  <2>5. Typed'
    BY <2>2, <2>3, <1>1, <1>4, <1>5, InvParts, TruthGrows DEF session, Typed
  <2> QED
    BY <2>2, <2>4, <2>5, <1>6 DEF ClientInv
<1> QED
  BY <1>7, <1>8

-----------------------------------------------------------------------------
LEMMA InitHolds == Init => ClientInv
<1> SUFFICES ASSUME Init PROVE ClientInv
  OBVIOUS
<1>1. Typed
  BY EmptyIs, SocketsAre, QueuesAre, FetchesAre DEF Init, Typed
<1>2. QueueOK /\ ForfeitIsPending
  BY QueuesAre DEF Init, QueueOK, ForfeitIsPending
<1>3. ServerOK
  BY EmptyIs, FetchesAre DEF Init, ServerOK
<1>4. (\A v \in Views : ViewOK(v)) /\ ProviderOK
  BY EmptyIs DEF Init, ViewOK, ProviderOK, Views, Truthful
<1> QED
  BY <1>1, <1>2, <1>3, <1>4 DEF ClientInv

LEMMA NextKeeps == ClientInv /\ [Next]_vars => ClientInv'
<1> SUFFICES ASSUME ClientInv, [Next]_vars PROVE ClientInv'
  OBVIOUS
<1>1. CASE UNCHANGED vars
  <2>1. /\ session' = session /\ view' = view /\ net' = net /\ fails' = fails
    BY <1>1 DEF vars
  <2>2. (\A v \in Views : ViewOK(v)') /\ ProviderOK'
    BY <2>1, ViewsStay DEF view, net
  <2>3. Typed' /\ ForfeitIsPending'
    BY <2>1, InvParts DEF session, view, net, Typed, ForfeitIsPending
  <2>4. QueueOK' /\ ServerOK'
    BY <2>1, InvParts DEF session, view, net, QueueOK, ServerOK, Formed, TrueOf
  <2> QED
    BY <2>2, <2>3, <2>4 DEF ClientInv
<1>2. CASE Next
  BY <1>2, HydrateKeeps, LogoutKeeps, JoinQueueKeeps, LeaveQueueKeeps, QueueOpensKeeps, QueueFailsKeeps,
     MatchFoundKeeps, QueueAgainStep, ClosePageKeeps, FetchServedKeeps, FetchAnsweredKeeps,
     FetchFailsKeeps, PairKeeps, OpenPageKeeps, ReadyKeeps, ClaimedKeeps, AbortKeeps,
     SocketOpensKeeps, ReceiveKeeps, SocketFailsKeeps, ForfeitKeeps, ForfeitServedKeeps,
     ForfeitAnsweredKeeps, ForfeitFailsKeeps DEF Next
<1> QED
  BY <1>1, <1>2

-----------------------------------------------------------------------------
THEOREM Invariance == Spec => []ClientInv
<1>1. Init => ClientInv
  BY InitHolds
<1>2. ClientInv /\ [Next]_vars => ClientInv'
  BY NextKeeps
<1> QED
  BY <1>1, <1>2, PTL DEF Spec

(* The types: no more than a snapshot, ready, the end and the close is on   *)
(* its way to a view, and who is in a match is not in the queue.            *)
THEOREM TypeCorrect == Spec => []TypeOK
<1>1. ClientInv => TypeOK
  <2> SUFFICES ASSUME ClientInv PROVE TypeOK
    OBVIOUS
  <2>1. Typed /\ QueueOK
    BY InvParts
  <2>2. ASSUME NEW v \in Views
        PROVE  /\ socket[v].phase \in {"idle", "connecting", "connected", "closed", "error"}
               /\ Len(socket[v].inbox) <= 4
               /\ \A i \in DOMAIN socket[v].inbox : socket[v].inbox[i] \in Messages
               /\ id[v] = None => state[v] = NoState /\ socket[v] = NoSocket
    <3>1. socket[v] \in Sockets /\ socket[v].inbox \in Seq(Messages) /\ ViewOK(v)
      BY <2>1, InvParts DEF Typed, Sockets
    <3>2. CASE id[v] = None
      BY <3>1, <3>2, SocketsAre DEF ViewOK
    <3>3. CASE id[v] # None
      <4>1. Len(socket[v].inbox) \in Nat /\ Len(socket[v].inbox) <= Room(server[id[v]])
        BY <3>1, <3>3 DEF ViewOK
      <4>2. Room(server[id[v]]) \in 0..4
        BY DEF Room
      <4>3. Len(socket[v].inbox) <= 4
        BY <4>1, <4>2
      <4> QED
        BY <4>3, <3>1, <3>3 DEF Sockets
    <3> QED
      BY <3>2, <3>3
  <2> QED
    BY <2>1, <2>2 DEF Typed, QueueOK, TypeOK, Calls
<1> QED
  BY <1>1, Invariance, PTL

(* What the browser shows of a match is what its Match object has, however  *)
(* snapshots, broadcasts and the answers to forfeits of two matches overtake *)
(* each other; the queue page never shows another match than its own, and a *)
(* match page that was at another one before shows its own as soon as its   *)
(* socket has brought the snapshot (queue.tsx, MatchResult.tsx, ws.ts).     *)
THEOREM ShownCorrect == Spec => []ShownIsTrue
<1>1. ClientInv => ShownIsTrue
  <2> SUFFICES ASSUME ClientInv PROVE ShownIsTrue
    OBVIOUS
  <2>1. ASSUME NEW v \in Views, state[v].match # None
        PROVE  LET s == server[state[v].match] IN
               /\ state[v].winner \in {None, s.winner}
               /\ state[v].aborted => s.aborted
               /\ state[v].ready => s.ready
    BY <2>1, InvParts DEF ViewOK, Truthful, TrueOf
  <2>2. state["provider"].match = id["provider"]
    BY InvParts, EmptyIs DEF ViewOK, ProviderOK, Views
  <2>3. ASSUME socket["page"].phase \in {"connected", "closed"}, socket["page"].inbox = <<>>
        PROVE  state["page"].match = id["page"] \/ server[id["page"]].aborted
    <3>1. id["page"] # None
      BY <2>3, SocketInUse DEF Views
    <3>2. Formed(id["page"]) /\ SnapshotDue(socket["page"], state["page"].match, server[id["page"]])
      BY <3>1, InvParts DEF ViewOK, Views
    <3> QED
      BY <2>3, <3>2 DEF SnapshotDue, Formed
  <2> QED
    BY <2>1, <2>2, <2>3 DEF ShownIsTrue
<1> QED
  BY <1>1, Invariance, PTL

(* The Forfeiting... flag is never left behind. *)
THEOREM ForfeitCorrect == Spec => []ForfeitIsPending
<1>1. ClientInv => ForfeitIsPending
  BY DEF ClientInv
<1> QED
  BY <1>1, Invariance, PTL

(* Signing out, or never having signed in, leaves nothing of a match. *)
THEOREM SignedOutCorrect == Spec => []SignedOutIsEmpty
<1>1. ClientInv => SignedOutIsEmpty
  BY InvParts DEF SignedOutIsEmpty, QueueOK, ViewOK
<1> QED
  BY <1>1, Invariance, PTL

(* The queue page shows the winner as soon as nothing is on its way to it:  *)
(* it has the match from match_found, before any message of the socket.     *)
THEOREM QueueCorrect == Spec => []QueueShowsWinner
<1>1. ClientInv => QueueShowsWinner
  <2> SUFFICES ASSUME ClientInv, id["provider"] # None, Settled("provider")
               PROVE  state["provider"].winner = server[id["provider"]].winner
    BY DEF QueueShowsWinner, ShowsWinner
  <2>1. ProviderOK /\ ViewOK("provider")
    BY InvParts DEF Views
  <2>2. CASE socket["provider"].phase = "closed"
    BY <2>1, <2>2 DEF ProviderOK
  <2>3. CASE socket["provider"].phase = "connected" /\ server[id["provider"]].winner = None
    BY <2>1, <2>3 DEF ProviderOK, ViewOK, Truthful, TrueOf
  <2>4. CASE socket["provider"].phase = "connected" /\ server[id["provider"]].winner # None
    <3>1. socket["provider"].inbox = <<>> /\ Len(<<>>) = 0
      BY DEF Settled
    <3> QED
      BY <3>1, <2>1, <2>4 DEF ProviderOK, WinnerDue
  <2> QED
    BY <2>2, <2>3, <2>4 DEF Settled
<1> QED
  BY <1>1, Invariance, PTL
=============================================================================
