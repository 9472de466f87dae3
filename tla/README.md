# Verification of Random Item Race

TLA+ models, TLC configurations and TLAPS proofs kept beside the Random Item Race code: a
Cloudflare Worker with Durable Objects (`sisr-workers`), a container Agent in Go
(`container-agent`), a Velocity proxy plugin (`sisr-proxy`) and a Fabric mod (`sisr-mod`).

The modules model the *control* of the code: every state change, guard, early return and error
path of the handlers, and the order they happen in. Data is abstracted to what the properties
tell apart, and D1, KV, the Agent and the Workers platform are services that may fail. Names
follow the source; `PROJECT.json` ("map") gives the lines each definition stands for.

## 1. The system

Two players queue in the browser; a queue object pairs them and has the Agent start a Minecraft
container; the match object arbitrates who picked up the target item first, records it in D1 and
tears everything down; the proxy moves the players in and out.

| Component | State it keeps | Operations | Hard behaviour | Correct when |
|---|---|---|---|---|
| **Queue DO** (`worker/queue.ts`), one per Elo bracket | storage `q:<uuid>` entries, alarm; sockets | join, borrow, restore, notify-match, socket close, alarm | two objects that call each other while each blocks its input; entries held in memory while a match is formed; resets; failed and lost calls | nobody is duplicated or forgotten, pairs form, brackets do not block each other |
| **Match DO** (`worker/match.ts`, `match-cleanup.ts`), one per match | storage `meta`; sockets | seed, ready, claim, forfeit, exit, state, fatal cleanup | D1 batch whose answer is lost or late; storage behind D1; non-blocking /ready between blocking handlers; resets between steps | one winner, counted once; everyone is told that one; the record is kept |
| **Hub** (the Match DO named `hub`) | sockets of proxies | broadcast | a broadcast that fails aborts a running match | - |
| **D1 / KV** | `matches`, `match_players`, `users`; `route:<uuid>`, `pending:<uuid>` | batches, puts, deletes | no transaction spans two of them | D1 is the system of record |
| **Agent** (`container-agent/main.go`) | maps of matches and containers under a mutex; timers | start, stop, event watch, exit notification, hard timeout | check-then-act between lock regions; events before tracking; lost events; restarts | every container stops; the Worker hears of it |
| **Proxy plugin** (`SisrProxy.java`) | registered servers, player routing; event socket | match_ready, join/kick/disconnect, cleanup | reconnects, callbacks on different threads | players of a ready match get in, of a finished one get out |
| **Match mod** (`MatchGame.java`) | phase, players, claim in flight | ticks, /ready, claims, shutdown | HTTP callbacks between ticks, retries | a pick-up is claimed; the server ends |
| **Browser client** (`lib/queue.tsx`, `lib/ws.ts`, `lib/api.ts`, `pages/MatchResult.tsx`) | queue socket; for the queue page and the match page a match, its shown state, a socket, a forfeit under way | join, leave, match found, messages, forfeit, GET state, sign out | three channels that are not ordered with one another; answers that outlive what they were asked for | what is shown is true, of the match shown, and complete |
| **Accounts** (`worker/auth.ts`, `session.ts`, `db.ts`, `lib/auth.tsx`) | session and OAuth-state cookies, rows of `users`, the auth context of each tab | start, callback, /api/me, logout | tabs share the cookies; answers and cookies that are lost or expire | who a tab shows is who its requests are made for |
| **Worker router, items, Elo** | none | HTTP | - | - |

Interactions: Queue -> Agent (start), Queue -> Match (seed), Queue -> Queue (borrow, restore,
notify-match), mod -> Match (ready, claim), browser -> Match (forfeit, state), Agent -> Match
(exit), Match -> D1, KV, Agent (stop), hub; proxy <- hub (match_ready), proxy -> KV through the
Worker (route look-up); browser <- Match (socket messages), browser -> Queue (join).
`PROJECT.json` ("hazards") lists what can go wrong in them, each at its
line, and the properties aimed at it.

## 2. Plan

Done, in this order: `Match`, `MatchArbiter`, `MatchProofs`, `Queue`, `Agent`, `MatchGame` (composed
with `MatchArbiter`), `Proxy`, `Client`, `AgentProofs`, `SignIn`, `MatchVerdict`, `MatchGameProofs`,
`SignInProofs`, `ClientProofs`, `QueueProofs`, `ProxyProofs`. Left:

1. **Two matches of one player**: an instance of Match in which one player's matches overlap, for
   routes and ratings (what the code does there is said under "Not asserted" below).
2. **Proofs**: every safety property of a passing run has its theorem. What is left is to say more:
   what `ToldWinnerIsRecorded` still promises when D1 fails only before it commits, and a
   refinement of the queue's `FormSucceeds` by Match's `Allocate` ... `Formed`.

Not planned: the arithmetic of ratings, whose formula is in a library outside the repository.

## 3. Modules

### Match

The Match objects, one per match id, and everything they share. `meta` is the record in DO
storage, `row`/`users` D1, `route` KV, `container` what runs behind the Agent. `op[m]` is the
callback the object is running inside `blockConcurrencyWhile` (claim, forfeit, exit, fatal
cleanup), with its program counter: while it is not `Idle`, nothing else is delivered to the
object. /ready and /internal/seed do not block, so they have counters of their own (`rdy`,
`seed`) that advance only while `op[m] = Idle`.

| Code | Actions |
|---|---|
| `allocateMatch`, `formMatch` as the match sees them | `Allocate`, `AllocateFails`, `Formed`, `FormFailed` |
| `handleSeed` | `SeedInsert`, `D1Insert`, `SeedStore` |
| `handleReady` | `ReadyStart`, `KvPut`, `ReadyRouted`, `ReadyNotified`, `ReadyFails` |
| `claim`, `forfeit`, `alreadyDecidedResult` | `Claim`, `Forfeit`, `AlreadyDecided`, `CheckFails`, `NotAPlayer`, `Persist` |
| `persistWinner` | `Persist`, `D1Commit` (`ApplyBatch`: every statement with its SQL guard), `Record`, `AnnounceResult` |
| `markContainerExited` | `Exit` |
| `cleanupAfterFatalError`, `fetch`'s catch | `Throw`, `Fatal` |
| `cleanupMatch`, `cleanupMatchResources` | `CleanupStart`, `D1Drop`, `KvDelete`, `AgentStop`, `CleanupFinish` |
| `handleState`, the state a new socket is sent | `ShowState` |
| Agent, containers | `ContainerExits`, `ContainerTimesOut`, `ContainerExpires` |

A call that leaves the object is an element of `net` from the moment it is issued until it takes
effect (`D1Commit`, `KvPut`, ...) or is lost (`Lose`). A caller may give up on it (`GiveUp`), and
it may land afterwards; a D1 call may commit and its answer be lost. `Faults` names the kinds of
failure an instance may see and `MaxFaults` how many. `told` and `decided` are histories: every
verdict anybody has been given, and every winner D1 has recorded. A rating is the set of matches
whose result it contains, since the code writes `eloBefore + delta`.

### MatchArbiter

What a match promises about its outcome: decided for one player or aborted, once, and told as it
was decided. `Match!ImplementsArbiter` is the refinement: the verdict of a match is the winner in
D1, or "aborted" from the moment the abort is announced.

### Queue

The queue objects, one per bracket. `store` is the object's storage, `sock` its open sockets,
`closing` the sockets whose close event is still to come, `alarm` the waiter its alarm is set
for. An entry is the number of the join that made it, so two entries of one player differ.
`op[b]` is the running `blockConcurrencyWhile` callback: a join, an alarm or a loan.
`pc` "borrow" and "borrowing" are the alarm's call to the neighbour, before and after the neighbour
takes it up; a bracket is delivered a call only when it is idle (`Reachable`, `Borrow`).

| Code | Actions |
|---|---|
| `handleJoin` | `Join`, then `SelectPair` ... `EndJoin` |
| `tryFormLocalMatches`, `formMatch` | `SelectPair`, `FormSucceeds`, `FormFails`, `Notified`, `Restored` |
| `notifyWaiter`, `notifyLocalWaiter`, /notify-match | `Notify`, `NotifyFails` |
| `restoreWaiters`, /restore | `Restore`, `RestoreFails` |
| `alarm`, `tryWidenOldestWaiter` | `Alarm`, `Widen`, `Borrowed`, `NothingBorrowed`, `EndAlarm` |
| `borrowFromNeighbor`, `handleBorrow` | `Borrow`, `Lend`, `BorrowFails` |
| `scheduleNextAlarm` | `Schedule` |
| `webSocketClose`, `webSocketError` | `SocketClosed` |
| Workers runtime | `Reset`, `CircleBroken` (a callback that waits for 30 s resets its object) |

A callback that throws fails its request (`Throw`) and may reset the object; a reset closes the
object's sockets and loses the calls that wait for it, its storage stays. An alarm that throws is
retried by the platform. Time is abstracted: an alarm may go off whenever it is set, at which
point its waiter, and everybody who joined before, has waited 30 s; younger waiters may have.
The Agent, seed and pending keys are one step here (`FormSucceeds`/`FormFails`); module Match has
them in full.

### Agent

The Agent's maps under its mutex, the goroutines that work on them, Podman and the event stream. A
step is what happens between two releases of the mutex or two calls that leave the process. `go`
holds the HTTP handlers and expired timers, each with its program counter, match and container id;
`watch` is the one watcher goroutine, `events` what the stream has not delivered yet. A container
is known by the match whose name it bears and by an id, the number of the creation for that match,
so that a stop by id, a stop by name and an adopted container can be told apart.

| Code | Actions |
|---|---|
| `startMatch`, `inspectExisting`, `track` | `StartMatch`, `Inspect`, `Create`, `Run`, `Track`, `StartFails` |
| `stopMatch`, `handleStop` | `StopMatch`, `Stop`, `Remove`, `Untrack`, `StopFails` |
| `scheduleTimeout` | `Fire`, `Expire`, then as a stop |
| `watchEvents`, `handleExitEvent`, `notifyExit` | `Subscribe`, `HandleExitEvent`, `Notify`, `RemoveExited`, `RemoveExitedFails`, `StreamEnds` |
| Podman, the host | `ContainerDies`, `AutoRemove`, `Crash` |

`requests` counts starts, answers, creations and stops: it bounds requests and numbers containers.

### MatchGame

The mod in one container: the server thread (ticks, joins and leaves, inventory changes, commands,
answers that are handed to it), the claims on their way, and the server that halts by itself or is
stopped. Who wins is not decided here: `DO == INSTANCE MatchArbiter` takes part as a component, its
variables `verdict` and `told` are variables of this module, and a claim is a step of `DO!Decide`.
Since module Match implements MatchArbiter, what holds here holds with Match behind it. The order of
match.ts is kept: the claim that decides is answered after the cleanup has stopped the container or
failed to.

| Code | Actions |
|---|---|
| `tick`, `startFromEnvironment` | `Boot`, `EndResult`, `TimeOut` |
| `onPlayerJoin`, `onPlayerLeave` | `OnPlayerJoin`, `OnPlayerLeave` |
| `InventoryMixin`, `onInventoryChanged`, `claim` | `PickUp`; `MoveItem` is what the mixin does not see |
| `handleClaimResponse`, `finish` | `HandleClaimResponse` |
| `/rir start`, `/rir stop`, `shutdown` | `StartManual`, `StopManual`, `StopServer` |
| the Worker and the Match object | `ReadyArrives`, `DecideClaim`, `AnswerClaim`, `AnswerLate`, `ClaimTimesOut`, `Forfeit`, `Abort` |

### Proxy

The Velocity plugin. `listed` is Velocity's table of servers and `dynamic` the plugin's
`dynamicServers`; events and scheduled tasks run on `Threads`, and a step is one call that changes
either map. `regs` numbers the registrations of a server, since `registerServer` and a look-up give
out an object that may have been unregistered when it is used. `raced` is a history of the servers
for which a cleanup and a registration were under way at the same time; the code has no lock over
the two maps, and the invariants exempt those servers and no others.

| Code | Actions |
|---|---|
| `onPlayerChooseInitialServer`, `fetchRoute` | `Login`, `FetchRoute`, `NoRoute`, `Enter`, `EnterFails` |
| `registerRoute` | `LookUp`, `Register`, `Put` |
| `handleEvent`, `moveReadyPlayers` | `BecomeReady`, `Move`, `MoveNot` |
| `onDisconnect`, `onKickedFromServer`, `cleanupIfEmpty` | `Disconnect`, `Check`, `Unregister`, `Forget` |
| `connectEventSocket`, its listener | `SocketOpens`, `SocketLost`, `Reconnect` |

### Client

One player's browser. The two `Views` are the queue provider, which outlives its page, and the match
page; each has a match (`id`), what it shows of it (`state`), a socket with the messages on their
way, and `forfeiting`. `queue` is the queue socket, `calls` the forfeits under way, `fetch` the match
page's GET state, and `server` what each Match object has. The step that causes a React effect
includes it. `Apply` is `applyMatchRealtimeMessage` with its check of the match id. `OpenPage` is a
change of route to a match, from no match page or from another one's: then the instance stays, and with
it `state` and `forfeiting`, while GET and socket start anew for the new id. `ClosePage` is the unmount. A
forfeit whose page is gone is dropped from `calls`; what the object does with it is in `Claimed`.

| Code | Actions |
|---|---|
| auth context | `Hydrate`, `Logout` |
| `joinQueue`, `leaveQueue`, `queueAgain`, queue socket | `JoinQueue`, `LeaveQueue`, `QueueAgain`, `QueueOpens`, `QueueFails`, `MatchFound` |
| `MatchResult` | `OpenPage`, `ClosePage`, `FetchServed`, `FetchAnswered`, `FetchFails` |
| `useMatchSocket` | `SocketOpens`, `Receive`, `SocketFails` |
| `forfeitMatch`, `forfeitCurrentMatch` | `Forfeit`, `ForfeitServed`, `ForfeitAnswered`, `ForfeitFails` |
| the Queue and Match objects | `Pair`, `Ready`, `Claimed`, `Abort` |

### SignIn

The tabs of one browser and the accounts of whoever uses it. `tab` is each tab's page: what its auth
context believes, the request it waits for (`pc`), the sign-in whose `state` is in its URL (`n`) and
the error it came back with. `session` and `oauth` are the two cookies, which the tabs share; a request
carries those there are when it is sent, and a response sets them when it arrives. `users` are the rows
in D1. Two histories say what the properties exempt: `unsure` are the tabs behind whose back the session
has changed, `displaced` the sign-ins whose state another tab, or time, took from the cookie.

| Code | Actions |
|---|---|
| `AuthProvider`'s refresh, GET /api/me, `currentUser` | `MeServed`, `MeAnswered`, `MeFails` |
| `beginSignIn`, `startMicrosoftAuth` | `Begin`, `StartAnswered`, `StartFails` |
| `finishMicrosoftAuth` | `Return`, `Refuse`, `Verified`, `Ineligible`, `ChainFails`, `Upsert`, `UpsertFails`, `Finish` |
| `redirectWithError` | `Redirected` |
| `logout` | `Logout`, `LogoutAnswered`, `LogoutFails` |
| the player, time | `Abandon`, `StateExpires`, `SessionExpires` |

## 4. Runs

| Run | Shows | Bounds |
|---|---|---|
| `match_any_two_failures` | `OneWinner` (D1 never records a second winner), `EachMatchCountedOnce` (counters of `users` are the numbers of decided and won matches), `TypeOK` | one duel, all eight kinds of failure, any two |
| `match_outage` | `OneWinnerTold`: no two different winners are ever announced by socket, response or state | one duel, D1, KV, Agent, hub; any three |
| `match_verdict` | `ToldIsRecorded`, `DecidedIsKept`, `ImplementsArbiter`, `DecidedIsStopped` | one duel and an outsider who forfeits; KV and hub; two |
| `queue_waiters` | `EntryInOnePlace`, `MatchOfTwo`, `WaitersHaveAnAlarm`, `WaitersAreRemembered`, `PairsAreFormed`, `BracketUnblocks`, `TypeOK` | three brackets in a row, two players, one with a rating that moves between two of them, three joins, failures of formMatch, of calls between brackets, and resets; any two |
| `agent_life` | `RunningIsAttended` (a running container has a record with a timer, or somebody about to make one or to end it), `StoppedIsStopped`, `ContainersEnd`, `DeathsAreReported`, `TypeOK` | one match, two starts, one stop, two goroutines beside the watcher, all five kinds of failure, one |
| `game_race` | `ShownIsCanonical`, `InFlightIsAnswered`, `HoldersHaveClaimed`, `OneResult`, `ServerHalts`, `TypeOK` | a duel, three connections, two losses, one command |
| `proxy_moves` | `OccupiedIsListed`, `NoneIsForgotten`, `TableIsCleaned`, `ReadyPlayersMove`, `TypeOK` | two matches of the same two players, two threads, two logins, two registrations of a server |
| `client_pages` | `ShownIsTrue`, `ForfeitIsPending`, `SignedOutIsEmpty`, `QueueShowsWinner`, `WinnerIsShown`, `TypeOK` | two matches, one failure, one forfeit under way at a time; pages are opened, closed and changed in place without a limit |
| `sign_in` | `StatusIsTrue` (a tab shows the account its requests are made for), `MismatchHasACause` (a sign-in that is left alone never meets a foreign state), `TypeOK` | two tabs, three accounts of which two own the game, three sign-ins, two failures |

Why these bounds are enough to be interesting: matches share nothing but D1 counters, KV keys
and players, so one duel sees every race inside the object. Two failures reach "the batch
committed, its answer was lost, and the retry failed" as well as "two independent services fail";
the theorems cover any number for the record in D1. Three joins are needed for a pair in one bracket
whose neighbour is lonely, or for a player who joins again while borrowed, in the same bracket or in the
other one that the rating has moved to, where two entries of one player can meet; the middle bracket asks
an empty neighbour before it asks one with a waiter, and neighbours that widen at once wait for each
other (`CircleBroken`). The Agent's matches share no record, so one is enough; two starts reach the
adoption of a container, a creation that finds the name taken, and a record made after its
container's exit was handled. Two losses let a claim be retried after one has failed and its retry
fail too. Two threads let a cleanup run between any two calls of a registration; the second login
finds the server of the first one registered, stale or gone. Two matches, one after the other, are what an
answer of an earlier one needs to meet a later one, and a page that shows one the id of the other. Two tabs with three sign-ins let one tab's sign-in
take the other's state, fail, and be begun again; the two owners let a tab be signed in as
somebody else behind its back. Players of a duel are interchangeable, so the two
safety-only Match runs use symmetry.

Deadlock is not checked: a match that is over, a queue whose joins are used up, a halted server, a
container that has been removed and a browser whose sign-ins are used up stop.

Runs in which the code does other than a document or a text of the repository says:

| Run | Says | Does |
|---|---|---|
| `agent_timeout` | "Agent force-kills past this" (ARCHITECTURE.MD:313) | a stop that fails leaves `Stopping` set (main.go:355), and the hard timeout passes such a match by (main.go:376): one failed stop, and the container runs on. |
| `game_result_screen` | "On winner declared ... show a 10-second result screen" (ARCHITECTURE.MD:281) | the claim that wins is answered after the cleanup has stopped the server (match.ts:275): there is nobody left to show a result. No failure is needed. |
| `client_stale_page` | "This page will update when a winner is broadcast" (MatchResult.tsx:166) | an answer to GET state read before the winner was set and delivered after `match_result` takes the winner off the page again (MatchResult.tsx:40). No failure is needed. |

These are consequences of the same state machines the passing runs check, with the smallest
instance that shows them.

Preconditions of passing properties worth knowing: `OneWinnerTold` holds without late calls, storage
failures and resets, `ToldIsRecorded`, `DecidedIsKept` and the refinement hold without D1 failures as
well; `DecidedIsStopped` holds without resets and Agent failures, after which only the Agent's hard
timeout is left; `MatchOfTwo` permits that a player is paired with himself if he has joined two brackets,
which nothing in the code prevents once a rating has moved;
`WaitersAreRemembered` exempts the steps that lose memory (a reset, a lost call, a loan to a bracket
that was reset) and is about waiters who have joined their bracket once, because the close of a replaced socket may
delete the newer entry. `RunningIsAttended` and `ContainersEnd` are claimed as long as no
stop has failed and the Agent has not crashed, `RunningIsAttended` and `StoppedIsStopped` for the
first container of a match; `DeathsAreReported` names lost events and notifications. `HoldersHaveClaimed`
is about the items the mod has looked at: `overlooked` has the players whose item came by another way
than `Inventory.add`, or whose claim has failed, until the mod looks at their inventory again.
`ShownIsCanonical` permits that somebody is shown as the winner of an aborted match. `ServerHalts` exempts servers an operator has taken over.
`QueueShowsWinner` and `WinnerIsShown` are about a socket that has not failed: nothing reconnects it.
`ShownIsTrue` lets the match page show an earlier match, never a wrong one, until its socket has
delivered a snapshot. `OccupiedIsListed` and `NoneIsForgotten` exempt the servers in `raced`, `StatusIsTrue` the tabs in
`unsure`: no tab is told of what another one does to the session.

Not asserted: what the models reach and no property of a passing run forbids. /ready looks at
`readyAt` only and does not block, so a late one puts routes back after the end of a match; routes
are per player, so a match's cleanup deletes those of the next one; a rating is written as
`eloBefore + delta`, so overlapping matches of a player lose a result; a failure after the seed keeps
`meta` without rows; a borrowed player who joins again is in two `formMatch` calls; a queue socket
that fails leaves `isQueueing` set, and the button shown does nothing. The match page has no key
(App.tsx:30-37), so a history jump from one match to another keeps `matchState` and `isForfeiting`
(MatchResult.tsx:26, :30): the earlier match is shown under the new id until GET or the socket answers, and
for good if both fail, while a forfeit confirmed on it is posted for the new id (MatchResult.tsx:76). The
mod looks at an inventory only on a join and in `Inventory.add` (InventoryMixin.java:17), where
ARCHITECTURE.MD:280 says "Each server tick, scan online players' inventories for the target item. If found,
POST": an item that is crafted or put into a slot is not claimed before the next pick-up, and a claim that
failed is not sent again before it. One failed `storage.put` after
the commit is swallowed (match.ts:389-399), and the container's exit then deletes the record of a decided
match, where ARCHITECTURE.MD:536 says records are kept forever. Two sign-ins that overlap in two tabs can
both fail: the second takes the first one's state, and the first one's error redirect clears the second
one's. A failure in the callback's chain is answered "Authentication failed" (auth.ts:78), also where
ARCHITECTURE.MD:291 asks for the friendly form of an `XErr`. Those that a model can reach are in the
hazards list.

## 5. Fairness

Match: weak fairness on the object's own steps (`ObjectStep`: a callback that can go on does) and
on the landing or loss of issued calls: both are the runtime's event loop. No request has to be
sent, no failure has to happen, no container has to exit. Queue: weak fairness on each bracket's
`Step`: callbacks go on, a set alarm goes off, a served call answers, and the 30 s limit strikes.
Nobody has to join, leave or close a socket, and nothing has to fail.

Agent: timers that are pending fire, goroutines run, the watcher reads (Go's scheduler and timers);
nobody has to stop a match, and containers need not end by themselves. MatchGame: the server ticks and
runs the tasks handed to it; a request ends, if only in its 4 s timeout; the cleanup of a decided
match stops the container, which is `DecidedIsStopped` of Match and `ContainersEnd` of Agent. Proxy:
tasks run, a look-up ends in its timeout at the latest, players on a server that has stopped lose
their connection, and the scheduled reconnect comes; nobody has to log in or leave, and no match has to
become ready. Client: the queue provider's socket, when it is connecting, connects or fails, and what is
sent on it while it stays open arrives; nothing is assumed of the player, the matches, the match page's
socket or of calls. SignIn states none: its
properties are safety, and a player may stop anywhere.

## 6. Proofs

Every safety invariant and action property of the passing runs is a theorem about `Spec`, proved by
TLAPS for every value of the constants that meets the assumption of its module. The runs show the same
formulas on small instances, and TLC checked each inductive invariant there before it was proved.

| Module | Theorems | Inductive invariant |
|---|---|---|
| `MatchProofs` | `TypeCorrect`, `OneWinnerForGood`, `CountersAreExact` | `TypeInv`, `SafetyInv == TypeInv /\ RecordInv` |
| `MatchVerdict` | `OneTruthIsTold`, `ToldWinnerIsRecorded`, `DecidedRowIsKept`, `MatchImplementsArbiter` | `ToldInv`, `KeptInv` |
| `QueueProofs` | `TypeCorrect`, `PlacesCorrect`, `PairsCorrect`, `AlarmCorrect`, `NobodyForgotten` | `QueueInv` |
| `AgentProofs` | `TypeCorrect`, `StopsGoThrough`, `RunningAreAttended` | `AgentInv`, `LifeInv` |
| `MatchGameProofs` | `TypeCorrect`, `ShownCorrect`, `InFlightCorrect`, `HoldersCorrect`, `OneResultShown` | `GameInv` |
| `ProxyProofs` | `TypeCorrect`, `OccupiedCorrect`, `ForgottenCorrect` | `ProxyInv` |
| `ClientProofs` | `TypeCorrect`, `ShownCorrect`, `ForfeitCorrect`, `SignedOutCorrect`, `QueueCorrect` | `ClientInv` |
| `SignInProofs` | `TypeCorrect`, `StatusCorrect`, `MismatchCorrect` | `SignInInv` |

**Assumptions.** Match: matches and players are finite sets, each match has two players, and no player
is called like a status. Agent: there is a match, goroutines are finitely many. Queue: a bracket has a
neighbour and is not its own (`neighborBrackets`). Proxy: there is a player, and a server may be
registered once. Client and SignIn: `None` is no match and no account, owners are accounts. Bounds are
natural numbers; any number of failures, joins, requests or sign-ins is allowed.

**Hypotheses.** Four theorems carry one, because the code does not keep the promise without it.
`OneTruthIsTold` has `Punctual`: no storage failures, late calls or resets. A batch that lands after its
caller has given up, for one, may decide for a player when another has been told to have won.
`ToldWinnerIsRecorded`, `DecidedRowIsKept` and `MatchImplementsArbiter` have `Reliable`: only KV, the
Agent and the hub fail. A D1 batch whose answer is lost, for one, may have decided a match that the queue
then gives up, and the abort drops its row. Neither hypothesis can be weakened by a kind of failure: TLC
refutes each of the four statements when any one of the kinds it excludes is allowed. They say which
failures there are, not how many; `match_outage` and `match_verdict` are instances of them.

*Match, types.* `D1Commit` writes the winner that the call in flight names, and `Record` the one the
callback remembers. `TypeInv` adds that every commit in flight (`CommitsNamePlayers`) and every deciding
callback (`DecidersNamePlayers`) names a player of its own match.

*Match, the record.* One winner per match is easy to believe for one batch and is not inductive: a batch
may land at any later time, the row may be dropped by an abort in between, and a row that came
back would be decided again. `RecordInv` says why it does not: the only insert is the seed's
(`InsertsAreSeeds`), before it has landed nothing is decided (`UndecidedUntilInserted`), and
while a row exists it tells everything that was ever decided and whom it has rated
(`RowTellsAll`). Steps that touch neither row nor users are disposed of by one lemma (`QuietStep`), and
the counters follow from cardinalities of the sets of decided and won matches when `ApplyBatch` adds one.

*Match, what is told.* `ToldInv` ties three copies of the winner together: a batch in flight is that of
the running callback, a winner anybody has been told of is `meta`'s, and `meta` agrees with D1 except
between the batch and `Record`. `KeptInv` adds what makes the row stay: a match has a `meta` only after
its seed, and with it a row, which only the cleanup of an abort drops; and it aborts only where `meta` has
no winner. The refinement is proved step by step from it: a step either leaves verdict and announcements
alone, or decides an open match, or tells what has been decided.

*Queue.* An entry is at any time in one bracket's storage, in one callback's hands (`PlacesOK`, which
compares places instead of counting them; `EntryInOnePlace` follows), or formed. A bracket that is asked
for a waiter is lending, to one bracket (`LendersOK`): without it two answers could hand out one entry.
`HistoryOK` ties entries, sockets and callbacks to the joins that made them, `BracketOK` says at which
point of a callback whom it holds and that an alarm is set when it is at rest with a waiter, and
`PairsOK` that every match is a pair of entries (`IsPair`: of two players, or of one in two brackets, since
`SelectPair` takes two entries of a bracket, which has one of each player, and `Borrowed` one of its own and
one of another's) and that those who are told are in a match. `NobodyForgotten` is an action property proved from it,
action by action: the ways a step can lose a waiter are listed in its statement and there is no other.

*Agent, types.* Bounding timers, ids and counters by the requests that were made is not inductive: a
creation or an answer adds one, and is allowed because a request that has not been answered yet is
counted. `CountsFit` adds the number of the handlers that are still `Starting` or `Creating` to each
counter; a step that begins a start adds one on both sides, and one that answers or creates takes the
handler out of its set. Everything else lets nobody begin (`Settles`) and keeps the counters
(`QuietCounts`, `Kept`).

*Agent, stops.* `StoppedIsStopped` needs to know which container a stop was for: an id that is remembered
is that of a container that has been created, and nobody stops, expires or tracks a match without one
(`ContainersAreMade`, `Sound`). When `Remove` leaves a container standing, its id is another one than
the remembered id, which is at most the number created: so either the first container is gone or there
has been a second one. A creation while a stop is about to answer makes it the second.

*Agent, attendance.* That somebody is left to end a running container is lost when a record is dropped, a
timer fires or a watcher takes a record away. `LifeInv` says why each of them hands over: a container is
run by the one handler that created it (`RunsTheCreated`), which then tracks it; an exit event is of a
container that is dead and will not run again (`ExitsAreOfTheDead`), so the watcher's removals do not
meet a running one; records and removals name containers that exist. `StaysAttended` disposes of the steps
that take nobody away.

*MatchGame.* `HoldersCorrect` holds whatever fails: a claim leaves `inFlight` only when it has failed, and
then its player is `overlooked`. An answer on its way to the mod is the arbiter's verdict (`ClaimsAreTrue`), and before the
first tick nobody plays (`NobodyYet`). With `MatchArbiter` as the component that decides, that is enough.

*Proxy.* A server's registration is looked up, used and cleaned up by threads without a common lock.
`ProxyInv` says, of a server that is not in `raced`: whoever is about to use a registration uses the
listed one (`UsesTheListed`), whoever cleans one up does so while nobody is on it or on the way to it
(`CleansTheEmpty`), and what is about to be forgotten is not listed (`ForgetsTheGone`).

*Client.* Messages, answers and snapshots come in any order, so each of them has to be true by itself:
`TrueOf` and `Carries` say that what is on its way was the case and is not taken back. For the queue page
`WinnerDue` says where the winner is until it is shown, and that no older snapshot is behind it
(`Ordered`: a snapshot comes first on its socket); the match page lacks just this, as `client_stale_page`
shows. What the match page shows is true of the match it is labelled with (`Truthful`, `TruthStays`,
`Later`), and as long as that is an earlier match than its id, a snapshot of the right one is still due on
its socket unless the socket has failed (`SnapshotDue`).

*SignIn.* `StatusInv` follows an answer of /api/me from the cookie it was made of to the page that shows
it; `StateInv` says that the state of a sign-in at Microsoft is in the cookie or has been displaced, and
that no two tabs have one sign-in.

The proofs changed the models in one respect: in `Client!Apply`, `Queue!ResetObject`, `Queue!Answers` and
`Match!KnownVerdict` two arms of a CASE overlapped, whose value TLA+ leaves open and TLC takes from the
first; they are IF ... ELSE IF, as the code is.

Only model-checked: liveness, that is `DecidedIsStopped`, `PairsAreFormed`, `BracketUnblocks`,
`ContainersEnd`, `DeathsAreReported`, `ServerHalts`, `TableIsCleaned`, `ReadyPlayersMove` and
`WinnerIsShown` of Client, and the runs that refute a statement. Liveness under fairness needs ENABLED,
which the provers do not expand. The modules have no RECURSIVE operator and the proofs no induction
over data.

## 7. Not modelled

The Worker's router, logging, item choice, the leaderboard and skin caches and deployment files keep no
state whose order matters to a match; who may call what appears as guards. Of signing in, the page it
leads to afterwards and the tokens of the chain are left out. The arithmetic of ratings is a formula of a
library that is not in the repository; Match keeps which results a rating contains. The text of messages,
timestamps and durations are abstracted; where an order in time matters (alarms, the 30 s limit,
timeouts) it is an action that may come at any time.

Left out of the modules, and where it would show: of the mod, kicks of players who are not assigned
(the router sends none), an unknown TARGET_ITEM, pregeneration; of the proxy, a player who quits while
the route is looked up, a ready server that refuses a player, a socket that is dead without having
failed, and the hub's own sockets (an event nobody is connected for is lost); of the Agent,
configuration, health and the second map `containerMatch`, which is kept in step with the first under
the same lock; of the browser, rendering, the item reveal, the heartbeat, a page reload (a new
`Client` with its match gone) and the pages that only read.

Simplified: an alarm that throws is retried without limit (`RetryAlarm`), where Workers gives up after
six tries, which `MaxFaults` stays below; the proxy's clean-up after a kick is that of the disconnect
(`Disconnect`), not a second one; `unregisterServer` (SisrProxy.java:300) is taken to do nothing for a
server that is already gone, where Velocity may throw.
