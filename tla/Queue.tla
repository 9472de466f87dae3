-------------------------------- MODULE Queue --------------------------------
(***************************************************************************)
(* The Queue Durable Objects (sisr-workers/worker/queue.ts), one per rating *)
(* bracket: waiters and their sockets, the forming of matches inside the    *)
(* join handler, the alarm and the borrow handler, and the borrowing of a   *)
(* lonely waiter from a neighbouring bracket.                               *)
(*                                                                         *)
(* All of it but /notify-match and the socket events runs inside            *)
(* blockConcurrencyWhile: `op` is the callback a bracket is running, and    *)
(* nothing else is delivered to the bracket until it has ended, not even    *)
(* the call of the neighbour it is waiting for.                             *)
(*                                                                         *)
(* A queue entry is the number of the join that made it: `joined` says who  *)
(* joined where, and numbers are in the order of joinedAt.                  *)
(***************************************************************************)
EXTENDS Integers, Sequences, FiniteSets

CONSTANTS
  Brackets,   \* the Queue objects
  Players,    \* Minecraft uuids
  JoinsIn,    \* the brackets a player's rating leads to, over time
  Neighbors,  \* the brackets each one borrows from, in this order
  MaxJoins,   \* how often players join, in all
  Faults,     \* what may fail, a subset of FaultKinds
  MaxFaults   \* and how often, in all

FaultKinds ==
  {"form",   \* the Agent, the Match object or KV fails formMatch
   "call",   \* a call to another bracket, or its answer, is lost
   "reset"}  \* a bracket is evicted or crashes between two steps

ASSUME QueueAssumption ==
  /\ JoinsIn \in [Players -> SUBSET Brackets]
  /\ Neighbors \in [Brackets -> Seq(Brackets)]
  /\ \A b \in Brackets :
       Neighbors[b] # <<>> /\ \A k \in 1..Len(Neighbors[b]) : Neighbors[b][k] # b
  /\ MaxJoins \in Nat
  /\ Faults \subseteq FaultKinds
  /\ MaxFaults \in Nat

VARIABLES
  joined,   \* history: the joins so far, each with its player and bracket
  store,    \* DO storage: the q:<uuid> entries of each bracket
  sock,     \* the open sockets of each bracket, by their join
  closing,  \* sockets whose close event has not been delivered
  alarm,    \* the waiter each bracket's alarm is set for, 0 if it is not set
  op,       \* the blockConcurrencyWhile callback each bracket is running
  formed,   \* history: the pairs of entries that have been made a match
  told,     \* history: the sockets that have been sent match_found
  faults    \* failures so far

vars == <<joined, store, sock, closing, alarm, op, formed, told, faults>>

-----------------------------------------------------------------------------
Entries == 1..Len(joined)
Who(i)  == joined[i].who
Home(i) == joined[i].home

(* `sel`: the waiters in the callback's hands; `asks`: the neighbours still *)
(* to be asked; `self`: the join that is served, or the waiter whose alarm. *)
Idle == [kind |-> "none", pc |-> "idle", sel |-> {}, asks |-> <<>>, self |-> 0]

Starts(kind, self) == [kind |-> kind, pc |-> "form", sel |-> {}, asks |-> <<>>, self |-> self]

TypeOK ==
  /\ joined \in Seq([who : Players, home : Brackets]) /\ Len(joined) <= MaxJoins
  /\ store \in [Brackets -> SUBSET Entries]
  /\ \A b \in Brackets : \A i, j \in store[b] : Who(i) = Who(j) => i = j
  /\ sock \in [Brackets -> SUBSET Entries]
  /\ closing \in [Brackets -> SUBSET Entries]
  /\ alarm \in [Brackets -> {0} \cup Entries]
  /\ DOMAIN op = Brackets
  /\ \A b \in Brackets :
       /\ op[b].kind \in {"none", "join", "alarm", "lend"}
       /\ op[b].pc \in {"idle", "form", "forming", "notify", "restore", "borrow",
                        "borrowing", "borrowed", "broken"}
       /\ op[b].sel \subseteq Entries
       /\ op[b].asks \in Seq(Brackets)
       /\ op[b].self \in {0} \cup Entries
  /\ formed \subseteq SUBSET Entries
  /\ told \subseteq Entries
  /\ faults \in 0..MaxFaults

Init ==
  /\ joined = <<>>
  /\ store = [b \in Brackets |-> {}]
  /\ sock = [b \in Brackets |-> {}]
  /\ closing = [b \in Brackets |-> {}]
  /\ alarm = [b \in Brackets |-> 0]
  /\ op = [b \in Brackets |-> Idle]
  /\ formed = {}
  /\ told = {}
  /\ faults = 0

Fails(kind) == kind \in Faults /\ faults < MaxFaults /\ faults' = faults + 1

Oldest(S) == CHOOSE i \in S : \A j \in S : i <= j

(* Every entry of a player is stored under the same key. *)
Of(S, p)  == {i \in S : Who(i) = p}

\* Mutation: a second socket of a player gets an entry of its own.
PutTwice(S, i, p) == S \cup {i}

Put(S, i, p) == (S \ Of(S, p)) \cup {i}

\* Mutation: alarms are left to the first join of an empty bracket.
ScheduleKept(b, S) == IF S = {} THEN 0 ELSE alarm[b]

(* scheduleNextAlarm: for the oldest of the waiters S of the bracket. *)
Schedule(b, S) == IF S = {} THEN 0 ELSE Oldest(S)

-----------------------------------------------------------------------------
(* How a callback ends *)

Asks(a, b) == op[a].pc = "borrowing" /\ Head(op[a].asks) = b

\* Mutation: a lender that fails does not answer.
AnswersNoError(b, pc, sel) ==
  [a \in Brackets |->
     IF a = b THEN Idle
     ELSE IF Asks(a, b) /\ pc # "broken" THEN [op[a] EXCEPT !.pc = pc, !.sel = sel]
     ELSE op[a]]

(* b's callback is over; if it was lending, the neighbour that still waits  *)
(* for its answer gets `pc` and the waiters in `sel`.                       *)
Answers(b, pc, sel) ==
  [a \in Brackets |->
     IF a = b THEN Idle
     ELSE IF Asks(a, b) THEN [op[a] EXCEPT !.pc = pc, !.sel = sel]
     ELSE op[a]]

\* Mutation: alarm() swallows its error.
RetryAlarmNever(b) == UNCHANGED alarm

(* alarm() rethrows its error, and the platform retries a failed alarm. *)
RetryAlarm(b) == alarm' = [alarm EXCEPT ![b] = IF op[b].kind = "alarm" THEN op[b].self ELSE @]

(* With the object, the calls that wait for it are lost. *)
ResetObject(b) ==
  /\ op' = [a \in Brackets |->
       IF a = b THEN Idle
       ELSE IF op[a].pc \in {"borrow", "borrowing"} /\ Head(op[a].asks) = b
            THEN [op[a] EXCEPT !.pc = "broken", !.sel = {}]
       ELSE IF op[a].pc \in {"notify", "restore"}
            THEN [op[a] EXCEPT !.sel = {i \in @ : Home(i) # b}]
       ELSE op[a]]
  /\ RetryAlarm(b)
  /\ sock' = [sock EXCEPT ![b] = {}]
  /\ closing' = [closing EXCEPT ![b] = {}]

(* The callback throws: the handler fails, and a failed join hands out no   *)
(* socket, unless the platform resets the object and its sockets with it.   *)
Throw(b) ==
  \/ /\ op' = Answers(b, "broken", {})
     /\ RetryAlarm(b)
     /\ sock' = [sock EXCEPT ![b] = IF op[b].kind = "join" THEN @ \ {op[b].self} ELSE @]
     /\ UNCHANGED closing
  \/ ResetObject(b)

Returns(b) ==
  /\ op' = [op EXCEPT ![b] = Idle]
  /\ alarm' = [alarm EXCEPT ![b] = Schedule(b, store[b])]

-----------------------------------------------------------------------------
(* Sockets *)

(* GET /join: the newer socket replaces the player's older ones. *)
Join(p, b) ==
  LET i == Len(joined) + 1 IN
  /\ op[b] = Idle
  /\ b \in JoinsIn[p]
  /\ Len(joined) < MaxJoins
  /\ joined' = Append(joined, [who |-> p, home |-> b])
  /\ sock' = [sock EXCEPT ![b] = (@ \ Of(@, p)) \cup {i}]
  /\ closing' = [closing EXCEPT ![b] = @ \cup Of(sock[b], p)]
  /\ store' = [store EXCEPT ![b] = Put(@, i, p)]
  /\ op' = [op EXCEPT ![b] = Starts("join", i)]
  /\ UNCHANGED <<alarm, formed, told, faults>>

Disconnect(b) ==
  \E i \in sock[b] \ {op[b].self} :
    /\ sock' = [sock EXCEPT ![b] = @ \ {i}]
    /\ closing' = [closing EXCEPT ![b] = @ \cup {i}]
    /\ UNCHANGED <<joined, store, alarm, op, formed, told, faults>>

(* webSocketClose, also of a socket that the object has closed itself: it   *)
(* deletes the player's entry, whichever join that is of by now.            *)
SocketClosed(b) ==
  \E i \in closing[b] :
    /\ op[b] = Idle
    /\ closing' = [closing EXCEPT ![b] = @ \ {i}]
    /\ store' = [store EXCEPT ![b] = @ \ Of(@, Who(i))]
    /\ UNCHANGED <<joined, sock, alarm, op, formed, told, faults>>

-----------------------------------------------------------------------------
(* tryFormLocalMatches and formMatch *)

SelectPair(b) ==
  LET first == Oldest(store[b])
      pair  == {first, Oldest(store[b] \ {first})}
  IN  /\ op[b].pc = "form"
      /\ Cardinality(store[b]) >= 2
      /\ store' = [store EXCEPT ![b] = @ \ pair]
      /\ op' = [op EXCEPT ![b].pc = "forming", ![b].sel = pair]
      /\ UNCHANGED <<joined, sock, closing, alarm, formed, told, faults>>

(* The container is allocated, the match seeded, the pending keys are put. *)
FormSucceeds(b) ==
  /\ op[b].pc = "forming"
  /\ op' = [op EXCEPT ![b].pc = "notify"]
  /\ formed' = formed \cup {op[b].sel}
  /\ UNCHANGED <<joined, store, sock, closing, alarm, told, faults>>

FormFails(b) ==
  /\ op[b].pc = "forming"
  /\ Fails("form")
  /\ op' = [op EXCEPT ![b].pc = "restore"]
  /\ UNCHANGED <<joined, store, sock, closing, alarm, formed, told>>

(* A call to a waiter's own bracket is served when that is free. *)
Reachable(b, i) == Home(i) = b \/ op[Home(i)] = Idle

(* notifyWaiter: match_found to all the player's sockets in the waiter's    *)
(* bracket, which are closed and whose entry is deleted.                    *)
Notify(b) ==
  \E i \in op[b].sel :
    LET h == Home(i)
        S == Of(sock[h], Who(i))
    IN  /\ op[b].pc = "notify"
        /\ Reachable(b, i)
        /\ sock' = [sock EXCEPT ![h] = @ \ S]
        /\ closing' = [closing EXCEPT ![h] = @ \cup S]
        /\ store' = [store EXCEPT ![h] = @ \ Of(@, Who(i))]
        /\ told' = told \cup S
        /\ op' = [op EXCEPT ![b].sel = @ \ {i}]
        /\ UNCHANGED <<joined, alarm, formed, faults>>

(* allSettled: the neighbour's failure is not noticed. *)
NotifyFails(b) ==
  \E i \in op[b].sel :
    /\ op[b].pc = "notify"
    /\ Home(i) # b
    /\ Fails("call")
    /\ op' = [op EXCEPT ![b].sel = @ \ {i}]
    /\ UNCHANGED <<joined, store, sock, closing, alarm, formed, told>>

(* A local match is followed by the next one, a widened one by the alarm's  *)
(* last step.                                                               *)
Notified(b) ==
  /\ op[b].pc = "notify"
  /\ op[b].sel = {}
  /\ IF op[b].asks = <<>>
       THEN op' = [op EXCEPT ![b].pc = "form"] /\ UNCHANGED alarm
       ELSE Returns(b)
  /\ UNCHANGED <<joined, store, sock, closing, formed, told, faults>>

\* Mutation: a failed match puts back the waiters of its own bracket only.
RestoreToLocalOnly(b, i) == IF Home(i) = b THEN Put(store[b], i, Who(i)) ELSE store[Home(i)]

(* restoreWaiters puts an entry back where it was; /restore of another      *)
(* bracket sets that one's alarm too.                                       *)
RestoreTo(b, i) == Put(store[Home(i)], i, Who(i))

Restore(b) ==
  \E i \in op[b].sel :
    LET h == Home(i) IN
    /\ op[b].pc = "restore"
    /\ Reachable(b, i)
    /\ store' = [store EXCEPT ![h] = RestoreTo(b, i)]
    /\ alarm' = [alarm EXCEPT ![h] = IF h = b THEN @ ELSE Schedule(h, store'[h])]
    /\ op' = [op EXCEPT ![b].sel = @ \ {i}]
    /\ UNCHANGED <<joined, sock, closing, formed, told, faults>>

RestoreFails(b) ==
  \E i \in op[b].sel :
    /\ op[b].pc = "restore"
    /\ Home(i) # b
    /\ Fails("call")
    /\ op' = [op EXCEPT ![b].sel = @ \ {i}]
    /\ UNCHANGED <<joined, store, sock, closing, alarm, formed, told>>

(* formMatch's error is thrown on. *)
Restored(b) ==
  /\ op[b].pc = "restore"
  /\ op[b].sel = {}
  /\ Throw(b)
  /\ UNCHANGED <<joined, store, formed, told, faults>>

EndJoin(b) ==
  /\ op[b].kind = "join"
  /\ op[b].pc = "form"
  /\ Cardinality(store[b]) < 2
  /\ Returns(b)
  /\ UNCHANGED <<joined, store, sock, closing, formed, told, faults>>

-----------------------------------------------------------------------------
(* The alarm: tryFormLocalMatches, then tryWidenOldestWaiter *)

Alarm(b) ==
  /\ op[b] = Idle
  /\ alarm[b] # 0
  /\ alarm' = [alarm EXCEPT ![b] = 0]
  /\ op' = [op EXCEPT ![b] = Starts("alarm", alarm[b])]
  /\ UNCHANGED <<joined, store, sock, closing, formed, told, faults>>

(* An alarm goes off when its waiter has waited 30 s, so that one and all   *)
(* older ones have; a younger one may have, too.                            *)
Widen(b) ==
  /\ op[b].kind = "alarm"
  /\ op[b].pc = "form"
  /\ Cardinality(store[b]) = 1
  /\ op' = [op EXCEPT ![b].pc = "borrow", ![b].asks = Neighbors[b]]
  /\ UNCHANGED <<joined, store, sock, closing, alarm, formed, told, faults>>

EndAlarm(b) ==
  /\ op[b].kind = "alarm"
  /\ op[b].pc = "form"
  /\ \/ store[b] = {}
     \/ Cardinality(store[b]) = 1 /\ Oldest(store[b]) > op[b].self
  /\ Returns(b)
  /\ UNCHANGED <<joined, store, sock, closing, formed, told, faults>>

(* The neighbour is free to serve POST /borrow. *)
Borrow(b) ==
  LET n == Head(op[b].asks) IN
  /\ op[b].pc = "borrow"
  /\ op[n] = Idle
  /\ op' = [op EXCEPT ![b].pc = "borrowing",
                      ![n] = Starts("lend", 0)]
  /\ UNCHANGED <<joined, store, sock, closing, alarm, formed, told, faults>>

\* Mutation: the lender keeps the entry of the waiter it lends.
KeptByLenderAll(b) == store[b]

(* handleBorrow deletes the entry it hands out. *)
KeptByLender(b) == {}

(* It hands out a waiter that is alone, to whom is still waiting for it. *)
Lend(b) ==
  /\ op[b].kind = "lend"
  /\ op[b].pc = "form"
  /\ Cardinality(store[b]) < 2
  /\ op' = Answers(b, "borrowed", store[b])
  /\ store' = [store EXCEPT ![b] = KeptByLender(b)]
  /\ UNCHANGED <<joined, sock, closing, alarm, formed, told, faults>>

(* 204: the next neighbour is asked, if there is one. *)
NothingBorrowed(b) ==
  /\ op[b].pc = "borrowed"
  /\ op[b].sel = {}
  /\ IF Tail(op[b].asks) = <<>>
       THEN Returns(b)
       ELSE op' = [op EXCEPT ![b].pc = "borrow", ![b].asks = Tail(@)] /\ UNCHANGED alarm
  /\ UNCHANGED <<joined, store, sock, closing, formed, told, faults>>

Borrowed(b) ==
  /\ op[b].pc = "borrowed"
  /\ op[b].sel # {}
  /\ op' = [op EXCEPT ![b].pc = "forming", ![b].sel = @ \cup store[b]]
  /\ store' = [store EXCEPT ![b] = {}]
  /\ UNCHANGED <<joined, sock, closing, alarm, formed, told, faults>>

(* The borrow fails, or its answer is lost on the way. *)
BorrowFails(b) ==
  /\ \/ op[b].pc = "broken" /\ UNCHANGED faults
     \/ op[b].pc \in {"borrow", "borrowed"} /\ Fails("call")
  /\ Throw(b)
  /\ UNCHANGED <<joined, store, formed, told>>

-----------------------------------------------------------------------------
(* The platform *)

Reset(b) ==
  /\ Fails("reset")
  /\ ResetObject(b)
  /\ UNCHANGED <<joined, store, formed, told>>

WaitsFor(b, r) ==
  /\ r # b
  /\ \/ op[b].pc = "borrow" /\ Head(op[b].asks) = r
     \/ op[b].pc \in {"notify", "restore"} /\ \E i \in op[b].sel : Home(i) = r

InCircle(b) == \E r \in Brackets : WaitsFor(b, r) /\ WaitsFor(r, b)

(* A callback that waits for 30 s is ended by a reset of its object. *)
CircleBroken(b) ==
  /\ InCircle(b)
  /\ ResetObject(b)
  /\ UNCHANGED <<joined, store, formed, told, faults>>

Step(b) ==
  \/ SelectPair(b) \/ FormSucceeds(b) \/ Notify(b) \/ Notified(b)
  \/ Restore(b) \/ Restored(b) \/ EndJoin(b) \/ Alarm(b) \/ Widen(b) \/ EndAlarm(b)
  \/ Borrow(b) \/ Lend(b) \/ NothingBorrowed(b) \/ Borrowed(b) \/ BorrowFails(b)
  \/ CircleBroken(b)

Next ==
  \E b \in Brackets :
    \/ \E p \in Players : Join(p, b)
    \/ Disconnect(b) \/ SocketClosed(b)
    \/ Step(b)
    \/ FormFails(b) \/ NotifyFails(b) \/ RestoreFails(b) \/ Reset(b)

(* Callbacks go on and alarms go off; nobody has to join or to leave. *)
Spec == Init /\ [][Next]_vars /\ \A b \in Brackets : WF_vars(Step(b))

-----------------------------------------------------------------------------
(* Properties *)

(* An entry is in one place: waiting in one bracket, or in the hands of one *)
(* callback, or in one match that has been formed; whatever fails, no       *)
(* borrow, restore or retry makes a second one of it.                       *)
HeldBy(i)   == {b \in Brackets : i \in op[b].sel /\ op[b].pc # "notify"}
StoredIn(i) == {b \in Brackets : i \in store[b]}
FormedIn(i) == {f \in formed : i \in f}

EntryInOnePlace ==
  \A i \in Entries :
    Cardinality(HeldBy(i)) + Cardinality(StoredIn(i)) + Cardinality(FormedIn(i)) <= 1

(* "A 1v1 match has exactly 2 players": a match is formed of two entries,   *)
(* and they are of two players as long as one who stands in two brackets is *)
(* not borrowed by himself. A rating that has moved makes a player do that; *)
(* within one bracket nothing pairs him with himself, however often he      *)
(* joins again and whatever is borrowed, restored or retried meanwhile.     *)
MatchOfTwo ==
  \A f \in formed :
    /\ Cardinality(f) = 2
    /\ \A i, j \in f : Who(i) = Who(j) => i = j \/ Home(i) # Home(j)

(* A waiter with an open socket who has joined the bracket once is          *)
(* remembered: there is an entry, or a callback that will form or restore   *)
(* it, or a match has been formed of it, whose pending key the proxy finds. *)
Once(i) == \A j \in Entries : Who(j) = Who(i) /\ Home(j) = Home(i) => j = i

Remembered(i) ==
  \/ i \in store[Home(i)]
  \/ \E a \in Brackets : i \in op[a].sel
  \/ FormedIn(i) # {}

(* Nothing but a lost call, a reset, or a loan to a bracket that has been   *)
(* reset meanwhile ever makes the queue forget a waiter: no borrow, failed  *)
(* match or failed alarm does.                                              *)
LendsToNobody(b) == op[b].kind = "lend" /\ \A a \in Brackets : ~Asks(a, b)

WaitersAreRemembered ==
  [][\A b \in Brackets : \A i \in sock[b] \cap sock'[b] :
       Once(i) /\ Remembered(i) =>
         \/ Remembered(i)'
         \/ faults' # faults
         \/ \E a \in Brackets : ResetObject(a) \/ LendsToNobody(a)]_vars

(* A bracket with somebody waiting that is not at work has its alarm set.   *)
Waiting(b) == store[b] \cap sock[b]

WaitersHaveAnAlarm ==
  \A b \in Brackets : op[b] = Idle /\ Waiting(b) # {} => alarm[b] # 0

(* Two waiters of a bracket do not wait for ever, whatever has failed.      *)
PairsAreFormed == \A b \in Brackets : []<>(Cardinality(Waiting(b)) < 2)

(* A bracket does not block for ever: what it waits for answers or fails.   *)
BracketUnblocks == \A b \in Brackets : []<>(op[b] = Idle)
=============================================================================
