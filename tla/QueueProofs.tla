----------------------------- MODULE QueueProofs -----------------------------
(***************************************************************************)
(* Theorems about module Queue: any number of brackets, players, joins and  *)
(* failures.                                                                *)
(***************************************************************************)
EXTENDS Queue, TLAPS, FiniteSetTheorems

Joins == [who : Players, home : Brackets]
Ops == [kind : {"none", "join", "alarm", "lend"},
        pc : {"idle", "form", "forming", "notify", "restore", "borrow", "borrowing",
              "borrowed", "broken"},
        sel : SUBSET Nat, asks : Seq(Brackets), self : Nat]

Typed ==
  /\ joined \in Seq(Joins) /\ Len(joined) <= MaxJoins
  /\ store \in [Brackets -> SUBSET Nat]
  /\ sock \in [Brackets -> SUBSET Nat]
  /\ closing \in [Brackets -> SUBSET Nat]
  /\ alarm \in [Brackets -> Nat]
  /\ op \in [Brackets -> Ops]
  /\ faults \in 0..MaxFaults

(* Whoever is waiting, has a socket or is in a callback's hands has joined;  *)
(* entries and sockets are where the join was, and a player has one entry    *)
(* in a bracket.                                                             *)
KnownIn(b) ==
  /\ store[b] \subseteq Entries /\ sock[b] \subseteq Entries /\ closing[b] \subseteq Entries
  /\ op[b].sel \subseteq Entries
  /\ alarm[b] \in {0} \cup Entries /\ op[b].self \in {0} \cup Entries
  /\ \A i \in store[b] \cup sock[b] \cup closing[b] : Home(i) = b
  /\ \A i, j \in store[b] : Who(i) = Who(j) => i = j
  /\ sock[b] \cap closing[b] = {}

HistoryOK ==
  /\ formed \subseteq SUBSET Entries /\ told \subseteq Entries
  /\ \A i \in Entries : Home(i) \in JoinsIn[Who(i)]

(* Where a callback is, and what it has in its hands there; a widening      *)
(* alarm has one waiter left, whom nobody else touches meanwhile.           *)
CallbackOK(o, waiters) ==
  /\ o.kind = "none" <=> o = Idle
  /\ o.kind # "none" <=> o.pc # "idle"
  /\ o.kind \in {"join", "alarm"} <=> o.self # 0
  /\ o.asks # <<>> => o.kind = "alarm" /\ o.pc # "form"
  /\ o.pc \in {"borrow", "borrowing", "borrowed", "broken"} => o.asks # <<>>
  /\ o.pc \in {"form", "borrow", "borrowing", "broken"} => o.sel = {}
  /\ o.pc \in {"borrow", "borrowing", "borrowed"} => \E i \in Nat : waiters = {i}
  /\ o.pc = "borrowed" => o.sel = {} \/ \E i \in Nat : o.sel = {i}

(* A bracket asks others than itself, and what it has borrowed is theirs. *)
AsksOthers(b) ==
  /\ \A k \in 1..Len(op[b].asks) : op[b].asks[k] # b
  /\ op[b].pc = "borrowed" => \A i \in op[b].sel : Home(i) # b

(* A bracket with somebody waiting has its alarm set, unless the callback   *)
(* that runs is the alarm's, or the waiter is the one whose join runs.      *)
AlarmOK(o, waiters, sockets, time) ==
  o.kind # "alarm" /\ ((waiters \cup o.sel) \cap sockets) \ {o.self} # {} => time # 0

BracketOK(b) ==
  /\ KnownIn(b) /\ AsksOthers(b)
  /\ CallbackOK(op[b], store[b])
  /\ AlarmOK(op[b], store[b], sock[b], alarm[b])

(* A neighbour that is asked is lending, to one bracket. *)
LendersOK ==
  \A a, b \in Brackets : Asks(a, b) =>
    /\ op[b].kind = "lend"
    /\ \A c \in Brackets : Asks(c, b) => c = a

(* An entry is in one place: EntryInOnePlace, without counting. *)
Held(b, i) == i \in op[b].sel /\ op[b].pc # "notify"

PlacesOK ==
  /\ \A a, b \in Brackets : \A i \in Entries :
       /\ i \in store[a] /\ i \in store[b] => a = b
       /\ Held(a, i) /\ Held(b, i) => a = b
       /\ ~(i \in store[a] /\ Held(b, i))
  /\ \A f \in formed : \A i \in f : \A b \in Brackets : i \notin store[b] /\ ~Held(b, i)
  /\ \A f, g \in formed : f \cap g # {} => f = g

(* Two entries of two players, or of one who has joined in two brackets. *)
IsPair(f) ==
  \E i, j \in Entries : f = {i, j} /\ i # j /\ (Who(i) = Who(j) => Home(i) # Home(j))

(* A match is formed of a pair, and whoever is told of one is in it. *)
PairsOK ==
  /\ \A b \in Brackets : op[b].pc = "forming" => IsPair(op[b].sel)
  /\ \A f \in formed : IsPair(f)
  /\ \A b \in Brackets : op[b].pc = "notify" => \E f \in formed : op[b].sel \subseteq f

QueueInv ==
  /\ Typed /\ HistoryOK /\ LendersOK /\ PlacesOK /\ PairsOK
  /\ \A b \in Brackets : BracketOK(b)

-----------------------------------------------------------------------------
(* Values *)

LEMMA SmallestIs ==
  ASSUME NEW S \in SUBSET Nat, S # {}
  PROVE  Oldest(S) \in S /\ \A j \in S : Oldest(S) <= j
<1>1. IsWellFoundedOn({ss \in Nat \X Nat : ss[1] < ss[2]}, Nat)
  BY NatLessThanWellFounded DEF OpToRel
<1>2. \E i \in S : \A j \in S : <<j, i>> \notin {ss \in Nat \X Nat : ss[1] < ss[2]}
  BY <1>1, WFMin
<1>3. PICK i \in S : \A j \in S : <<j, i>> \notin {ss \in Nat \X Nat : ss[1] < ss[2]}
  BY <1>2
<1>4. ASSUME NEW j \in S PROVE i <= j
  <2>1. <<j, i>> \in Nat \X Nat /\ <<j, i>>[1] = j /\ <<j, i>>[2] = i
    OBVIOUS
  <2>2. ~(<<j, i>>[1] < <<j, i>>[2])
    BY <2>1, <1>3
  <2> QED
    BY <2>1, <2>2
<1> QED
  BY <1>4 DEF Oldest

LEMMA EntriesAre ==
  ASSUME Typed
  PROVE  /\ Len(joined) \in Nat /\ Entries \subseteq Nat /\ 0 \notin Entries
         /\ \A i \in Entries : /\ joined[i] \in Joins /\ Who(i) \in Players /\ Home(i) \in Brackets
                               /\ Who(i) = joined[i].who /\ Home(i) = joined[i].home
<1>1. joined \in Seq(Joins) /\ Len(joined) \in Nat
  BY DEF Typed
<1>2. \A i \in 1..Len(joined) : joined[i] \in Joins
  BY <1>1
<1> QED
  BY <1>1, <1>2 DEF Entries, Who, Home, Joins

LEMMA SomeAre ==
  ASSUME NEW n \in Nat, NEW S \in SUBSET (1..n)
  PROVE  /\ Cardinality(S) < 2 => S = {} \/ \E i \in S : S = {i}
         /\ Cardinality(S) >= 2 => S # {} /\ \A i \in S : S # {i}
         /\ Cardinality(S) = 1 => \E i \in S : S = {i}
<1>1. IsFiniteSet(S)
  <2>1. S \in SUBSET Nat /\ \A i \in S : i <= n
    OBVIOUS
  <2> QED
    BY <2>1, FS_BoundedSetOfNaturals
<1>2. Cardinality(S) \in Nat /\ (Cardinality(S) = 0 <=> S = {})
  BY <1>1, FS_CardinalityType, FS_EmptySet
<1>3. Cardinality(S) = 1 <=> \E i : S = {i}
  BY <1>1, FS_Singleton
<1> QED
  BY <1>2, <1>3

LEMMA HeadIs ==
  ASSUME NEW s \in Seq(Brackets), s # <<>>
  PROVE  /\ Len(s) \in Nat /\ 1 \in 1..Len(s)
         /\ Head(s) = s[1] /\ Head(s) \in Brackets
         /\ Tail(s) \in Seq(Brackets)
         /\ \A k \in 1..Len(Tail(s)) : k + 1 \in 1..Len(s) /\ Tail(s)[k] = s[k + 1]
OBVIOUS

LEMMA JoinIs ==
  ASSUME NEW s \in Seq(Joins), NEW x \in Joins
  PROVE  /\ Append(s, x) \in Seq(Joins) /\ Len(Append(s, x)) = Len(s) + 1
         /\ \A i \in 1..Len(s) : Append(s, x)[i] = s[i]
         /\ Append(s, x)[Len(s) + 1] = x
OBVIOUS

LEMMA OpsAre ==
  /\ Idle \in Ops /\ Idle.kind = "none" /\ Idle.pc = "idle" /\ Idle.sel = {}
  /\ Idle.asks = <<>> /\ Idle.self = 0
  /\ \A kind \in {"join", "alarm", "lend"}, i \in Nat :
       /\ Starts(kind, i) \in Ops /\ Starts(kind, i).kind = kind /\ Starts(kind, i).pc = "form"
       /\ Starts(kind, i).sel = {} /\ Starts(kind, i).asks = <<>> /\ Starts(kind, i).self = i
BY DEF Idle, Starts, Ops

LEMMA InvParts ==
  ASSUME QueueInv
  PROVE  /\ Typed /\ HistoryOK /\ LendersOK /\ PlacesOK /\ PairsOK
         /\ \A b \in Brackets :
              /\ BracketOK(b) /\ KnownIn(b) /\ AsksOthers(b)
              /\ CallbackOK(op[b], store[b])
              /\ AlarmOK(op[b], store[b], sock[b], alarm[b])
              /\ op[b] \in Ops /\ store[b] \in SUBSET Nat /\ sock[b] \in SUBSET Nat
              /\ closing[b] \in SUBSET Nat /\ alarm[b] \in Nat
BY DEF QueueInv, BracketOK, Typed

LEMMA ScheduleIs ==
  ASSUME Typed, NEW S \in SUBSET Entries, NEW b
  PROVE  /\ Schedule(b, S) \in {0} \cup Entries
         /\ S # {} => Schedule(b, S) # 0
<1>1. Entries \subseteq Nat /\ 0 \notin Entries
  BY EntriesAre
<1>2. ASSUME S # {} PROVE Oldest(S) \in S
  BY <1>1, <1>2, SmallestIs
<1> QED
  BY <1>1, <1>2 DEF Schedule

-----------------------------------------------------------------------------
(* What a step leaves alone *)

LEMMA BracketStays ==
  ASSUME QueueInv, NEW a \in Brackets, Entries \subseteq Entries',
         \A i \in Entries : Who(i)' = Who(i) /\ Home(i)' = Home(i),
         store'[a] = store[a], sock'[a] = sock[a], closing'[a] = closing[a],
         alarm'[a] = alarm[a], op'[a] = op[a]
  PROVE  BracketOK(a)'
<1>1. KnownIn(a) /\ AsksOthers(a) /\ CallbackOK(op[a], store[a])
      /\ AlarmOK(op[a], store[a], sock[a], alarm[a])
  BY InvParts
<1>2. KnownIn(a)'
  BY <1>1 DEF KnownIn
<1>3. AsksOthers(a)'
  BY <1>1 DEF AsksOthers, KnownIn
<1>4. CallbackOK(op[a], store[a])' /\ AlarmOK(op[a], store[a], sock[a], alarm[a])'
  BY <1>1 DEF CallbackOK, AlarmOK, Idle
<1> QED
  BY <1>2, <1>3, <1>4 DEF BracketOK

LEMMA JoinsStay ==
  ASSUME joined' = joined
  PROVE  Entries' = Entries /\ \A i : Who(i)' = Who(i) /\ Home(i)' = Home(i)
BY DEF Entries, Who, Home

LEMMA HistoryStays ==
  ASSUME QueueInv, joined' = joined, formed' \subseteq SUBSET Entries, told' \subseteq Entries
  PROVE  HistoryOK'
BY InvParts, JoinsStay DEF HistoryOK

LEMMA LendersStay ==
  ASSUME QueueInv,
         \A a, b \in Brackets : Asks(a, b)' => Asks(a, b) /\ op'[b].kind = op[b].kind
  PROVE  LendersOK'
BY InvParts DEF LendersOK

(* Nothing comes to a bracket from another one. *)
LEMMA PlacesStay ==
  ASSUME QueueInv, joined' = joined, formed' = formed,
         \A b \in Brackets, i \in Entries :
           /\ i \in store'[b] \/ Held(b, i)' => i \in store[b] \/ Held(b, i)
           /\ ~(i \in store'[b] /\ Held(b, i)')
  PROVE  PlacesOK'
<1>1. PlacesOK /\ formed \subseteq SUBSET Entries
  BY InvParts DEF HistoryOK
<1>2. ASSUME NEW a \in Brackets, NEW b \in Brackets, NEW i \in Entries
      PROVE  /\ i \in store'[a] /\ i \in store'[b] => a = b
             /\ Held(a, i)' /\ Held(b, i)' => a = b
             /\ ~(i \in store'[a] /\ Held(b, i)')
  BY <1>1 DEF PlacesOK
<1>3. ASSUME NEW f \in formed, NEW i \in f, NEW b \in Brackets
      PROVE  i \notin store'[b] /\ ~Held(b, i)'
  BY <1>1 DEF PlacesOK
<1>4. \A f, g \in formed : f \cap g # {} => f = g
  BY <1>1 DEF PlacesOK
<1> QED
  BY <1>2, <1>3, <1>4, JoinsStay DEF PlacesOK

LEMMA PairsStay ==
  ASSUME QueueInv, joined' = joined, formed' = formed,
         \A a \in Brackets :
           /\ op'[a].pc = "forming" => op[a].pc = "forming" /\ op'[a].sel = op[a].sel
           /\ op'[a].pc = "notify" => op[a].pc = "notify" /\ op'[a].sel \subseteq op[a].sel
  PROVE  PairsOK'
<1>1. PairsOK
  BY InvParts
<1>2. \A f : IsPair(f)' = IsPair(f)
  BY JoinsStay DEF IsPair
<1> QED
  BY <1>1, <1>2 DEF PairsOK

(* A step of one bracket, without other brackets and without a new match. *)
LEMMA OwnStep ==
  ASSUME QueueInv, NEW b \in Brackets, Typed', BracketOK(b)',
         joined' = joined, formed' = formed, told' = told,
         \A a \in Brackets \ {b} :
           /\ op'[a] = op[a] /\ store'[a] = store[a] /\ alarm'[a] = alarm[a]
           /\ sock'[a] = sock[a] /\ closing'[a] = closing[a],
         op'[b] = op[b] \/ op'[b].pc # "borrowing",
         op'[b].kind = op[b].kind \/ op[b].kind # "lend",
         \A i \in Entries :
           /\ i \in store'[b] \/ Held(b, i)' => i \in store[b] \/ Held(b, i)
           /\ ~(i \in store'[b] /\ Held(b, i)'),
         op'[b].pc = "forming" => IsPair(op'[b].sel),
         op'[b].pc = "notify" => op[b].pc = "notify" /\ op'[b].sel \subseteq op[b].sel
  PROVE  QueueInv'
<1>1. HistoryOK' /\ Entries' = Entries /\ \A i : Who(i)' = Who(i) /\ Home(i)' = Home(i)
  BY HistoryStays, JoinsStay, InvParts DEF HistoryOK
<1>2. \A a \in Brackets \ {b} : BracketOK(a)'
  BY <1>1, BracketStays
<1>3. LendersOK'
  <2>1. ASSUME NEW a \in Brackets, NEW c \in Brackets, Asks(a, c)'
        PROVE  Asks(a, c) /\ op'[c].kind = op[c].kind
    <3>1. Asks(a, c)
      BY <2>1 DEF Asks
    <3>2. op[c].kind = "lend"
      BY <3>1, InvParts DEF LendersOK
    <3> QED
      BY <3>1, <3>2
  <2> QED
    BY <2>1, LendersStay
<1>4. PlacesOK'
  <2>1. ASSUME NEW a \in Brackets \ {b}, NEW i \in Entries
        PROVE  /\ i \in store'[a] \/ Held(a, i)' => i \in store[a] \/ Held(a, i)
               /\ ~(i \in store'[a] /\ Held(a, i)')
    BY InvParts DEF Held, PlacesOK
  <2> QED
    BY <2>1, PlacesStay
<1>5. PairsOK'
  <2>1. \A f : IsPair(f)' = IsPair(f)
    BY <1>1 DEF IsPair
  <2> QED
    BY <2>1, InvParts DEF PairsOK
<1> QED
  BY <1>1, <1>2, <1>3, <1>4, <1>5 DEF QueueInv

-----------------------------------------------------------------------------
(* A callback that goes on. *)

Pcs == {"form", "forming", "notify", "restore", "borrow", "borrowing", "borrowed", "broken"}

Moves(o, p, pc, sel, asks) ==
  p.kind = o.kind /\ p.self = o.self /\ p.pc = pc /\ p.sel = sel /\ p.asks = asks

Continues(b, pc, sel, asks) ==
  /\ op' \in [Brackets -> Ops] /\ Moves(op[b], op'[b], pc, sel, asks)
  /\ \A a \in Brackets \ {b} : op'[a] = op[a]

LEMMA PcIs ==
  ASSUME op \in [Brackets -> Ops], NEW b \in Brackets, NEW pc \in Pcs,
         op' = [op EXCEPT ![b].pc = pc]
  PROVE  Continues(b, pc, op[b].sel, op[b].asks)
<1>1. PICK o \in Ops : o = op[b]
  OBVIOUS
<1>2. op' = [op EXCEPT ![b] = [o EXCEPT !.pc = pc]]
  BY <1>1
<1>3. [o EXCEPT !.pc = pc] \in Ops
  BY DEF Ops, Pcs
<1>4. Moves(o, [o EXCEPT !.pc = pc], pc, o.sel, o.asks)
  BY DEF Ops, Moves
<1> QED
  BY <1>1, <1>2, <1>3, <1>4 DEF Continues

LEMMA SelIs ==
  ASSUME op \in [Brackets -> Ops], NEW b \in Brackets, NEW sel \in SUBSET Nat,
         op' = [op EXCEPT ![b].sel = sel]
  PROVE  Continues(b, op[b].pc, sel, op[b].asks)
<1>1. PICK o \in Ops : o = op[b]
  OBVIOUS
<1>2. op' = [op EXCEPT ![b] = [o EXCEPT !.sel = sel]]
  BY <1>1
<1>3. [o EXCEPT !.sel = sel] \in Ops
  BY DEF Ops
<1>4. Moves(o, [o EXCEPT !.sel = sel], o.pc, sel, o.asks)
  BY DEF Ops, Moves
<1> QED
  BY <1>1, <1>2, <1>3, <1>4 DEF Continues

LEMMA PcSelIs ==
  ASSUME op \in [Brackets -> Ops], NEW b \in Brackets, NEW pc \in Pcs, NEW sel \in SUBSET Nat,
         op' = [op EXCEPT ![b].pc = pc, ![b].sel = sel]
  PROVE  Continues(b, pc, sel, op[b].asks)
<1>1. PICK o \in Ops : o = op[b]
  OBVIOUS
<1>2. op' = [op EXCEPT ![b] = [o EXCEPT !.pc = pc, !.sel = sel]]
  BY <1>1
<1>3. [o EXCEPT !.pc = pc, !.sel = sel] \in Ops
  BY DEF Ops, Pcs
<1>4. Moves(o, [o EXCEPT !.pc = pc, !.sel = sel], pc, sel, o.asks)
  BY DEF Ops, Moves
<1> QED
  BY <1>1, <1>2, <1>3, <1>4 DEF Continues

LEMMA PcAsksIs ==
  ASSUME op \in [Brackets -> Ops], NEW b \in Brackets, NEW pc \in Pcs, NEW asks \in Seq(Brackets),
         op' = [op EXCEPT ![b].pc = pc, ![b].asks = asks]
  PROVE  Continues(b, pc, op[b].sel, asks)
<1>1. PICK o \in Ops : o = op[b]
  OBVIOUS
<1>2. op' = [op EXCEPT ![b] = [o EXCEPT !.pc = pc, !.asks = asks]]
  BY <1>1
<1>3. [o EXCEPT !.pc = pc, !.asks = asks] \in Ops
  BY DEF Ops, Pcs
<1>4. Moves(o, [o EXCEPT !.pc = pc, !.asks = asks], pc, o.sel, asks)
  BY DEF Ops, Moves
<1> QED
  BY <1>1, <1>2, <1>3, <1>4 DEF Continues

-----------------------------------------------------------------------------
(* Steps of one bracket *)

(* Waiters that leave a bracket, or move to the hands of its callback. *)
LEMMA KnownStays ==
  ASSUME QueueInv, NEW b \in Brackets, joined' = joined,
         store'[b] \subseteq store[b], sock'[b] \subseteq sock[b],
         closing'[b] \subseteq closing[b] \cup (sock[b] \ sock'[b]),
         op'[b].sel \subseteq Entries, op'[b].self \in {0} \cup Entries, alarm'[b] \in {0} \cup Entries
  PROVE  KnownIn(b)'
BY InvParts, JoinsStay DEF KnownIn

LEMMA ReturnsIs ==
  ASSUME QueueInv, NEW b \in Brackets, Returns(b)
  PROVE  /\ op' \in [Brackets -> Ops] /\ op'[b] = Idle /\ \A a \in Brackets \ {b} : op'[a] = op[a]
         /\ alarm' \in [Brackets -> Nat] /\ \A a \in Brackets \ {b} : alarm'[a] = alarm[a]
         /\ alarm'[b] \in {0} \cup Entries /\ (store[b] # {} => alarm'[b] # 0)
<1>1. Schedule(b, store[b]) \in {0} \cup Entries /\ (store[b] # {} => Schedule(b, store[b]) # 0)
  BY InvParts, ScheduleIs DEF KnownIn
<1>2. Schedule(b, store[b]) \in Nat /\ alarm \in [Brackets -> Nat] /\ op \in [Brackets -> Ops]
  BY <1>1, InvParts, EntriesAre DEF Typed
<1> QED
  BY <1>1, <1>2, OpsAre DEF Returns

(* A callback that returns to an idle bracket. *)
LEMMA ReturnsKeeps ==
  ASSUME QueueInv, NEW b \in Brackets, Returns(b), op[b].kind # "lend",
         UNCHANGED <<joined, store, sock, closing, formed, told, faults>>
  PROVE  QueueInv'
<1>1. /\ op' \in [Brackets -> Ops] /\ op'[b] = Idle /\ \A a \in Brackets \ {b} : op'[a] = op[a]
      /\ alarm' \in [Brackets -> Nat] /\ \A a \in Brackets \ {b} : alarm'[a] = alarm[a]
      /\ alarm'[b] \in {0} \cup Entries /\ (store[b] # {} => alarm'[b] # 0)
  BY ReturnsIs
<1>2. Typed'
  BY <1>1, InvParts DEF Typed
<1>3. KnownIn(b)' /\ AsksOthers(b)'
  BY <1>1, OpsAre, KnownStays DEF AsksOthers
<1>4. CallbackOK(op[b], store[b])' /\ AlarmOK(op[b], store[b], sock[b], alarm[b])'
  BY <1>1, OpsAre DEF CallbackOK, AlarmOK, Idle
<1>5. \A i \in Entries :
        /\ i \in store'[b] \/ Held(b, i)' => i \in store[b] \/ Held(b, i)
        /\ ~(i \in store'[b] /\ Held(b, i)')
  BY <1>1, OpsAre DEF Held
<1> QED
  BY <1>1, <1>2, <1>3, <1>4, <1>5, OpsAre, OwnStep DEF BracketOK

(* A callback that goes on, with waiters of its own bracket. *)
LEMMA ContinuesKeeps ==
  ASSUME QueueInv, NEW b \in Brackets,
         NEW pc \in Pcs \ {"borrowing", "borrowed"}, NEW sel, NEW asks,
         Continues(b, pc, sel, asks), op[b].kind # "none",
         store' \in [Brackets -> SUBSET Nat], store'[b] \subseteq store[b],
         \A a \in Brackets \ {b} : store'[a] = store[a],
         joined' = joined, sock' = sock, closing' = closing, alarm' = alarm,
         formed' = formed, told' = told, faults' \in 0..MaxFaults,
         sel \subseteq op[b].sel \cup (store[b] \ store'[b]),
         \A k \in 1..Len(asks) : asks[k] # b,
         asks # <<>> => op[b].kind = "alarm" /\ pc # "form",
         pc \in {"borrow", "broken"} => asks # <<>>,
         pc \in {"form", "borrow", "broken"} => sel = {},
         pc = "borrow" => \E i \in Nat : store'[b] = {i},
         pc = "forming" => IsPair(sel),
         pc = "notify" => op[b].pc = "notify" /\ sel \subseteq op[b].sel,
         op[b].pc = "notify" => pc = "notify" \/ sel = {}
  PROVE  QueueInv'
<1>1. /\ op' \in [Brackets -> Ops] /\ \A a \in Brackets \ {b} : op'[a] = op[a]
      /\ op'[b].kind = op[b].kind /\ op'[b].self = op[b].self
      /\ op'[b].pc = pc /\ op'[b].sel = sel /\ op'[b].asks = asks
  BY DEF Continues, Moves
<1>2. Typed'
  BY <1>1, InvParts DEF Typed
<1>3. KnownIn(b)'
  BY <1>1, InvParts, KnownStays DEF KnownIn
<1>4. AsksOthers(b)'
  BY <1>1 DEF AsksOthers
<1>5. op'[b] # Idle /\ op[b] # Idle /\ pc # "idle"
  BY <1>1, OpsAre DEF Pcs
<1>6. CallbackOK(op[b], store[b])'
  BY <1>1, <1>5, InvParts DEF CallbackOK
<1>7. AlarmOK(op[b], store[b], sock[b], alarm[b])'
  <2>1. AlarmOK(op[b], store[b], sock[b], alarm[b]) /\ store'[b] \cup sel \subseteq store[b] \cup op[b].sel
    BY InvParts
  <2> QED
    BY <1>1, <2>1 DEF AlarmOK
<1>8. \A i \in Entries :
        /\ i \in store'[b] \/ Held(b, i)' => i \in store[b] \/ Held(b, i)
        /\ ~(i \in store'[b] /\ Held(b, i)')
  BY <1>1, InvParts DEF Held, PlacesOK
<1> QED
  BY <1>1, <1>2, <1>3, <1>4, <1>6, <1>7, <1>8, OwnStep DEF BracketOK
LEMMA SelectPairKeeps ==
  ASSUME QueueInv, NEW b \in Brackets, SelectPair(b)
  PROVE  QueueInv'
<1>1. /\ op \in [Brackets -> Ops] /\ store \in [Brackets -> SUBSET Nat] /\ store[b] \subseteq Entries
      /\ \A i, j \in store[b] : Who(i) = Who(j) => i = j
  BY InvParts DEF Typed, KnownIn
<1>2. /\ op[b].pc = "form" /\ Cardinality(store[b]) >= 2
      /\ joined' = joined /\ sock' = sock /\ closing' = closing /\ alarm' = alarm
      /\ formed' = formed /\ told' = told /\ faults' = faults
  BY DEF SelectPair
<1>3. PICK i, j \in store[b] :
        /\ i # j /\ store' = [store EXCEPT ![b] = @ \ {i, j}]
        /\ op' = [op EXCEPT ![b].pc = "forming", ![b].sel = {i, j}]
  <2>1. store[b] # {} /\ \A i \in store[b] : store[b] # {i}
    BY <1>1, <1>2, SomeAre, EntriesAre, InvParts DEF Entries
  <2>2. Oldest(store[b]) \in store[b]
    BY <2>1, <1>1, SmallestIs
  <2>3. store[b] \ {Oldest(store[b])} # {}
    BY <2>1, <2>2
  <2>4. Oldest(store[b] \ {Oldest(store[b])}) \in store[b] \ {Oldest(store[b])}
    BY <2>3, <1>1, SmallestIs
  <2> QED
    BY <2>2, <2>4 DEF SelectPair
<1>4. {i, j} \in SUBSET Nat
  BY <1>1
<1>5. Continues(b, "forming", {i, j}, op[b].asks)
  BY <1>1, <1>3, <1>4, PcSelIs DEF Pcs
<1>6. /\ store' \in [Brackets -> SUBSET Nat] /\ store'[b] = store[b] \ {i, j}
      /\ \A a \in Brackets \ {b} : store'[a] = store[a]
  BY <1>1, <1>3
<1>7. IsPair({i, j})
  BY <1>1, <1>3 DEF IsPair
<1>8. op[b].kind # "none" /\ op[b].asks = <<>> /\ Len(<<>>) = 0
  BY <1>2, InvParts, OpsAre DEF CallbackOK
<1>9. faults' \in 0..MaxFaults
  BY <1>2, InvParts DEF Typed
<1> QED
  BY <1>2, <1>3, <1>5, <1>6, <1>7, <1>8, <1>9, ContinuesKeeps DEF Pcs

LEMMA FailsIs ==
  ASSUME Typed, NEW kind, Fails(kind)
  PROVE  faults' \in 0..MaxFaults /\ faults' # faults
BY QueueAssumption DEF Typed, Fails

LEMMA FormFailsKeeps ==
  ASSUME QueueInv, NEW b \in Brackets, FormFails(b)
  PROVE  QueueInv'
<1>1. /\ op[b].pc = "forming" /\ op' = [op EXCEPT ![b].pc = "restore"] /\ store' = store
      /\ joined' = joined /\ sock' = sock /\ closing' = closing /\ alarm' = alarm
      /\ formed' = formed /\ told' = told
  BY DEF FormFails
<1>2. faults' \in 0..MaxFaults
  BY InvParts, FailsIs DEF FormFails
<1>3. op \in [Brackets -> Ops] /\ store \in [Brackets -> SUBSET Nat]
  BY InvParts DEF Typed
<1>4. Continues(b, "restore", op[b].sel, op[b].asks)
  BY <1>1, <1>3, PcIs DEF Pcs
<1>5. /\ op[b].kind # "none" /\ (op[b].asks # <<>> => op[b].kind = "alarm")
      /\ \A k \in 1..Len(op[b].asks) : op[b].asks[k] # b
  BY <1>1, InvParts, OpsAre DEF CallbackOK, AsksOthers
<1> QED
  BY <1>1, <1>2, <1>3, <1>4, <1>5, ContinuesKeeps DEF Pcs

(* A waiter who cannot be told, or put back, is let go. *)
LEMMA LetGoKeeps ==
  ASSUME QueueInv, NEW b \in Brackets, NEW i \in op[b].sel, op[b].pc \in {"notify", "restore"},
         op' = [op EXCEPT ![b].sel = @ \ {i}], faults' \in 0..MaxFaults,
         joined' = joined, store' = store, sock' = sock, closing' = closing, alarm' = alarm,
         formed' = formed, told' = told
  PROVE  QueueInv'
<1>1. op \in [Brackets -> Ops] /\ store \in [Brackets -> SUBSET Nat] /\ op[b].sel \in SUBSET Nat
  BY InvParts DEF Typed, Ops
<1>2. PICK sel \in SUBSET Nat : sel = op[b].sel \ {i}
  BY <1>1
<1>3. op' = [op EXCEPT ![b].sel = sel]
  BY <1>2
<1>4. Continues(b, op[b].pc, sel, op[b].asks)
  BY <1>1, <1>3, SelIs
<1>5. /\ op[b].kind # "none" /\ (op[b].asks # <<>> => op[b].kind = "alarm")
      /\ \A k \in 1..Len(op[b].asks) : op[b].asks[k] # b
  BY InvParts, OpsAre DEF CallbackOK, AsksOthers
<1>6. op[b].pc \in Pcs \ {"borrowing", "borrowed"}
  BY DEF Pcs
<1> QED
  BY <1>1, <1>2, <1>4, <1>5, <1>6, ContinuesKeeps

LEMMA NotifyFailsKeeps ==
  ASSUME QueueInv, NEW b \in Brackets, NotifyFails(b)
  PROVE  QueueInv'
<1>1. faults' \in 0..MaxFaults
  BY InvParts, FailsIs DEF NotifyFails
<1>2. PICK i \in op[b].sel : op' = [op EXCEPT ![b].sel = @ \ {i}]
  BY DEF NotifyFails
<1>3. op[b].pc = "notify" /\ UNCHANGED <<joined, store, sock, closing, alarm, formed, told>>
  BY DEF NotifyFails
<1> QED
  BY <1>1, <1>2, <1>3, LetGoKeeps

LEMMA RestoreFailsKeeps ==
  ASSUME QueueInv, NEW b \in Brackets, RestoreFails(b)
  PROVE  QueueInv'
<1>1. faults' \in 0..MaxFaults
  BY InvParts, FailsIs DEF RestoreFails
<1>2. PICK i \in op[b].sel : op' = [op EXCEPT ![b].sel = @ \ {i}]
  BY DEF RestoreFails
<1>3. op[b].pc = "restore" /\ UNCHANGED <<joined, store, sock, closing, alarm, formed, told>>
  BY DEF RestoreFails
<1> QED
  BY <1>1, <1>2, <1>3, LetGoKeeps

LEMMA NotifiedKeeps ==
  ASSUME QueueInv, NEW b \in Brackets, Notified(b)
  PROVE  QueueInv'
<1>1. op[b].pc = "notify" /\ op[b].sel = {} /\ UNCHANGED <<joined, store, sock, closing, formed, told, faults>>
  BY DEF Notified
<1>2. CallbackOK(op[b], store[b]) /\ op[b].kind # "none"
  BY <1>1, InvParts, OpsAre DEF CallbackOK
<1>3. CASE op[b].asks = <<>>
  <2>1. op' = [op EXCEPT ![b].pc = "form"] /\ alarm' = alarm
    BY <1>3 DEF Notified
  <2>2. /\ op \in [Brackets -> Ops] /\ store \in [Brackets -> SUBSET Nat]
        /\ faults' \in 0..MaxFaults
    BY <1>1, InvParts DEF Typed
  <2>3. Continues(b, "form", {}, <<>>)
    BY <1>1, <1>3, <2>1, <2>2, PcIs DEF Pcs
  <2> QED
    BY <1>1, <1>2, <2>1, <2>2, <2>3, ContinuesKeeps DEF Pcs
<1>4. CASE op[b].asks # <<>>
  BY <1>1, <1>2, <1>4, ReturnsKeeps DEF Notified, CallbackOK
<1> QED
  BY <1>3, <1>4

LEMMA EndJoinKeeps ==
  ASSUME QueueInv, NEW b \in Brackets, EndJoin(b)
  PROVE  QueueInv'
BY ReturnsKeeps DEF EndJoin

LEMMA EndAlarmKeeps ==
  ASSUME QueueInv, NEW b \in Brackets, EndAlarm(b)
  PROVE  QueueInv'
BY ReturnsKeeps DEF EndAlarm

LEMMA WidenKeeps ==
  ASSUME QueueInv, NEW b \in Brackets, Widen(b)
  PROVE  QueueInv'
<1>1. /\ op[b].kind = "alarm" /\ op[b].pc = "form" /\ Cardinality(store[b]) = 1
      /\ op' = [op EXCEPT ![b].pc = "borrow", ![b].asks = Neighbors[b]]
      /\ UNCHANGED <<joined, store, sock, closing, alarm, formed, told, faults>>
  BY DEF Widen
<1>2. /\ op \in [Brackets -> Ops] /\ store \in [Brackets -> SUBSET Nat] /\ store[b] \subseteq Entries
      /\ faults' \in 0..MaxFaults /\ op[b].sel = {} /\ op[b].pc # "notify"
  BY <1>1, InvParts DEF Typed, KnownIn, CallbackOK
<1>3. PICK asks \in Seq(Brackets) : /\ asks = Neighbors[b] /\ asks # <<>>
                                    /\ \A k \in 1..Len(asks) : asks[k] # b
  BY QueueAssumption
<1>4. Continues(b, "borrow", {}, asks)
  BY <1>1, <1>2, <1>3, PcAsksIs DEF Pcs
<1>5. \E i \in Nat : store[b] = {i}
  <2>1. Len(joined) \in Nat /\ store[b] \subseteq 1..Len(joined)
    BY <1>2, EntriesAre, InvParts DEF Entries
  <2>2. PICK i \in store[b] : store[b] = {i}
    BY <1>1, <2>1, SomeAre
  <2> QED
    BY <2>1, <2>2
<1> QED
  BY <1>1, <1>2, <1>3, <1>4, <1>5, ContinuesKeeps DEF Pcs

LEMMA NothingBorrowedKeeps ==
  ASSUME QueueInv, NEW b \in Brackets, NothingBorrowed(b)
  PROVE  QueueInv'
<1>1. /\ op[b].pc = "borrowed" /\ op[b].sel = {}
      /\ UNCHANGED <<joined, store, sock, closing, formed, told, faults>>
  BY DEF NothingBorrowed
<1>2. /\ CallbackOK(op[b], store[b]) /\ op[b].kind = "alarm" /\ op[b].asks # <<>>
      /\ \E i \in Nat : store[b] = {i}
      /\ \A k \in 1..Len(op[b].asks) : op[b].asks[k] # b
  BY <1>1, InvParts DEF CallbackOK, AsksOthers
<1>3. CASE Tail(op[b].asks) = <<>>
  BY <1>1, <1>2, <1>3, ReturnsKeeps DEF NothingBorrowed
<1>4. CASE Tail(op[b].asks) # <<>>
  <2>1. op' = [op EXCEPT ![b].pc = "borrow", ![b].asks = Tail(op[b].asks)] /\ alarm' = alarm
    BY <1>4 DEF NothingBorrowed
  <2>2. /\ op \in [Brackets -> Ops] /\ store \in [Brackets -> SUBSET Nat]
        /\ op[b].asks \in Seq(Brackets) /\ faults' \in 0..MaxFaults
    BY <1>1, InvParts DEF Typed, Ops
  <2>3. PICK asks \in Seq(Brackets) : /\ asks = Tail(op[b].asks) /\ asks # <<>>
                                      /\ \A k \in 1..Len(asks) : asks[k] # b
    <3>1. /\ Tail(op[b].asks) \in Seq(Brackets)
          /\ \A k \in 1..Len(Tail(op[b].asks)) : /\ k + 1 \in 1..Len(op[b].asks)
                                                 /\ Tail(op[b].asks)[k] = op[b].asks[k + 1]
      BY <1>2, <2>2, HeadIs
    <3>2. \A k \in 1..Len(Tail(op[b].asks)) : Tail(op[b].asks)[k] # b
      BY <3>1, <1>2
    <3> QED
      BY <3>1, <3>2, <1>4
  <2>4. Continues(b, "borrow", {}, asks)
    BY <1>1, <2>1, <2>2, <2>3, PcAsksIs DEF Pcs
  <2>5. op[b].kind # "none" /\ op[b].pc # "notify" /\ "borrow" \in Pcs \ {"borrowing", "borrowed"}
    BY <1>1, <1>2 DEF Pcs
  <2> QED
    BY <1>1, <1>2, <2>1, <2>2, <2>3, <2>4, <2>5, ContinuesKeeps
<1> QED
  BY <1>3, <1>4

LEMMA BorrowedKeeps ==
  ASSUME QueueInv, NEW b \in Brackets, Borrowed(b)
  PROVE  QueueInv'
<1>1. /\ op[b].pc = "borrowed" /\ op[b].sel # {}
      /\ op' = [op EXCEPT ![b].pc = "forming", ![b].sel = @ \cup store[b]]
      /\ store' = [store EXCEPT ![b] = {}]
      /\ UNCHANGED <<joined, sock, closing, alarm, formed, told, faults>>
  BY DEF Borrowed
<1>2. /\ op \in [Brackets -> Ops] /\ store \in [Brackets -> SUBSET Nat] /\ op[b].sel \in SUBSET Nat
      /\ faults' \in 0..MaxFaults
      /\ \A i \in store[b] : Home(i) = b
      /\ \A i \in op[b].sel : Home(i) # b
      /\ store[b] \subseteq Entries /\ op[b].sel \subseteq Entries
  BY <1>1, InvParts DEF Typed, KnownIn, AsksOthers, Ops
<1>3. /\ op[b].kind = "alarm" /\ op[b].asks # <<>>
      /\ \A k \in 1..Len(op[b].asks) : op[b].asks[k] # b
  BY <1>1, InvParts DEF CallbackOK, AsksOthers
<1>4. PICK i, j \in Entries : op[b].sel = {i} /\ store[b] = {j}
  <2>1. (\E i \in Nat : op[b].sel = {i}) /\ \E j \in Nat : store[b] = {j}
    BY <1>1, InvParts DEF CallbackOK
  <2> QED
    BY <2>1, <1>2
<1>5. PICK sel \in SUBSET Nat : sel = op[b].sel \cup store[b]
  BY <1>2
<1>6. op' = [op EXCEPT ![b].pc = "forming", ![b].sel = sel]
  BY <1>1, <1>5
<1>7. Continues(b, "forming", sel, op[b].asks)
  BY <1>2, <1>6, PcSelIs DEF Pcs
<1>8. IsPair(sel)
  <2>1. Home(i) # Home(j) /\ i # j /\ sel = {i, j}
    BY <1>2, <1>4, <1>5
  <2> QED
    BY <2>1 DEF IsPair
<1>9. /\ store' \in [Brackets -> SUBSET Nat] /\ store'[b] = {}
      /\ \A a \in Brackets \ {b} : store'[a] = store[a]
  BY <1>1, <1>2
<1> QED
  BY <1>1, <1>2, <1>3, <1>5, <1>7, <1>8, <1>9, ContinuesKeeps DEF Pcs
LEMMA AlarmKeeps ==
  ASSUME QueueInv, NEW b \in Brackets, Alarm(b)
  PROVE  QueueInv'
<1>1. /\ op[b] = Idle /\ alarm[b] # 0 /\ alarm' = [alarm EXCEPT ![b] = 0]
      /\ op' = [op EXCEPT ![b] = Starts("alarm", alarm[b])]
      /\ joined' = joined /\ store' = store /\ sock' = sock /\ closing' = closing
      /\ formed' = formed /\ told' = told /\ faults' = faults
  BY DEF Alarm
<1>2. /\ alarm \in [Brackets -> Nat] /\ op \in [Brackets -> Ops] /\ alarm[b] \in Nat
      /\ alarm[b] \in Entries
  BY <1>1, InvParts DEF Typed, KnownIn
<1>3. PICK o \in Ops : /\ o = Starts("alarm", alarm[b]) /\ o.kind = "alarm" /\ o.pc = "form"
                       /\ o.sel = {} /\ o.asks = <<>> /\ o.self = alarm[b]
  BY <1>2, OpsAre
<1>4. /\ op' \in [Brackets -> Ops] /\ op'[b] = o /\ \A a \in Brackets \ {b} : op'[a] = op[a]
      /\ alarm' \in [Brackets -> Nat] /\ alarm'[b] = 0 /\ \A a \in Brackets \ {b} : alarm'[a] = alarm[a]
  BY <1>1, <1>2, <1>3
<1>5. Typed'
  BY <1>1, <1>4, InvParts DEF Typed
<1>6. KnownIn(b)' /\ AsksOthers(b)'
  BY <1>1, <1>2, <1>3, <1>4, KnownStays DEF AsksOthers
<1>7. o # Idle
  BY <1>3, OpsAre
<1>8. CallbackOK(op[b], store[b])' /\ AlarmOK(op[b], store[b], sock[b], alarm[b])'
  BY <1>1, <1>3, <1>4, <1>7 DEF CallbackOK, AlarmOK
<1>9. \A i \in Entries :
        /\ i \in store'[b] \/ Held(b, i)' => i \in store[b] \/ Held(b, i)
        /\ ~(i \in store'[b] /\ Held(b, i)')
  BY <1>1, <1>3, <1>4 DEF Held
<1> QED
  BY <1>1, <1>3, <1>4, <1>5, <1>6, <1>8, <1>9, OpsAre, OwnStep DEF BracketOK

(* A step that only takes sockets and waiters away. *)
LEMMA LeavesKeeps ==
  ASSUME QueueInv, NEW b \in Brackets,
         joined' = joined, op' = op, alarm' = alarm, formed' = formed, told' = told, faults' = faults,
         store' \in [Brackets -> SUBSET Nat], sock' \in [Brackets -> SUBSET Nat],
         closing' \in [Brackets -> SUBSET Nat],
         \A a \in Brackets \ {b} : store'[a] = store[a] /\ sock'[a] = sock[a] /\ closing'[a] = closing[a],
         store'[b] \subseteq store[b], sock'[b] \subseteq sock[b],
         closing'[b] \subseteq closing[b] \cup (sock[b] \ sock'[b]),
         store'[b] = store[b] \/ op[b] = Idle
  PROVE  QueueInv'
<1>1. Typed'
  BY InvParts DEF Typed
<1>2. KnownIn(b)'
  BY InvParts, KnownStays DEF KnownIn
<1>3. AsksOthers(b)'
  BY InvParts, JoinsStay DEF AsksOthers
<1>4. CallbackOK(op[b], store[b])'
  <2>1. op'[b] = op[b] /\ CallbackOK(op[b], store[b])
    BY InvParts
  <2>2. op[b] = Idle => op[b].pc = "idle"
    BY OpsAre
  <2> QED
    BY <2>1, <2>2 DEF CallbackOK
<1>5. AlarmOK(op[b], store[b], sock[b], alarm[b])'
  BY InvParts DEF AlarmOK
<1>6. \A i \in Entries :
        /\ i \in store'[b] \/ Held(b, i)' => i \in store[b] \/ Held(b, i)
        /\ ~(i \in store'[b] /\ Held(b, i)')
  BY InvParts DEF Held, PlacesOK
<1>7. op[b].pc = "forming" => IsPair(op[b].sel)
  BY InvParts DEF PairsOK
<1> QED
  BY <1>1, <1>2, <1>3, <1>4, <1>5, <1>6, <1>7, OwnStep DEF BracketOK

LEMMA DisconnectKeeps ==
  ASSUME QueueInv, NEW b \in Brackets, Disconnect(b)
  PROVE  QueueInv'
<1>1. PICK i \in sock[b] : /\ sock' = [sock EXCEPT ![b] = @ \ {i}]
                           /\ closing' = [closing EXCEPT ![b] = @ \cup {i}]
  BY DEF Disconnect
<1>2. /\ joined' = joined /\ op' = op /\ alarm' = alarm /\ formed' = formed /\ told' = told
      /\ faults' = faults /\ store' = store
  BY DEF Disconnect
<1>3. /\ store \in [Brackets -> SUBSET Nat] /\ sock \in [Brackets -> SUBSET Nat]
      /\ closing \in [Brackets -> SUBSET Nat]
  BY InvParts DEF Typed
<1>4. /\ sock' \in [Brackets -> SUBSET Nat] /\ closing' \in [Brackets -> SUBSET Nat]
      /\ sock'[b] = sock[b] \ {i} /\ closing'[b] = closing[b] \cup {i}
      /\ \A a \in Brackets \ {b} : sock'[a] = sock[a] /\ closing'[a] = closing[a]
  BY <1>1, <1>3
<1> QED
  BY <1>1, <1>2, <1>3, <1>4, LeavesKeeps

LEMMA SocketClosedKeeps ==
  ASSUME QueueInv, NEW b \in Brackets, SocketClosed(b)
  PROVE  QueueInv'
<1>1. PICK i \in closing[b] : /\ closing' = [closing EXCEPT ![b] = @ \ {i}]
                              /\ store' = [store EXCEPT ![b] = @ \ Of(@, Who(i))]
  BY DEF SocketClosed
<1>2. /\ joined' = joined /\ op' = op /\ alarm' = alarm /\ formed' = formed /\ told' = told
      /\ faults' = faults /\ sock' = sock /\ op[b] = Idle
  BY DEF SocketClosed
<1>3. /\ store \in [Brackets -> SUBSET Nat] /\ sock \in [Brackets -> SUBSET Nat]
      /\ closing \in [Brackets -> SUBSET Nat]
  BY InvParts DEF Typed
<1>4. /\ store' \in [Brackets -> SUBSET Nat] /\ closing' \in [Brackets -> SUBSET Nat]
      /\ store'[b] \subseteq store[b] /\ closing'[b] \subseteq closing[b]
      /\ \A a \in Brackets \ {b} : store'[a] = store[a] /\ closing'[a] = closing[a]
  BY <1>1, <1>3
<1> QED
  BY <1>1, <1>2, <1>3, <1>4, LeavesKeeps

LEMMA FormSucceedsKeeps ==
  ASSUME QueueInv, NEW b \in Brackets, FormSucceeds(b)
  PROVE  QueueInv'
<1>1. /\ op[b].pc = "forming" /\ op' = [op EXCEPT ![b].pc = "notify"]
      /\ formed' = formed \cup {op[b].sel}
      /\ joined' = joined /\ store' = store /\ sock' = sock /\ closing' = closing
      /\ alarm' = alarm /\ told' = told /\ faults' = faults
  BY DEF FormSucceeds
<1>2. op \in [Brackets -> Ops] /\ op[b].sel \subseteq Entries
  BY InvParts DEF Typed, KnownIn
<1>3. Continues(b, "notify", op[b].sel, op[b].asks)
  BY <1>1, <1>2, PcIs DEF Pcs
<1>4. /\ op' \in [Brackets -> Ops] /\ \A a \in Brackets \ {b} : op'[a] = op[a]
      /\ op'[b].kind = op[b].kind /\ op'[b].self = op[b].self
      /\ op'[b].pc = "notify" /\ op'[b].sel = op[b].sel /\ op'[b].asks = op[b].asks
  BY <1>3 DEF Continues, Moves
<1>5. Typed'
  BY <1>1, <1>4, InvParts DEF Typed
<1>6. KnownIn(b)' /\ AsksOthers(b)'
  BY <1>1, <1>4, InvParts, KnownStays DEF KnownIn, AsksOthers
<1>7. op[b] # Idle /\ op'[b] # Idle
  BY <1>1, <1>4, OpsAre
<1>8. CallbackOK(op[b], store[b])' /\ AlarmOK(op[b], store[b], sock[b], alarm[b])'
  BY <1>1, <1>4, <1>7, InvParts DEF CallbackOK, AlarmOK
<1>9. \A a \in Brackets : BracketOK(a)'
  BY <1>1, <1>4, <1>6, <1>8, JoinsStay, BracketStays DEF BracketOK
<1>10. HistoryOK'
  BY <1>1, <1>2, InvParts, HistoryStays DEF HistoryOK
<1>11. LendersOK'
  BY <1>1, <1>4, LendersStay DEF Asks
<1>12. PlacesOK'
  <2>1. \A i \in op[b].sel : Held(b, i)
    BY <1>1 DEF Held
  <2>2. \A a \in Brackets, i \in Entries : Held(a, i)' => Held(a, i) /\ a # b
    BY <1>4 DEF Held
  <2>3. \A f \in formed : f \cap op[b].sel = {}
    BY <2>1, InvParts DEF PlacesOK
  <2>4. \A i \in op[b].sel, a \in Brackets : i \notin store[a] /\ (Held(a, i) => a = b)
    BY <2>1, <1>2, InvParts DEF PlacesOK
  <2>5. ASSUME NEW c \in Brackets, NEW a \in Brackets, NEW i \in Entries
        PROVE  /\ i \in store'[c] /\ i \in store'[a] => c = a
               /\ Held(c, i)' /\ Held(a, i)' => c = a
               /\ ~(i \in store'[c] /\ Held(a, i)')
    BY <2>2, <1>1, InvParts DEF PlacesOK
  <2>6. ASSUME NEW f \in formed', NEW i \in f, NEW a \in Brackets
        PROVE  i \notin store'[a] /\ ~Held(a, i)'
    <3>1. f \in formed => i \in Entries
      BY InvParts DEF HistoryOK
    <3> QED
      BY <3>1, <2>2, <2>4, <1>1, <1>2, InvParts DEF PlacesOK
  <2>7. \A f, g \in formed' : f \cap g # {} => f = g
    BY <2>3, <1>1, InvParts DEF PlacesOK
  <2> QED
    BY <2>5, <2>6, <2>7, <1>1, JoinsStay DEF PlacesOK
<1>13. PairsOK'
  <2>1. \A f : IsPair(f)' = IsPair(f)
    BY <1>1, JoinsStay DEF IsPair
  <2>2. PairsOK
    BY InvParts
  <2>3. \A f \in formed' : IsPair(f)
    BY <2>2, <1>1 DEF PairsOK
  <2> QED
    BY <2>1, <2>2, <2>3, <1>1, <1>4 DEF PairsOK
<1> QED
  BY <1>5, <1>9, <1>10, <1>11, <1>12, <1>13 DEF QueueInv

-----------------------------------------------------------------------------
(* How a callback ends *)

(* What becomes of another bracket's callback: nothing, or the call it      *)
(* waits for fails, or it loses the waiters it cannot tell or put back.     *)
Suffers(o, p, b) ==
  \/ p = o
  \/ /\ o.pc \in {"borrow", "borrowing"} /\ Head(o.asks) = b
     /\ p.pc = "broken" /\ p.sel = {}
     /\ p.kind = o.kind /\ p.self = o.self /\ p.asks = o.asks
  \/ /\ o.pc \in {"notify", "restore"}
     /\ p.pc = o.pc /\ p.sel \subseteq o.sel
     /\ p.kind = o.kind /\ p.self = o.self /\ p.asks = o.asks

LEMMA OtherSuffers ==
  ASSUME QueueInv, NEW b \in Brackets, NEW a \in Brackets \ {b}, Suffers(op[a], op'[a], b),
         op'[a] \in Ops, joined' = joined, store'[a] = store[a], alarm'[a] = alarm[a],
         sock'[a] = sock[a], closing'[a] = closing[a]
  PROVE  BracketOK(a)'
<1>1. op'[a] = op[a] => BracketOK(a)'
  BY JoinsStay, BracketStays
<1>2. CASE op'[a] # op[a]
  <2>1. /\ op'[a].sel \subseteq op[a].sel /\ op'[a].kind = op[a].kind
        /\ op'[a].self = op[a].self /\ op'[a].asks = op[a].asks
        /\ op'[a].pc \in {"broken", "notify", "restore"}
        /\ op'[a].pc = "broken" => op[a].pc \in {"borrow", "borrowing"} /\ op'[a].sel = {}
        /\ op'[a].pc # "broken" => op[a].pc \in {"notify", "restore"}
    BY <1>2 DEF Suffers
  <2>2. KnownIn(a)'
    BY <2>1, InvParts, KnownStays DEF KnownIn
  <2>3. AsksOthers(a)'
    BY <2>1, InvParts DEF AsksOthers
  <2>4. op[a] # Idle /\ op'[a] # Idle
    BY <2>1, OpsAre
  <2>5. CallbackOK(op[a], store[a])'
    BY <2>1, <2>4, InvParts DEF CallbackOK
  <2>6. AlarmOK(op[a], store[a], sock[a], alarm[a])'
    BY <2>1, InvParts DEF AlarmOK
  <2> QED
    BY <2>2, <2>3, <2>5, <2>6 DEF BracketOK
<1> QED
  BY <1>1, <1>2

LEMMA EndKeeps ==
  ASSUME QueueInv, NEW b \in Brackets, Typed', op'[b] = Idle,
         \A a \in Brackets \ {b} : Suffers(op[a], op'[a], b) /\ ~Asks(a, b)',
         joined' = joined, store' = store, formed' = formed, told' = told,
         \A a \in Brackets \ {b} : alarm'[a] = alarm[a] /\ sock'[a] = sock[a] /\ closing'[a] = closing[a],
         sock'[b] \subseteq sock[b], closing'[b] \subseteq closing[b],
         alarm'[b] = (IF op[b].kind = "alarm" THEN op[b].self ELSE alarm[b]),
         op[b].kind = "join" => op[b].self \notin sock'[b]
  PROVE  QueueInv'
<1>1. HistoryOK'
  BY HistoryStays, InvParts DEF HistoryOK
<1>2. \A a \in Brackets \ {b} : op'[a] \in Ops /\ BracketOK(a)'
  BY OtherSuffers DEF Typed
<1>3. BracketOK(b)'
  <2>1. KnownIn(b)' /\ AsksOthers(b)'
    BY InvParts, OpsAre, KnownStays DEF KnownIn, AsksOthers
  <2>2. CallbackOK(op[b], store[b])'
    BY OpsAre DEF CallbackOK, Idle
  <2>3. AlarmOK(op[b], store[b], sock[b], alarm[b])'
    <3>1. AlarmOK(op[b], store[b], sock[b], alarm[b]) /\ 0 \notin sock[b]
      BY InvParts, EntriesAre DEF KnownIn
    <3>2. op'[b].sel = {} /\ op'[b].self = 0
      BY OpsAre
    <3>3. CASE op[b].kind = "alarm"
      BY <3>3, InvParts DEF CallbackOK, AlarmOK
    <3>4. CASE op[b].kind # "alarm"
      <4>1. op[b].self \notin sock'[b]
        BY <3>1, <3>4, InvParts DEF CallbackOK
      <4> QED
        BY <4>1, <3>1, <3>2, <3>4 DEF AlarmOK
    <3> QED
      BY <3>3, <3>4
  <2> QED
    BY <2>1, <2>2, <2>3 DEF BracketOK
<1>4. LendersOK'
  <2>1. ASSUME NEW a \in Brackets, NEW c \in Brackets, Asks(a, c)'
        PROVE  Asks(a, c) /\ op'[c].kind = op[c].kind
    <3>1. a # b /\ c # b
      <4>1. a # b
        BY <2>1, OpsAre DEF Asks
      <4> QED
        BY <4>1, <2>1
    <3>2. op'[a] = op[a]
      BY <3>1, <2>1 DEF Suffers, Asks
    <3>3. op'[c].kind = op[c].kind
      BY <3>1 DEF Suffers
    <3> QED
      BY <3>2, <3>3, <2>1 DEF Asks
  <2> QED
    BY <2>1, LendersStay
<1>5. PlacesOK'
  <2>1. ASSUME NEW a \in Brackets, NEW i \in Entries
        PROVE  /\ i \in store'[a] \/ Held(a, i)' => i \in store[a] \/ Held(a, i)
               /\ ~(i \in store'[a] /\ Held(a, i)')
    <3>1. Held(a, i)' => Held(a, i)
      BY OpsAre DEF Held, Suffers
    <3> QED
      BY <3>1, InvParts DEF PlacesOK
  <2> QED
    BY <2>1, PlacesStay
<1>6. PairsOK'
  <2>1. ASSUME NEW a \in Brackets
        PROVE  /\ op'[a].pc = "forming" => op[a].pc = "forming" /\ op'[a].sel = op[a].sel
               /\ op'[a].pc = "notify" => op[a].pc = "notify" /\ op'[a].sel \subseteq op[a].sel
    BY OpsAre DEF Suffers
  <2> QED
    BY <2>1, PairsStay
<1> QED
  BY <1>1, <1>2, <1>3, <1>4, <1>5, <1>6 DEF QueueInv

LEMMA RetryAlarmIs ==
  ASSUME Typed, NEW b \in Brackets, RetryAlarm(b)
  PROVE  /\ alarm' \in [Brackets -> Nat]
         /\ \A a \in Brackets \ {b} : alarm'[a] = alarm[a]
         /\ alarm'[b] = (IF op[b].kind = "alarm" THEN op[b].self ELSE alarm[b])
BY DEF Typed, RetryAlarm, Ops

LEMMA ResetObjectKeeps ==
  ASSUME QueueInv, NEW b \in Brackets, ResetObject(b), faults' \in 0..MaxFaults,
         joined' = joined, store' = store, formed' = formed, told' = told
  PROVE  QueueInv'
<1>1. /\ alarm' \in [Brackets -> Nat]
      /\ \A a \in Brackets \ {b} : alarm'[a] = alarm[a]
      /\ alarm'[b] = (IF op[b].kind = "alarm" THEN op[b].self ELSE alarm[b])
  BY InvParts, RetryAlarmIs DEF ResetObject
<1>2. /\ sock' \in [Brackets -> SUBSET Nat] /\ closing' \in [Brackets -> SUBSET Nat]
      /\ sock'[b] = {} /\ closing'[b] = {}
      /\ \A a \in Brackets \ {b} : sock'[a] = sock[a] /\ closing'[a] = closing[a]
  BY InvParts DEF ResetObject, Typed
<1>3. op'[b] = Idle
  BY DEF ResetObject
<1>4. ASSUME NEW a \in Brackets \ {b}
      PROVE  op'[a] \in Ops /\ Suffers(op[a], op'[a], b) /\ ~Asks(a, b)'
  <2>1. PICK o \in Ops : o = op[a]
    BY InvParts
  <2>2. CASE o.pc \in {"borrow", "borrowing"} /\ Head(o.asks) = b
    <3>1. op'[a] = [o EXCEPT !.pc = "broken", !.sel = {}]
      BY <2>1, <2>2 DEF ResetObject
    <3>2. [o EXCEPT !.pc = "broken", !.sel = {}] \in Ops
      BY DEF Ops
    <3>3. /\ op'[a].pc = "broken" /\ op'[a].sel = {} /\ op'[a].kind = o.kind
          /\ op'[a].self = o.self /\ op'[a].asks = o.asks
      BY <3>1 DEF Ops
    <3> QED
      BY <3>1, <3>2, <3>3, <2>1, <2>2 DEF Suffers, Asks
  <2>3. CASE o.pc \in {"notify", "restore"}
    <3>1. PICK sel \in SUBSET o.sel : op'[a] = [o EXCEPT !.sel = sel]
      <4>1. op'[a] = [o EXCEPT !.sel = {i \in o.sel : Home(i) # b}]
        BY <2>1, <2>3 DEF ResetObject
      <4> QED
        BY <4>1
    <3>2. [o EXCEPT !.sel = sel] \in Ops
      BY DEF Ops
    <3>3. /\ op'[a].pc = o.pc /\ op'[a].sel = sel /\ op'[a].kind = o.kind
          /\ op'[a].self = o.self /\ op'[a].asks = o.asks
      BY <3>1 DEF Ops
    <3> QED
      BY <3>1, <3>2, <3>3, <2>1, <2>3 DEF Suffers, Asks
  <2>4. CASE /\ ~(o.pc \in {"borrow", "borrowing"} /\ Head(o.asks) = b)
             /\ o.pc \notin {"notify", "restore"}
    <3>1. op'[a] = o
      BY <2>1, <2>4 DEF ResetObject
    <3> QED
      BY <3>1, <2>1, <2>4 DEF Suffers, Asks
  <2> QED
    BY <2>2, <2>3, <2>4
<1>5. op' \in [Brackets -> Ops]
  <2>1. op' = [a \in Brackets |-> op'[a]]
    BY DEF ResetObject
  <2> QED
    BY <2>1, <1>3, <1>4, OpsAre
<1>6. Typed'
  BY <1>1, <1>2, <1>5, InvParts DEF Typed
<1> QED
  BY <1>1, <1>2, <1>3, <1>4, <1>6, EndKeeps

LEMMA AnswersIs ==
  ASSUME QueueInv, NEW b \in Brackets, NEW pc \in Pcs, NEW sel \in SUBSET Nat, op' = Answers(b, pc, sel)
  PROVE  /\ op' \in [Brackets -> Ops] /\ op'[b] = Idle
         /\ \A a \in Brackets \ {b} : /\ Asks(a, b) => Moves(op[a], op'[a], pc, sel, op[a].asks)
                                      /\ ~Asks(a, b) => op'[a] = op[a]
<1>1. op'[b] = Idle
  BY DEF Answers
<1>2. ASSUME NEW a \in Brackets \ {b}
      PROVE  /\ op'[a] \in Ops
             /\ Asks(a, b) => Moves(op[a], op'[a], pc, sel, op[a].asks)
             /\ ~Asks(a, b) => op'[a] = op[a]
  <2>1. PICK o \in Ops : o = op[a]
    BY InvParts
  <2>2. CASE Asks(a, b)
    <3>1. op'[a] = [o EXCEPT !.pc = pc, !.sel = sel]
      BY <2>1, <2>2 DEF Answers
    <3>2. [o EXCEPT !.pc = pc, !.sel = sel] \in Ops
      BY DEF Ops, Pcs
    <3>3. Moves(o, [o EXCEPT !.pc = pc, !.sel = sel], pc, sel, o.asks)
      BY DEF Ops, Moves
    <3> QED
      BY <2>1, <2>2, <3>1, <3>2, <3>3
  <2>3. CASE ~Asks(a, b)
    BY <2>1, <2>3 DEF Answers
  <2> QED
    BY <2>2, <2>3
<1>3. op' = [a \in Brackets |-> op'[a]]
  BY DEF Answers
<1> QED
  BY <1>1, <1>2, <1>3, OpsAre

LEMMA ThrowKeeps ==
  ASSUME QueueInv, NEW b \in Brackets, Throw(b), faults' \in 0..MaxFaults,
         joined' = joined, store' = store, formed' = formed, told' = told
  PROVE  QueueInv'
<1>1. CASE ResetObject(b)
  BY <1>1, ResetObjectKeeps
<1>2. CASE /\ op' = Answers(b, "broken", {}) /\ RetryAlarm(b) /\ closing' = closing
           /\ sock' = [sock EXCEPT ![b] = IF op[b].kind = "join" THEN @ \ {op[b].self} ELSE @]
  <2>1. /\ op' \in [Brackets -> Ops] /\ op'[b] = Idle
        /\ \A a \in Brackets \ {b} : /\ Asks(a, b) => Moves(op[a], op'[a], "broken", {}, op[a].asks)
                                     /\ ~Asks(a, b) => op'[a] = op[a]
    BY <1>2, AnswersIs DEF Pcs
  <2>2. /\ alarm' \in [Brackets -> Nat]
        /\ \A a \in Brackets \ {b} : alarm'[a] = alarm[a]
        /\ alarm'[b] = (IF op[b].kind = "alarm" THEN op[b].self ELSE alarm[b])
    BY <1>2, InvParts, RetryAlarmIs
  <2>3. /\ sock' \in [Brackets -> SUBSET Nat] /\ sock'[b] \subseteq sock[b]
        /\ op[b].kind = "join" => op[b].self \notin sock'[b]
        /\ \A a \in Brackets \ {b} : sock'[a] = sock[a]
    BY <1>2, InvParts DEF Typed
  <2>4. Typed'
    BY <1>2, <2>1, <2>2, <2>3, InvParts DEF Typed
  <2>5. ASSUME NEW a \in Brackets \ {b} PROVE Suffers(op[a], op'[a], b) /\ ~Asks(a, b)'
    BY <2>1 DEF Suffers, Moves, Asks
  <2> QED
    BY <1>2, <2>1, <2>2, <2>3, <2>4, <2>5, EndKeeps
<1> QED
  BY <1>1, <1>2 DEF Throw

LEMMA RestoredKeeps ==
  ASSUME QueueInv, NEW b \in Brackets, Restored(b)
  PROVE  QueueInv'
<1>1. Throw(b) /\ joined' = joined /\ store' = store /\ formed' = formed /\ told' = told /\ faults' = faults
  BY DEF Restored
<1>2. faults' \in 0..MaxFaults
  BY <1>1, InvParts DEF Typed
<1> QED
  BY <1>1, <1>2, ThrowKeeps

LEMMA BorrowFailsKeeps ==
  ASSUME QueueInv, NEW b \in Brackets, BorrowFails(b)
  PROVE  QueueInv'
<1>1. Throw(b) /\ joined' = joined /\ store' = store /\ formed' = formed /\ told' = told
  BY DEF BorrowFails
<1>2. faults' = faults \/ Fails("call")
  BY DEF BorrowFails
<1>3. faults' \in 0..MaxFaults
  BY <1>2, InvParts, FailsIs DEF Typed
<1> QED
  BY <1>1, <1>3, ThrowKeeps

LEMMA ResetKeeps ==
  ASSUME QueueInv, NEW b \in Brackets, Reset(b)
  PROVE  QueueInv'
<1>1. /\ ResetObject(b) /\ joined' = joined /\ store' = store /\ formed' = formed /\ told' = told
      /\ Fails("reset")
  BY DEF Reset
<1>2. faults' \in 0..MaxFaults
  BY <1>1, InvParts, FailsIs
<1> QED
  BY <1>1, <1>2, ResetObjectKeeps

LEMMA CircleBrokenKeeps ==
  ASSUME QueueInv, NEW b \in Brackets, CircleBroken(b)
  PROVE  QueueInv'
<1>1. /\ ResetObject(b) /\ joined' = joined /\ store' = store /\ formed' = formed /\ told' = told
      /\ faults' = faults
  BY DEF CircleBroken
<1>2. faults' \in 0..MaxFaults
  BY <1>1, InvParts DEF Typed
<1> QED
  BY <1>1, <1>2, ResetObjectKeeps

-----------------------------------------------------------------------------
(* Borrowing *)

LEMMA BorrowKeeps ==
  ASSUME QueueInv, NEW b \in Brackets, Borrow(b)
  PROVE  QueueInv'
<1>1. PICK n \in Brackets : n = Head(op[b].asks) /\ n # b
  <2>1. op[b].asks \in Seq(Brackets) /\ op[b].asks # <<>>
    BY InvParts DEF Borrow, CallbackOK, Ops
  <2>2. Head(op[b].asks) \in Brackets /\ Head(op[b].asks) # b
    BY <2>1, HeadIs, InvParts DEF AsksOthers
  <2> QED
    BY <2>2
<1>2. /\ op[b].pc = "borrow" /\ op[n] = Idle
      /\ op' = [op EXCEPT ![b].pc = "borrowing", ![n] = Starts("lend", 0)]
      /\ joined' = joined /\ store' = store /\ sock' = sock /\ closing' = closing
      /\ alarm' = alarm /\ formed' = formed /\ told' = told /\ faults' = faults
  BY <1>1 DEF Borrow
<1>3. PICK l \in Ops : /\ l = Starts("lend", 0) /\ l.kind = "lend" /\ l.pc = "form" /\ l.sel = {}
                       /\ l.asks = <<>> /\ l.self = 0
  BY OpsAre
<1>4. PICK o \in Ops : /\ o = [op[b] EXCEPT !.pc = "borrowing"]
                       /\ Moves(op[b], o, "borrowing", op[b].sel, op[b].asks)
  <2>1. PICK p \in Ops : p = op[b]
    BY InvParts
  <2>2. [p EXCEPT !.pc = "borrowing"] \in Ops
    BY DEF Ops
  <2>3. Moves(p, [p EXCEPT !.pc = "borrowing"], "borrowing", p.sel, p.asks)
    BY DEF Ops, Moves
  <2> QED
    BY <2>1, <2>2, <2>3
<1>5. op' = [op EXCEPT ![b] = o, ![n] = l] /\ op \in [Brackets -> Ops]
  BY <1>2, <1>3, <1>4, InvParts DEF Typed
<1>6. /\ op' \in [Brackets -> Ops] /\ op'[b] = o /\ op'[n] = l
      /\ \A a \in Brackets \ {b, n} : op'[a] = op[a]
  BY <1>1, <1>5
<1>7. Typed' /\ HistoryOK'
  BY <1>2, <1>6, InvParts, HistoryStays DEF Typed, HistoryOK
<1>8. o # Idle /\ l # Idle /\ op[b] # Idle
  BY <1>2, <1>3, <1>4, OpsAre DEF Moves
<1>9. KnownIn(b)' /\ KnownIn(n)'
  <2>1. /\ op'[b].sel = op[b].sel /\ op'[b].self = op[b].self
        /\ op'[n].sel = {} /\ op'[n].self = 0
    BY <1>3, <1>4, <1>6 DEF Moves
  <2>2. \A a \in {b, n} : /\ op'[a].sel \subseteq Entries /\ op'[a].self \in {0} \cup Entries
                          /\ alarm[a] \in {0} \cup Entries
    BY <2>1, InvParts DEF KnownIn
  <2> QED
    BY <1>2, <2>2, KnownStays
<1>10. AsksOthers(b)' /\ AsksOthers(n)'
  <2>1. op'[b].pc = "borrowing" /\ op'[b].asks = op[b].asks
    BY <1>4, <1>6 DEF Moves
  <2>2. op'[n].pc = "form" /\ op'[n].asks = <<>> /\ Len(<<>>) = 0
    BY <1>3, <1>6
  <2>3. AsksOthers(b)'
    BY <2>1, InvParts DEF AsksOthers
  <2>4. AsksOthers(n)'
    <3>1. \A k \in 1..Len(op'[n].asks) : op'[n].asks[k] # n
      BY <2>2
    <3> QED
      BY <2>2, <3>1 DEF AsksOthers
  <2> QED
    BY <2>3, <2>4
<1>11. CallbackOK(op[b], store[b])' /\ AlarmOK(op[b], store[b], sock[b], alarm[b])'
  <2>1. /\ op'[b].kind = op[b].kind /\ op'[b].self = op[b].self /\ op'[b].pc = "borrowing"
        /\ op'[b].sel = op[b].sel /\ op'[b].asks = op[b].asks /\ op'[b] # Idle
    BY <1>4, <1>6, <1>8 DEF Moves
  <2>2. CallbackOK(op[b], store[b]) /\ AlarmOK(op[b], store[b], sock[b], alarm[b])
    BY InvParts
  <2>3. CallbackOK(op'[b], store[b])
    BY <1>2, <2>1, <2>2, <1>8 DEF CallbackOK
  <2>4. AlarmOK(op'[b], store[b], sock[b], alarm[b])
    BY <2>1, <2>2 DEF AlarmOK
  <2> QED
    BY <1>2, <2>3, <2>4
<1>12. CallbackOK(op[n], store[n])'
  BY <1>2, <1>3, <1>6, <1>8 DEF CallbackOK
<1>13. AlarmOK(op[n], store[n], sock[n], alarm[n])'
  BY <1>2, <1>3, <1>6, OpsAre, InvParts DEF AlarmOK
<1>14. \A a \in Brackets : BracketOK(a)'
  BY <1>2, <1>6, <1>9, <1>10, <1>11, <1>12, <1>13, JoinsStay, BracketStays DEF BracketOK
<1>15. LendersOK'
  <2>1. \A a \in Brackets : ~Asks(a, n)
    BY <1>2, OpsAre, InvParts DEF LendersOK
  <2>2. ASSUME NEW a \in Brackets, NEW c \in Brackets, Asks(a, c)'
        PROVE  (a = b /\ c = n) \/ (a # b /\ Asks(a, c))
    <3>1. op'[b].asks = op[b].asks /\ op'[n].pc = "form"
      BY <1>3, <1>4, <1>6 DEF Moves
    <3>2. op'[a].pc = "borrowing" /\ Head(op'[a].asks) = c
      BY <2>2 DEF Asks
    <3>3. a # n
      BY <3>1, <3>2
    <3>4. CASE a = b
      BY <3>1, <3>2, <3>4, <1>1
    <3>5. CASE a # b
      BY <3>2, <3>3, <3>5, <1>6 DEF Asks
    <3> QED
      BY <3>4, <3>5
  <2>3. \A c \in Brackets : op[c].kind = "lend" => op'[c].kind = "lend"
    BY <1>3, <1>4, <1>6 DEF Moves
  <2>4. op'[n].kind = "lend"
    BY <1>3, <1>6
  <2> QED
    BY <2>1, <2>2, <2>3, <2>4, InvParts DEF LendersOK
<1>16. PlacesOK'
  <2>1. \A a \in Brackets, i \in Entries : Held(a, i)' => Held(a, i)
    BY <1>2, <1>3, <1>4, <1>6 DEF Held, Moves
  <2> QED
    BY <2>1, <1>2, InvParts, PlacesStay DEF PlacesOK
<1>17. PairsOK'
  BY <1>2, <1>3, <1>4, <1>6, PairsStay DEF Moves
<1> QED
  BY <1>7, <1>14, <1>15, <1>16, <1>17 DEF QueueInv

LEMMA LendKeeps ==
  ASSUME QueueInv, NEW b \in Brackets, Lend(b)
  PROVE  QueueInv'
<1>1. /\ op[b].kind = "lend" /\ Cardinality(store[b]) < 2
      /\ op' = Answers(b, "borrowed", store[b]) /\ store' = [store EXCEPT ![b] = {}]
      /\ joined' = joined /\ sock' = sock /\ closing' = closing /\ alarm' = alarm
      /\ formed' = formed /\ told' = told /\ faults' = faults
  BY DEF Lend, KeptByLender
<1>2. /\ store[b] \in SUBSET Nat /\ store[b] \subseteq Entries
      /\ \A i \in store[b] : Home(i) = b
  BY InvParts DEF KnownIn
<1>3. store[b] = {} \/ \E i \in Nat : store[b] = {i}
  BY <1>1, <1>2, SomeAre, EntriesAre, InvParts DEF Entries
<1>4. /\ op' \in [Brackets -> Ops] /\ op'[b] = Idle
      /\ \A a \in Brackets \ {b} :
           /\ Asks(a, b) => Moves(op[a], op'[a], "borrowed", store[b], op[a].asks)
           /\ ~Asks(a, b) => op'[a] = op[a]
  BY <1>1, <1>2, AnswersIs DEF Pcs
<1>5. /\ store' \in [Brackets -> SUBSET Nat] /\ store'[b] = {}
      /\ \A a \in Brackets \ {b} : store'[a] = store[a]
  BY <1>1, InvParts DEF Typed
<1>6. Typed' /\ HistoryOK'
  BY <1>1, <1>4, <1>5, InvParts, HistoryStays DEF Typed, HistoryOK
<1>7. BracketOK(b)'
  <2>1. KnownIn(b)' /\ AsksOthers(b)'
    BY <1>1, <1>4, <1>5, OpsAre, KnownStays, InvParts DEF AsksOthers, KnownIn
  <2>2. CallbackOK(op[b], store[b])' /\ AlarmOK(op[b], store[b], sock[b], alarm[b])'
    BY <1>4, <1>5, OpsAre DEF CallbackOK, AlarmOK, Idle
  <2> QED
    BY <2>1, <2>2 DEF BracketOK
<1>8. ASSUME NEW a \in Brackets \ {b} PROVE BracketOK(a)'
  <2>1. CASE ~Asks(a, b)
    BY <2>1, <1>1, <1>4, <1>5, JoinsStay, BracketStays
  <2>2. CASE Asks(a, b)
    <3>1. /\ op'[a].kind = op[a].kind /\ op'[a].self = op[a].self /\ op'[a].pc = "borrowed"
          /\ op'[a].sel = store[b] /\ op'[a].asks = op[a].asks /\ op[a].pc = "borrowing"
      BY <2>2, <1>4 DEF Moves, Asks
    <3>2. KnownIn(a)'
      BY <3>1, <1>1, <1>2, <1>5, KnownStays, InvParts DEF KnownIn
    <3>3. AsksOthers(a)'
      BY <3>1, <1>1, <1>2, JoinsStay, InvParts DEF AsksOthers
    <3>4. op[a] # Idle /\ op'[a] # Idle
      BY <3>1, OpsAre
    <3>5. CallbackOK(op[a], store[a]) /\ store'[a] = store[a]
      BY <1>5, InvParts
    <3>6. CallbackOK(op[a], store[a])'
      BY <3>1, <3>4, <3>5, <1>3 DEF CallbackOK
    <3>7. op'[a].kind = "alarm"
      BY <3>1, <3>5 DEF CallbackOK
    <3>8. AlarmOK(op[a], store[a], sock[a], alarm[a])'
      BY <3>7 DEF AlarmOK
    <3> QED
      BY <3>2, <3>3, <3>6, <3>8 DEF BracketOK
  <2> QED
    BY <2>1, <2>2
<1>9. LendersOK'
  <2>1. ASSUME NEW a \in Brackets, NEW c \in Brackets, Asks(a, c)'
        PROVE  Asks(a, c) /\ op'[c].kind = op[c].kind
    <3>1. a # b /\ op'[a].pc = "borrowing"
      BY <2>1, <1>4, OpsAre DEF Asks
    <3>2. ~Asks(a, b) /\ op'[a] = op[a]
      BY <3>1, <1>4 DEF Moves
    <3>3. Asks(a, c) /\ c # b
      BY <3>2, <2>1 DEF Asks
    <3>4. op'[c].kind = op[c].kind
      BY <3>3, <1>4 DEF Moves
    <3> QED
      BY <3>3, <3>4
  <2> QED
    BY <2>1, LendersStay
<1>10. PlacesOK'
  <2>1. ASSUME NEW a \in Brackets, NEW i \in Entries, Held(a, i)'
        PROVE  Held(a, i) \/ (Asks(a, b) /\ i \in store[b])
    <3>1. a # b
      BY <2>1, <1>4, OpsAre DEF Held
    <3>2. CASE Asks(a, b)
      BY <3>1, <3>2, <2>1, <1>4 DEF Held, Moves
    <3>3. CASE ~Asks(a, b)
      BY <3>1, <3>3, <2>1, <1>4 DEF Held
    <3> QED
      BY <3>2, <3>3
  <2>2. \A a, c \in Brackets : Asks(a, b) /\ Asks(c, b) => a = c
    BY InvParts DEF LendersOK
  <2>3. \A a \in Brackets, i \in Entries : i \in store'[a] => i \in store[a] /\ a # b
    BY <1>5
  <2>4. PlacesOK
    BY InvParts
  <2>5. ASSUME NEW a \in Brackets, NEW c \in Brackets, NEW i \in Entries
        PROVE  /\ i \in store'[a] /\ i \in store'[c] => a = c
               /\ Held(a, i)' /\ Held(c, i)' => a = c
               /\ ~(i \in store'[a] /\ Held(c, i)')
    BY <2>1, <2>2, <2>3, <2>4 DEF PlacesOK
  <2>6. ASSUME NEW f \in formed, NEW i \in f, NEW a \in Brackets
        PROVE  i \notin store'[a] /\ ~Held(a, i)'
    <3>1. i \in Entries
      BY InvParts DEF HistoryOK
    <3> QED
      BY <3>1, <2>1, <2>3, <2>4 DEF PlacesOK
  <2>7. \A f, g \in formed : f \cap g # {} => f = g
    BY <2>4 DEF PlacesOK
  <2> QED
    BY <2>5, <2>6, <2>7, <1>1, JoinsStay DEF PlacesOK
<1>11. PairsOK'
  <2>1. ASSUME NEW a \in Brackets
        PROVE  /\ op'[a].pc = "forming" => op[a].pc = "forming" /\ op'[a].sel = op[a].sel
               /\ op'[a].pc = "notify" => op[a].pc = "notify" /\ op'[a].sel \subseteq op[a].sel
    BY <1>4, OpsAre DEF Moves
  <2> QED
    BY <2>1, <1>1, PairsStay
<1> QED
  BY <1>6, <1>7, <1>8, <1>9, <1>10, <1>11 DEF QueueInv

LEMMA NotifyKeeps ==
  ASSUME QueueInv, NEW b \in Brackets, Notify(b)
  PROVE  QueueInv'
<1>1. PICK i, h, S :
        /\ i \in op[b].sel
        /\ h = Home(i) /\ S = Of(sock[h], Who(i)) /\ S \subseteq sock[h]
        /\ op[b].pc = "notify" /\ Reachable(b, i)
        /\ sock' = [sock EXCEPT ![h] = @ \ S] /\ closing' = [closing EXCEPT ![h] = @ \cup S]
        /\ store' = [store EXCEPT ![h] = @ \ Of(@, Who(i))]
        /\ told' = told \cup S /\ op' = [op EXCEPT ![b].sel = @ \ {i}]
        /\ joined' = joined /\ alarm' = alarm /\ formed' = formed /\ faults' = faults
  BY DEF Notify, Of
<1>2. i \in Entries /\ h \in Brackets /\ (h = b \/ op[h] = Idle)
  BY <1>1, InvParts, EntriesAre DEF KnownIn, Reachable
<1>3. /\ op \in [Brackets -> Ops] /\ store \in [Brackets -> SUBSET Nat]
      /\ sock \in [Brackets -> SUBSET Nat] /\ closing \in [Brackets -> SUBSET Nat]
      /\ op[b].sel \in SUBSET Nat
  BY InvParts DEF Typed, Ops
<1>4. PICK sel \in SUBSET Nat : sel = op[b].sel \ {i}
  BY <1>3
<1>5. Continues(b, "notify", sel, op[b].asks)
  BY <1>1, <1>3, <1>4, SelIs
<1>6. /\ op' \in [Brackets -> Ops] /\ \A a \in Brackets \ {b} : op'[a] = op[a]
      /\ op'[b].kind = op[b].kind /\ op'[b].self = op[b].self /\ op'[b].pc = "notify"
      /\ op'[b].sel \subseteq op[b].sel /\ op'[b].asks = op[b].asks
  BY <1>4, <1>5 DEF Continues, Moves
<1>7. /\ store' \in [Brackets -> SUBSET Nat] /\ sock' \in [Brackets -> SUBSET Nat]
      /\ closing' \in [Brackets -> SUBSET Nat]
      /\ sock'[h] = sock[h] \ S /\ closing'[h] = closing[h] \cup S /\ store'[h] \subseteq store[h]
      /\ \A a \in Brackets \ {h} :
           store'[a] = store[a] /\ sock'[a] = sock[a] /\ closing'[a] = closing[a]
  BY <1>1, <1>2, <1>3
<1>8. S \subseteq Entries
  BY <1>1, <1>2, InvParts DEF KnownIn
<1>9. Typed' /\ HistoryOK'
  BY <1>1, <1>6, <1>7, <1>8, InvParts, HistoryStays DEF Typed, HistoryOK
<1>10. ASSUME NEW a \in Brackets PROVE BracketOK(a)'
  <2>1. /\ op'[a].kind = op[a].kind /\ op'[a].self = op[a].self /\ op'[a].pc = op[a].pc
        /\ op'[a].sel \subseteq op[a].sel /\ op'[a].asks = op[a].asks
    BY <1>1, <1>6
  <2>2. /\ store'[a] \subseteq store[a] /\ sock'[a] \subseteq sock[a]
        /\ closing'[a] \subseteq closing[a] \cup (sock[a] \ sock'[a])
    BY <1>1, <1>7
  <2>3. KnownIn(a)'
    BY <2>1, <2>2, <1>1, InvParts, KnownStays DEF KnownIn
  <2>4. AsksOthers(a)'
    BY <2>1, <1>1, JoinsStay, InvParts DEF AsksOthers
  <2>5. CallbackOK(op[a], store[a])'
    <3>1. CASE a = b
      <4>1. op[a] # Idle /\ op'[a] # Idle /\ op[a].pc = "notify"
        BY <3>1, <1>1, <1>6, OpsAre
      <4> QED
        BY <4>1, <2>1, InvParts DEF CallbackOK
    <3>2. CASE a # b /\ op[a] = Idle
      BY <3>2, <1>6, OpsAre DEF CallbackOK, Idle
    <3>3. CASE a # b /\ op[a] # Idle
      <4>1. op'[a] = op[a] /\ store'[a] = store[a]
        BY <3>3, <1>2, <1>6, <1>7
      <4> QED
        BY <4>1, InvParts
    <3> QED
      BY <3>1, <3>2, <3>3
  <2>6. AlarmOK(op[a], store[a], sock[a], alarm[a])'
    BY <2>1, <2>2, <1>1, InvParts DEF AlarmOK
  <2> QED
    BY <2>3, <2>4, <2>5, <2>6 DEF BracketOK
<1>11. LendersOK'
  <2>1. ASSUME NEW a \in Brackets, NEW c \in Brackets, Asks(a, c)'
        PROVE  Asks(a, c) /\ op'[c].kind = op[c].kind
    BY <2>1, <1>1, <1>6 DEF Asks
  <2> QED
    BY <2>1, LendersStay
<1>12. PlacesOK'
  <2>1. ASSUME NEW a \in Brackets, NEW j \in Entries
        PROVE  /\ j \in store'[a] \/ Held(a, j)' => j \in store[a] \/ Held(a, j)
               /\ ~(j \in store'[a] /\ Held(a, j)')
    <3>1. Held(a, j)' => Held(a, j)
      BY <1>1, <1>6 DEF Held
    <3>2. store'[a] \subseteq store[a]
      BY <1>7
    <3> QED
      BY <3>1, <3>2, InvParts DEF PlacesOK
  <2> QED
    BY <2>1, <1>1, PlacesStay
<1>13. PairsOK'
  BY <1>1, <1>6, PairsStay
<1> QED
  BY <1>9, <1>10, <1>11, <1>12, <1>13 DEF QueueInv

LEMMA RestoreKeeps ==
  ASSUME QueueInv, NEW b \in Brackets, Restore(b)
  PROVE  QueueInv'
<1>1. PICK i, h :
        /\ i \in op[b].sel /\ h = Home(i) /\ op[b].pc = "restore" /\ Reachable(b, i)
        /\ store' = [store EXCEPT ![h] = (store[h] \ Of(store[h], Who(i))) \cup {i}]
        /\ alarm' = [alarm EXCEPT ![h] = IF h = b THEN @ ELSE Schedule(h, store'[h])]
        /\ op' = [op EXCEPT ![b].sel = @ \ {i}]
        /\ joined' = joined /\ sock' = sock /\ closing' = closing
        /\ formed' = formed /\ told' = told /\ faults' = faults
  BY DEF Restore, RestoreTo, Put
<1>2. i \in Entries /\ i \in Nat /\ h \in Brackets /\ (h = b \/ op[h] = Idle)
  BY <1>1, InvParts, EntriesAre DEF KnownIn, Reachable
<1>3. /\ op \in [Brackets -> Ops] /\ store \in [Brackets -> SUBSET Nat]
      /\ alarm \in [Brackets -> Nat] /\ op[b].sel \in SUBSET Nat
  BY InvParts DEF Typed, Ops
<1>4. PICK sel \in SUBSET Nat : sel = op[b].sel \ {i}
  BY <1>3
<1>5. Continues(b, "restore", sel, op[b].asks)
  BY <1>1, <1>3, <1>4, SelIs
<1>6. /\ op' \in [Brackets -> Ops] /\ \A a \in Brackets \ {b} : op'[a] = op[a]
      /\ op'[b].kind = op[b].kind /\ op'[b].self = op[b].self /\ op'[b].pc = "restore"
      /\ op'[b].sel = op[b].sel \ {i} /\ op'[b].asks = op[b].asks
  BY <1>4, <1>5 DEF Continues, Moves
<1>7. /\ store' \in [Brackets -> SUBSET Nat]
      /\ store'[h] = (store[h] \ Of(store[h], Who(i))) \cup {i}
      /\ \A a \in Brackets \ {h} : store'[a] = store[a] /\ alarm'[a] = alarm[a]
  BY <1>1, <1>2, <1>3
<1>8. /\ store'[h] \subseteq store[h] \cup {i} /\ i \in store'[h]
      /\ \A j \in store'[h] : Home(j) = h
      /\ \A j, k \in store'[h] : Who(j) = Who(k) => j = k
  BY <1>1, <1>2, <1>7, InvParts DEF KnownIn, Of
<1>9. /\ h # b => alarm'[h] \in {0} \cup Entries /\ alarm'[h] # 0
      /\ h = b => alarm'[h] = alarm[h]
  <2>1. store'[h] \subseteq Entries
    BY <1>2, <1>8, InvParts DEF KnownIn
  <2>2. Schedule(h, store'[h]) \in {0} \cup Entries /\ Schedule(h, store'[h]) # 0
    BY <2>1, <1>8, InvParts, ScheduleIs
  <2> QED
    BY <2>2, <1>1, <1>2, <1>3
<1>10. alarm' \in [Brackets -> Nat]
  <2>1. \A a \in Brackets : alarm'[a] \in Nat
    BY <1>7, <1>9, <1>3, InvParts, EntriesAre
  <2>2. alarm' = [a \in Brackets |-> alarm'[a]]
    BY <1>1, <1>3
  <2> QED
    BY <2>1, <2>2
<1>11. Typed' /\ HistoryOK'
  BY <1>1, <1>6, <1>7, <1>10, InvParts, HistoryStays DEF Typed, HistoryOK
<1>12. ASSUME NEW a \in Brackets PROVE BracketOK(a)'
  <2>1. /\ op'[a].kind = op[a].kind /\ op'[a].self = op[a].self /\ op'[a].pc = op[a].pc
        /\ op'[a].sel \subseteq op[a].sel /\ op'[a].asks = op[a].asks
    BY <1>1, <1>6
  <2>2. KnownIn(a)'
    <3>1. CASE a = h
      BY <3>1, <2>1, <1>1, <1>2, <1>8, <1>9, JoinsStay, InvParts DEF KnownIn
    <3>2. CASE a # h
      BY <3>2, <2>1, <1>1, <1>7, InvParts, KnownStays DEF KnownIn
    <3> QED
      BY <3>1, <3>2
  <2>3. AsksOthers(a)'
    BY <2>1, <1>1, JoinsStay, InvParts DEF AsksOthers
  <2>4. CallbackOK(op[a], store[a])'
    <3>1. CASE a = b
      <4>1. op[a] # Idle /\ op'[a] # Idle /\ op[a].pc = "restore"
        BY <3>1, <1>1, <1>6, OpsAre
      <4> QED
        BY <4>1, <2>1, InvParts DEF CallbackOK
    <3>2. CASE a # b /\ op[a] = Idle
      BY <3>2, <1>6, OpsAre DEF CallbackOK, Idle
    <3>3. CASE a # b /\ op[a] # Idle
      <4>1. op'[a] = op[a] /\ store'[a] = store[a]
        BY <3>3, <1>2, <1>6, <1>7
      <4> QED
        BY <4>1, InvParts
    <3> QED
      BY <3>1, <3>2, <3>3
  <2>5. AlarmOK(op[a], store[a], sock[a], alarm[a])'
    <3>1. CASE a = h /\ h # b
      BY <3>1, <1>9 DEF AlarmOK
    <3>2. CASE a = h /\ h = b
      <4>1. store'[a] \cup op'[a].sel \subseteq store[a] \cup op[a].sel
        BY <3>2, <1>1, <1>6, <1>8
      <4>2. alarm'[a] = alarm[a] /\ sock'[a] = sock[a]
        BY <3>2, <1>1, <1>9
      <4> QED
        BY <4>1, <4>2, <2>1, InvParts DEF AlarmOK
    <3>3. CASE a # h
      BY <3>3, <2>1, <1>1, <1>7, InvParts DEF AlarmOK
    <3> QED
      BY <3>1, <3>2, <3>3
  <2> QED
    BY <2>2, <2>3, <2>4, <2>5 DEF BracketOK
<1>13. LendersOK'
  <2>1. ASSUME NEW a \in Brackets, NEW c \in Brackets, Asks(a, c)'
        PROVE  Asks(a, c) /\ op'[c].kind = op[c].kind
    BY <2>1, <1>1, <1>6 DEF Asks
  <2> QED
    BY <2>1, LendersStay
<1>14. PlacesOK'
  <2>1. Held(b, i) /\ PlacesOK
    BY <1>1, InvParts DEF Held
  <2>2. ASSUME NEW a \in Brackets, NEW j \in Entries
        PROVE  Held(a, j)' => Held(a, j) /\ j # i
    BY <2>1, <1>1, <1>2, <1>6 DEF Held, PlacesOK
  <2>3. ASSUME NEW a \in Brackets, NEW j \in Entries
        PROVE  j \in store'[a] => j \in store[a] \/ (j = i /\ a = h)
    BY <1>7, <1>8
  <2>4. \A a \in Brackets : i \notin store[a]
    BY <2>1, <1>2 DEF PlacesOK
  <2>5. ASSUME NEW a \in Brackets, NEW c \in Brackets, NEW j \in Entries
        PROVE  /\ j \in store'[a] /\ j \in store'[c] => a = c
               /\ Held(a, j)' /\ Held(c, j)' => a = c
               /\ ~(j \in store'[a] /\ Held(c, j)')
    BY <2>1, <2>2, <2>3, <2>4 DEF PlacesOK
  <2>6. ASSUME NEW f \in formed, NEW j \in f, NEW a \in Brackets
        PROVE  j \notin store'[a] /\ ~Held(a, j)'
    <3>1. j \in Entries
      BY InvParts DEF HistoryOK
    <3>2. j # i
      BY <2>1, <1>2 DEF PlacesOK
    <3> QED
      BY <3>1, <3>2, <2>1, <2>2, <2>3 DEF PlacesOK
  <2>7. \A f, g \in formed : f \cap g # {} => f = g
    BY <2>1 DEF PlacesOK
  <2> QED
    BY <2>5, <2>6, <2>7, <1>1, JoinsStay DEF PlacesOK
<1>15. PairsOK'
  BY <1>1, <1>6, PairsStay
<1> QED
  BY <1>11, <1>12, <1>13, <1>14, <1>15 DEF QueueInv

LEMMA JoinKeeps ==
  ASSUME QueueInv, NEW b \in Brackets, NEW p \in Players, Join(p, b)
  PROVE  QueueInv'
<1>0. PICK i \in Nat : i = Len(joined) + 1
  BY InvParts, EntriesAre
<1>1. /\ i = Len(joined) + 1 /\ op[b] = Idle /\ b \in JoinsIn[p] /\ i <= MaxJoins
      /\ joined' = Append(joined, [who |-> p, home |-> b])
      /\ sock' = [sock EXCEPT ![b] = (@ \ Of(@, p)) \cup {i}]
      /\ closing' = [closing EXCEPT ![b] = @ \cup Of(sock[b], p)]
      /\ store' = [store EXCEPT ![b] = (store[b] \ Of(store[b], p)) \cup {i}]
      /\ op' = [op EXCEPT ![b] = Starts("join", i)]
      /\ alarm' = alarm /\ formed' = formed /\ told' = told /\ faults' = faults
  <2>1. Len(joined) \in Nat /\ MaxJoins \in Nat
    BY InvParts, EntriesAre, QueueAssumption
  <2>2. Len(joined) < MaxJoins => i <= MaxJoins
    BY <2>1, <1>0
  <2> QED
    BY <2>2, <1>0 DEF Join, Put
<1>2. PICK x \in Joins : x = [who |-> p, home |-> b] /\ x.who = p /\ x.home = b
  <2>1. /\ [who |-> p, home |-> b] \in Joins
        /\ [who |-> p, home |-> b].who = p /\ [who |-> p, home |-> b].home = b
    BY DEF Joins
  <2> QED
    BY <2>1
<1>3. /\ joined' \in Seq(Joins) /\ Len(joined') = i /\ joined'[i] = x
      /\ \A j \in 1..Len(joined) : joined'[j] = joined[j]
  BY <1>1, <1>2, JoinIs, InvParts DEF Typed
<1>4. /\ Entries' = Entries \cup {i} /\ i \notin Entries /\ Entries \subseteq Nat /\ 0 \notin Entries
      /\ \A j \in Entries : Who(j)' = Who(j) /\ Home(j)' = Home(j)
      /\ Who(i)' = p /\ Home(i)' = b
  BY <1>1, <1>2, <1>3, InvParts, EntriesAre DEF Entries, Who, Home
<1>5. /\ store \in [Brackets -> SUBSET Nat] /\ sock \in [Brackets -> SUBSET Nat]
      /\ closing \in [Brackets -> SUBSET Nat] /\ op \in [Brackets -> Ops]
  BY InvParts DEF Typed
<1>6. /\ op' \in [Brackets -> Ops] /\ \A a \in Brackets \ {b} : op'[a] = op[a]
      /\ op'[b].kind = "join" /\ op'[b].self = i /\ op'[b].pc = "form"
      /\ op'[b].sel = {} /\ op'[b].asks = <<>> /\ op'[b] # Idle /\ Len(<<>>) = 0
  BY <1>1, <1>5, OpsAre
<1>7. /\ store' \in [Brackets -> SUBSET Nat] /\ sock' \in [Brackets -> SUBSET Nat]
      /\ closing' \in [Brackets -> SUBSET Nat]
      /\ store'[b] = (store[b] \ Of(store[b], p)) \cup {i}
      /\ sock'[b] = (sock[b] \ Of(sock[b], p)) \cup {i}
      /\ closing'[b] = closing[b] \cup Of(sock[b], p)
      /\ \A a \in Brackets \ {b} :
           store'[a] = store[a] /\ sock'[a] = sock[a] /\ closing'[a] = closing[a]
  BY <1>1, <1>5 DEF Of
<1>8. Typed'
  BY <1>1, <1>3, <1>6, <1>7, InvParts DEF Typed
<1>9. HistoryOK'
  <2>1. ASSUME NEW j \in Entries' PROVE Home(j)' \in JoinsIn[Who(j)']
    BY <1>1, <1>4, InvParts DEF HistoryOK
  <2> QED
    BY <2>1, <1>1, <1>4, InvParts DEF HistoryOK
<1>10. BracketOK(b)'
  <2>1. KnownIn(b)'
    <3>1. KnownIn(b) /\ i \notin closing[b] /\ i \notin store[b]
      BY <1>4, InvParts DEF KnownIn
    <3>2. /\ store'[b] \subseteq Entries' /\ sock'[b] \subseteq Entries' /\ closing'[b] \subseteq Entries'
          /\ op'[b].sel \subseteq Entries' /\ alarm'[b] \in {0} \cup Entries'
          /\ op'[b].self \in {0} \cup Entries'
      BY <3>1, <1>1, <1>4, <1>6, <1>7 DEF KnownIn, Of
    <3>3. \A j \in store'[b] \cup sock'[b] \cup closing'[b] : Home(j)' = b
      BY <3>1, <1>4, <1>7 DEF KnownIn, Of
    <3>4. ASSUME NEW j \in store'[b], NEW k \in store'[b], Who(j)' = Who(k)' PROVE j = k
      <4>1. \A l \in store'[b] : l # i => l \in store[b] /\ Who(l)' = Who(l) /\ Who(l) # p
        BY <3>1, <1>4, <1>7 DEF KnownIn, Of
      <4> QED
        BY <4>1, <3>1, <3>4, <1>4 DEF KnownIn
    <3>5. sock'[b] \cap closing'[b] = {}
      BY <3>1, <1>4, <1>7 DEF KnownIn, Of
    <3> QED
      BY <3>2, <3>3, <3>4, <3>5 DEF KnownIn
  <2>2. AsksOthers(b)'
    <3>1. \A k \in 1..Len(op'[b].asks) : op'[b].asks[k] # b
      BY <1>6
    <3> QED
      BY <3>1, <1>6 DEF AsksOthers
  <2>3. CallbackOK(op[b], store[b])'
    BY <1>4, <1>6, <1>1, InvParts, EntriesAre DEF CallbackOK
  <2>4. AlarmOK(op[b], store[b], sock[b], alarm[b])'
    <3>1. (store'[b] \cap sock'[b]) \ {i} \subseteq store[b] \cap sock[b]
      BY <1>7
    <3>2. store[b] \cap sock[b] # {} => alarm[b] # 0
      <4>1. 0 \notin store[b]
        BY <1>4, InvParts DEF KnownIn
      <4> QED
        BY <4>1, <1>1, OpsAre, InvParts DEF AlarmOK
    <3> QED
      BY <3>1, <3>2, <1>1, <1>6 DEF AlarmOK
  <2> QED
    BY <2>1, <2>2, <2>3, <2>4 DEF BracketOK
<1>11. ASSUME NEW a \in Brackets \ {b} PROVE BracketOK(a)'
  BY <1>1, <1>4, <1>6, <1>7, BracketStays
<1>12. LendersOK'
  <2>1. ASSUME NEW a \in Brackets, NEW c \in Brackets, Asks(a, c)'
        PROVE  Asks(a, c) /\ op'[c].kind = op[c].kind
    <3>1. a # b /\ Asks(a, c)
      BY <2>1, <1>6 DEF Asks
    <3>2. op[c].kind = "lend"
      BY <3>1, InvParts DEF LendersOK
    <3> QED
      BY <3>1, <3>2, <1>1, <1>6, OpsAre
  <2> QED
    BY <2>1, LendersStay
<1>13. PlacesOK'
  <2>1. PlacesOK /\ \A a \in Brackets : i \notin store[a] /\ i \notin op[a].sel
    BY <1>4, InvParts DEF KnownIn
  <2>2. ASSUME NEW a \in Brackets, NEW j
        PROVE  Held(a, j)' => Held(a, j) /\ j \in Entries
    BY <1>6, InvParts DEF Held, KnownIn
  <2>3. ASSUME NEW a \in Brackets, NEW j
        PROVE  j \in store'[a] => (j \in store[a] /\ j \in Entries) \/ (j = i /\ a = b)
    BY <1>7, InvParts DEF KnownIn
  <2>4. ASSUME NEW a \in Brackets, NEW c \in Brackets, NEW j \in Entries'
        PROVE  /\ j \in store'[a] /\ j \in store'[c] => a = c
               /\ Held(a, j)' /\ Held(c, j)' => a = c
               /\ ~(j \in store'[a] /\ Held(c, j)')
    <3>1. CASE j = i
      <4>1. ~Held(a, j)' /\ ~Held(c, j)'
        BY <3>1, <2>2, <1>4
      <4>2. (j \in store'[a] => a = b) /\ (j \in store'[c] => c = b)
        BY <3>1, <2>3, <1>4
      <4> QED
        BY <4>1, <4>2
    <3>2. CASE j # i
      <4>1. /\ Held(a, j)' => Held(a, j)
            /\ Held(c, j)' => Held(c, j)
        BY <2>2
      <4>2. /\ j \in store'[a] => j \in store[a]
            /\ j \in store'[c] => j \in store[c]
        BY <3>2, <2>3
      <4>3. j \in Entries
        BY <3>2, <1>4
      <4> QED
        BY <4>1, <4>2, <4>3, <2>1 DEF PlacesOK
    <3> QED
      BY <3>1, <3>2
  <2>5. ASSUME NEW f \in formed, NEW j \in f, NEW a \in Brackets
        PROVE  j \notin store'[a] /\ ~Held(a, j)'
    <3>1. j \in Entries /\ j # i
      BY <1>4, InvParts DEF HistoryOK
    <3> QED
      BY <3>1, <2>1, <2>2, <2>3 DEF PlacesOK
  <2>6. \A f, g \in formed : f \cap g # {} => f = g
    BY <2>1 DEF PlacesOK
  <2> QED
    BY <2>4, <2>5, <2>6, <1>1 DEF PlacesOK
<1>14. PairsOK'
  <2>1. ASSUME NEW f, IsPair(f) PROVE IsPair(f)'
    BY <2>1, <1>4 DEF IsPair
  <2>2. ASSUME NEW a \in Brackets, op'[a].pc \in {"forming", "notify"} PROVE op'[a] = op[a]
    BY <2>2, <1>6
  <2>3. PairsOK
    BY InvParts
  <2> QED
    BY <2>1, <2>2, <2>3, <1>1 DEF PairsOK
<1> QED
  BY <1>8, <1>9, <1>10, <1>11, <1>12, <1>13, <1>14 DEF QueueInv

-----------------------------------------------------------------------------
(* The invariant *)

LEMMA InitHolds ==
  ASSUME Init
  PROVE  QueueInv
<1>1. Entries = {} /\ Len(joined) = 0 /\ joined \in Seq(Joins)
  BY DEF Init, Entries
<1>2. Typed /\ HistoryOK
  BY <1>1, OpsAre, QueueAssumption DEF Init, Typed, HistoryOK
<1>3. ASSUME NEW b \in Brackets
      PROVE  op[b] = Idle /\ store[b] = {} /\ sock[b] = {} /\ closing[b] = {} /\ alarm[b] = 0
  BY DEF Init
<1>4. ASSUME NEW b \in Brackets PROVE BracketOK(b)
  <2>1. KnownIn(b) /\ AlarmOK(op[b], store[b], sock[b], alarm[b])
    BY <1>3, OpsAre DEF KnownIn, AlarmOK
  <2>2. CallbackOK(op[b], store[b])
    BY <1>3, OpsAre DEF CallbackOK
  <2>3. \A k \in 1..Len(op[b].asks) : op[b].asks[k] # b
    <3>1. op[b].asks = <<>> /\ Len(<<>>) = 0
      BY <1>3, OpsAre
    <3> QED
      BY <3>1
  <2> QED
    BY <2>1, <2>2, <2>3, <1>3, OpsAre DEF BracketOK, AsksOthers
<1>5. LendersOK /\ PlacesOK /\ PairsOK
  BY <1>1, <1>3, OpsAre DEF Init, LendersOK, Asks, PlacesOK, PairsOK
<1> QED
  BY <1>2, <1>4, <1>5 DEF QueueInv

LEMMA StepKeeps ==
  ASSUME QueueInv, NEW b \in Brackets, Step(b)
  PROVE  QueueInv'
<1>1. CASE SelectPair(b) \/ FormSucceeds(b) \/ Notify(b) \/ Notified(b)
  BY <1>1, SelectPairKeeps, FormSucceedsKeeps, NotifyKeeps, NotifiedKeeps
<1>2. CASE Restore(b) \/ Restored(b) \/ EndJoin(b) \/ Alarm(b)
  BY <1>2, RestoreKeeps, RestoredKeeps, EndJoinKeeps, AlarmKeeps
<1>3. CASE Widen(b) \/ EndAlarm(b) \/ Borrow(b) \/ Lend(b)
  BY <1>3, WidenKeeps, EndAlarmKeeps, BorrowKeeps, LendKeeps
<1>4. CASE NothingBorrowed(b) \/ Borrowed(b) \/ BorrowFails(b) \/ CircleBroken(b)
  BY <1>4, NothingBorrowedKeeps, BorrowedKeeps, BorrowFailsKeeps, CircleBrokenKeeps
<1> QED
  BY <1>1, <1>2, <1>3, <1>4 DEF Step

LEMMA NextKeeps ==
  ASSUME QueueInv, [Next]_vars
  PROVE  QueueInv'
<1>1. CASE UNCHANGED vars
  <2>1. /\ joined' = joined /\ store' = store /\ sock' = sock /\ closing' = closing
        /\ alarm' = alarm /\ op' = op /\ formed' = formed /\ told' = told /\ faults' = faults
    BY <1>1 DEF vars
  <2>2. Typed' /\ HistoryOK'
    BY <2>1, InvParts, HistoryStays DEF Typed, HistoryOK
  <2>3. \A b \in Brackets : BracketOK(b)'
    BY <2>1, JoinsStay, BracketStays
  <2>4. LendersOK'
    BY <2>1, LendersStay DEF Asks
  <2>5. PlacesOK' /\ PairsOK'
    <3>1. PlacesOK'
      BY <2>1, InvParts, PlacesStay DEF PlacesOK, Held
    <3>2. PairsOK'
      BY <2>1, PairsStay
    <3> QED
      BY <3>1, <3>2
  <2> QED
    BY <2>2, <2>3, <2>4, <2>5 DEF QueueInv
<1>2. ASSUME NEW b \in Brackets,
             \/ \E p \in Players : Join(p, b)
             \/ Disconnect(b) \/ SocketClosed(b) \/ Step(b)
             \/ FormFails(b) \/ NotifyFails(b) \/ RestoreFails(b) \/ Reset(b)
      PROVE  QueueInv'
  <2>1. CASE \E p \in Players : Join(p, b)
    BY <2>1, JoinKeeps
  <2>2. CASE Disconnect(b) \/ SocketClosed(b) \/ Step(b)
    BY <2>2, DisconnectKeeps, SocketClosedKeeps, StepKeeps
  <2>3. CASE FormFails(b) \/ NotifyFails(b) \/ RestoreFails(b) \/ Reset(b)
    BY <2>3, FormFailsKeeps, NotifyFailsKeeps, RestoreFailsKeeps, ResetKeeps
  <2> QED
    BY <1>2, <2>1, <2>2, <2>3
<1> QED
  BY <1>1, <1>2 DEF Next

(* The inductive invariant of the queue holds in every reachable state,     *)
(* whatever fails: joins, borrows, loans, restores, retries and resets of   *)
(* sisr-workers/worker/queue.ts in any order.                               *)
THEOREM Invariance == Spec => []QueueInv
<1>1. Init => QueueInv
  BY InitHolds
<1>2. QueueInv /\ [Next]_vars => QueueInv'
  BY NextKeeps
<1> QED
  BY <1>1, <1>2, PTL DEF Spec

-----------------------------------------------------------------------------
(* What the invariant says *)

(* Every variable keeps its type, and a bracket stores one entry of a       *)
(* player (storage key q:<uuid>).                                           *)
THEOREM TypeCorrect == Spec => []TypeOK
<1>1. ASSUME QueueInv PROVE TypeOK
  <2>1. /\ joined \in Seq([who : Players, home : Brackets]) /\ Len(joined) <= MaxJoins
        /\ faults \in 0..MaxFaults /\ DOMAIN op = Brackets
        /\ formed \subseteq SUBSET Entries /\ told \subseteq Entries
    BY <1>1, InvParts DEF Typed, HistoryOK, Joins
  <2>2. ASSUME NEW b \in Brackets
        PROVE  /\ op[b].kind \in {"none", "join", "alarm", "lend"}
               /\ op[b].pc \in {"idle", "form", "forming", "notify", "restore", "borrow",
                                "borrowing", "borrowed", "broken"}
               /\ op[b].sel \subseteq Entries
               /\ op[b].asks \in Seq(Brackets)
               /\ op[b].self \in {0} \cup Entries
               /\ \A i, j \in store[b] : Who(i) = Who(j) => i = j
    BY <1>1, InvParts DEF Ops, KnownIn
  <2>3. /\ store \in [Brackets -> SUBSET Entries] /\ sock \in [Brackets -> SUBSET Entries]
        /\ closing \in [Brackets -> SUBSET Entries] /\ alarm \in [Brackets -> {0} \cup Entries]
    BY <1>1, InvParts DEF Typed, KnownIn
  <2> QED
    BY <2>1, <2>2, <2>3 DEF TypeOK
<1> QED
  BY <1>1, Invariance, PTL

LEMMA AtMostOne ==
  ASSUME NEW S, \A x, y \in S : x = y
  PROVE  Cardinality(S) \in {0, 1} /\ (Cardinality(S) = 1 <=> S # {})
<1>1. CASE S = {}
  BY <1>1, FS_EmptySet
<1>2. CASE S # {}
  <2>1. PICK x \in S : S = {x}
    BY <1>2
  <2> QED
    BY <2>1, <1>2, FS_Singleton
<1> QED
  BY <1>1, <1>2

(* An entry waits in one bracket, or is in the hands of one callback, or in *)
(* one match: no borrow, restore or retry doubles it (handleBorrow,         *)
(* restoreWaiters, formMatch).                                              *)
THEOREM PlacesCorrect == Spec => []EntryInOnePlace
<1>1. ASSUME QueueInv PROVE EntryInOnePlace
  <2>1. PlacesOK
    BY <1>1, InvParts
  <2>2. ASSUME NEW i \in Entries
        PROVE  Cardinality(HeldBy(i)) + Cardinality(StoredIn(i)) + Cardinality(FormedIn(i)) <= 1
    <3>1. /\ \A a, b \in HeldBy(i) : a = b
          /\ \A a, b \in StoredIn(i) : a = b
          /\ HeldBy(i) = {} \/ StoredIn(i) = {}
      BY <2>1 DEF PlacesOK, HeldBy, StoredIn, Held
    <3>2. \A f, g \in FormedIn(i) : f = g
      BY <2>1 DEF PlacesOK, FormedIn
    <3>3. FormedIn(i) = {} \/ (HeldBy(i) = {} /\ StoredIn(i) = {})
      BY <2>1 DEF PlacesOK, HeldBy, StoredIn, FormedIn, Held
    <3>4. /\ Cardinality(HeldBy(i)) \in {0, 1} /\ (Cardinality(HeldBy(i)) = 1 <=> HeldBy(i) # {})
          /\ Cardinality(StoredIn(i)) \in {0, 1} /\ (Cardinality(StoredIn(i)) = 1 <=> StoredIn(i) # {})
          /\ Cardinality(FormedIn(i)) \in {0, 1} /\ (Cardinality(FormedIn(i)) = 1 <=> FormedIn(i) # {})
      BY <3>1, <3>2, AtMostOne
    <3> QED
      BY <3>1, <3>3, <3>4
  <2> QED
    BY <2>2 DEF EntryInOnePlace
<1> QED
  BY <1>1, Invariance, PTL

(* A match is of two entries; whoever it pairs with himself has joined in   *)
(* two brackets (SelectPair takes two of one bracket's entries, Borrowed    *)
(* one of its own and one of another's).                                    *)
THEOREM PairsCorrect == Spec => []MatchOfTwo
<1>1. ASSUME QueueInv PROVE MatchOfTwo
  <2>1. ASSUME NEW f \in formed
        PROVE  /\ Cardinality(f) = 2
               /\ \A k, l \in f : Who(k) = Who(l) => k = l \/ Home(k) # Home(l)
    <3>1. PICK i, j \in Entries : /\ f = {i, j} /\ i # j
                                  /\ Who(i) = Who(j) => Home(i) # Home(j)
      BY <1>1, <2>1, InvParts DEF PairsOK, IsPair
    <3>2. Cardinality({i, j}) = 2
      <4>1. IsFiniteSet({i}) /\ Cardinality({i}) = 1
        BY FS_Singleton
      <4>2. {i} \cup {j} = {i, j} /\ j \notin {i}
        BY <3>1
      <4>3. Cardinality({i} \cup {j}) = Cardinality({i}) + 1
        BY <4>1, <4>2, FS_AddElement
      <4> QED
        BY <4>1, <4>2, <4>3
    <3>3. ASSUME NEW k \in f, NEW l \in f, Who(k) = Who(l) PROVE k = l \/ Home(k) # Home(l)
      BY <3>1, <3>3
    <3> QED
      BY <3>1, <3>2, <3>3
  <2> QED
    BY <2>1 DEF MatchOfTwo
<1> QED
  BY <1>1, Invariance, PTL

(* An idle bracket with a waiter behind an open socket has its alarm set    *)
(* (scheduleNextAlarm after joins, alarms and restores).                    *)
THEOREM AlarmCorrect == Spec => []WaitersHaveAnAlarm
<1>1. ASSUME QueueInv PROVE WaitersHaveAnAlarm
  <2>1. ASSUME NEW b \in Brackets, op[b] = Idle, Waiting(b) # {} PROVE alarm[b] # 0
    <3>1. /\ AlarmOK(op[b], store[b], sock[b], alarm[b])
          /\ op[b].kind = "none" /\ op[b].self = 0 /\ 0 \notin store[b]
      BY <1>1, <2>1, InvParts, OpsAre, EntriesAre DEF KnownIn
    <3> QED
      BY <2>1, <3>1 DEF AlarmOK, Waiting
  <2> QED
    BY <2>1 DEF WaitersHaveAnAlarm
<1> QED
  BY <1>1, Invariance, PTL

-----------------------------------------------------------------------------
(* No step forgets a waiter *)

LEMMA StaysRemembered ==
  ASSUME NEW i, joined' = joined, formed \subseteq formed', Remembered(i),
         FormedIn(i) = {} /\ i \in store[Home(i)] =>
           i \in store'[Home(i)] \/ \E a \in Brackets : i \in op'[a].sel,
         FormedIn(i) = {} => \A a \in Brackets : i \in op[a].sel =>
           i \in store'[Home(i)] \/ \E c \in Brackets : i \in op'[c].sel
  PROVE  Remembered(i)'
<1>1. Home(i)' = Home(i) /\ FormedIn(i) \subseteq FormedIn(i)'
  BY DEF Home, FormedIn
<1> QED
  BY <1>1 DEF Remembered

(* Another entry of the same player in the same bracket: there is none. *)
LEMMA OnlyOnce ==
  ASSUME NEW i \in Entries, NEW j \in Entries, Once(i), Who(j) = Who(i), Home(j) = Home(i)
  PROVE  j = i
BY DEF Once

LEMMA JoinRemembers ==
  ASSUME QueueInv, NEW b \in Brackets, NEW p \in Players, Join(p, b), NEW i \in Entries,
         Remembered(i), Home(i) = b => i \in sock[b] /\ i \in sock'[b]
  PROVE  Remembered(i)'
<1>1. PICK n : /\ n = Len(joined) + 1 /\ op[b] = Idle
               /\ joined' = Append(joined, [who |-> p, home |-> b])
               /\ sock' = [sock EXCEPT ![b] = (@ \ Of(@, p)) \cup {n}]
               /\ store' = [store EXCEPT ![b] = (@ \ Of(@, p)) \cup {n}]
               /\ op' = [op EXCEPT ![b] = Starts("join", n)] /\ formed' = formed
  BY DEF Join, Put
<1>2. /\ store \in [Brackets -> SUBSET Nat] /\ sock \in [Brackets -> SUBSET Nat]
      /\ op \in [Brackets -> Ops] /\ joined \in Seq(Joins)
  BY InvParts DEF Typed
<1>3. i \in 1..Len(joined) /\ Len(joined) \in Nat
  BY InvParts, EntriesAre DEF Entries
<1>4. joined'[i] = joined[i]
  <2>1. [who |-> p, home |-> b] \in Joins
    BY DEF Joins
  <2> QED
    BY <2>1, <1>1, <1>2, <1>3, JoinIs
<1>5. Home(i)' = Home(i) /\ Home(i) \in Brackets /\ i # n
  BY <1>1, <1>3, <1>4, InvParts, EntriesAre DEF Home
<1>6. i \in store[Home(i)] => i \in store'[Home(i)]
  <2>1. CASE Home(i) = b
    <3>1. i \notin Of(sock[b], p) /\ i \in sock[b]
      BY <2>1, <1>1, <1>2, <1>5
    <3> QED
      BY <3>1, <2>1, <1>1, <1>2 DEF Of
  <2>2. CASE Home(i) # b
    BY <2>2, <1>1, <1>2, <1>5
  <2> QED
    BY <2>1, <2>2
<1>7. \A a \in Brackets : i \in op[a].sel => op'[a] = op[a]
  BY <1>1, <1>2, OpsAre
<1>8. FormedIn(i)' = FormedIn(i)
  BY <1>1 DEF FormedIn
<1> QED
  BY <1>5, <1>6, <1>7, <1>8 DEF Remembered

LEMMA SocketClosedRemembers ==
  ASSUME QueueInv, NEW b \in Brackets, SocketClosed(b), NEW i \in Entries, Once(i),
         Remembered(i), i \in sock[Home(i)]
  PROVE  Remembered(i)'
<1>1. PICK j \in closing[b] : store' = [store EXCEPT ![b] = @ \ Of(@, Who(j))]
  BY DEF SocketClosed
<1>2. joined' = joined /\ op' = op /\ formed' = formed
  BY DEF SocketClosed
<1>3. store \in [Brackets -> SUBSET Nat] /\ Home(i) \in Brackets /\ j \in Entries
  BY InvParts, EntriesAre DEF Typed, KnownIn
<1>4. i \in store[Home(i)] => i \in store'[Home(i)]
  <2>1. CASE Home(i) = b
    <3>1. j # i
      BY <2>1, InvParts DEF KnownIn
    <3>2. Home(j) = b
      BY InvParts DEF KnownIn
    <3>3. Who(j) # Who(i)
      BY <3>1, <3>2, <2>1, <1>3, OnlyOnce
    <3> QED
      BY <3>3, <2>1, <1>1, <1>3 DEF Of
  <2>2. CASE Home(i) # b
    BY <2>2, <1>1, <1>3
  <2> QED
    BY <2>1, <2>2
<1> QED
  BY <1>2, <1>4, StaysRemembered

(* A callback whose hands are empty may end or begin. *)
LEMMA EmptyHands ==
  ASSUME NEW i, NEW b \in Brackets, joined' = joined, store' = store, formed' = formed,
         Remembered(i), op[b].sel = {},
         \A a \in Brackets \ {b} : op'[a].sel = op[a].sel \/ op[a].sel = {}
  PROVE  Remembered(i)'
BY StaysRemembered

LEMMA ThrowRemembers ==
  ASSUME QueueInv, NEW b \in Brackets, Throw(b), op[b].sel = {}, ~ResetObject(b),
         joined' = joined, store' = store, formed' = formed, NEW i, Remembered(i)
  PROVE  Remembered(i)'
<1>1. op' = Answers(b, "broken", {})
  BY DEF Throw
<1>2. \A a \in Brackets \ {b} : Asks(a, b) \/ op'[a] = op[a]
  BY <1>1, AnswersIs DEF Pcs
<1>3. \A a \in Brackets : Asks(a, b) => op[a].sel = {}
  BY InvParts DEF Asks, CallbackOK
<1> QED
  BY <1>2, <1>3, EmptyHands

LEMMA ReturnsRemembers ==
  ASSUME QueueInv, NEW b \in Brackets, Returns(b), op[b].sel = {},
         joined' = joined, store' = store, formed' = formed, NEW i, Remembered(i)
  PROVE  Remembered(i)'
BY ReturnsIs, EmptyHands

LEMMA SelectPairRemembers ==
  ASSUME QueueInv, NEW b \in Brackets, SelectPair(b), NEW i \in Entries, Remembered(i)
  PROVE  Remembered(i)'
<1>1. PICK pair : /\ store' = [store EXCEPT ![b] = @ \ pair]
                  /\ op' = [op EXCEPT ![b].pc = "forming", ![b].sel = pair]
  BY DEF SelectPair
<1>2. op[b].pc = "form" /\ joined' = joined /\ formed' = formed
  BY DEF SelectPair
<1>3. /\ store \in [Brackets -> SUBSET Nat] /\ op \in [Brackets -> Ops]
      /\ op[b].sel = {} /\ Home(i) \in Brackets
  BY <1>2, InvParts, EntriesAre DEF Typed, CallbackOK
<1>4. PICK o \in Ops : o = op[b]
  BY <1>3
<1>5. op'[b] = [o EXCEPT !.pc = "forming", !.sel = pair] /\ \A a \in Brackets \ {b} : op'[a] = op[a]
  BY <1>1, <1>3, <1>4
<1>6. op'[b].sel = pair
  BY <1>5 DEF Ops
<1>7. i \in store[Home(i)] => i \in store'[Home(i)] \/ i \in op'[b].sel
  BY <1>1, <1>3, <1>6
<1> QED
  BY <1>2, <1>3, <1>5, <1>7, StaysRemembered

LEMMA NotifyRemembers ==
  ASSUME QueueInv, NEW b \in Brackets, Notify(b), NEW i \in Entries, Once(i), Remembered(i)
  PROVE  Remembered(i)'
<1>1. PICK j : /\ j \in op[b].sel /\ op[b].pc = "notify"
               /\ store' = [store EXCEPT ![Home(j)] = @ \ Of(@, Who(j))]
               /\ op' = [op EXCEPT ![b].sel = @ \ {j}] /\ joined' = joined /\ formed' = formed
  BY DEF Notify
<1>2. /\ store \in [Brackets -> SUBSET Nat] /\ op \in [Brackets -> Ops] /\ op[b].sel \in SUBSET Nat
      /\ Home(i) \in Brackets /\ j \in Entries
  BY <1>1, InvParts, EntriesAre DEF Typed, KnownIn, Ops
<1>3. FormedIn(j) # {}
  <2>1. PICK f \in formed : op[b].sel \subseteq f
    BY <1>1, InvParts DEF PairsOK
  <2> QED
    BY <2>1, <1>1 DEF FormedIn
<1>4. PICK sel \in SUBSET Nat : sel = op[b].sel \ {j}
  BY <1>2
<1>5. Continues(b, "notify", sel, op[b].asks)
  BY <1>1, <1>2, <1>4, SelIs
<1>6. op'[b].sel = op[b].sel \ {j} /\ \A a \in Brackets \ {b} : op'[a] = op[a]
  BY <1>4, <1>5 DEF Continues, Moves
<1>7. FormedIn(i) = {} => i # j /\ (Home(j) = Home(i) => Who(j) # Who(i))
  BY <1>2, <1>3, OnlyOnce
<1>8. ASSUME FormedIn(i) = {}, i \in store[Home(i)] PROVE i \in store'[Home(i)]
  <2>1. CASE Home(i) = Home(j)
    BY <2>1, <1>1, <1>2, <1>7, <1>8 DEF Of
  <2>2. CASE Home(i) # Home(j)
    BY <2>2, <1>1, <1>2, <1>8
  <2> QED
    BY <2>1, <2>2
<1> QED
  BY <1>1, <1>6, <1>7, <1>8, StaysRemembered

LEMMA RestoreRemembers ==
  ASSUME QueueInv, NEW b \in Brackets, Restore(b), NEW i \in Entries, Once(i), Remembered(i)
  PROVE  Remembered(i)'
<1>1. PICK j : /\ j \in op[b].sel /\ op[b].pc = "restore"
               /\ store' = [store EXCEPT ![Home(j)] = (store[Home(j)] \ Of(store[Home(j)], Who(j))) \cup {j}]
               /\ op' = [op EXCEPT ![b].sel = @ \ {j}] /\ joined' = joined /\ formed' = formed
  BY DEF Restore, RestoreTo, Put
<1>2. /\ store \in [Brackets -> SUBSET Nat] /\ op \in [Brackets -> Ops] /\ op[b].sel \in SUBSET Nat
      /\ Home(i) \in Brackets /\ j \in Entries
  BY <1>1, InvParts, EntriesAre DEF Typed, KnownIn, Ops
<1>3. PICK sel \in SUBSET Nat : sel = op[b].sel \ {j}
  BY <1>2
<1>4. Continues(b, "restore", sel, op[b].asks)
  BY <1>1, <1>2, <1>3, SelIs
<1>5. op'[b].sel = op[b].sel \ {j} /\ \A a \in Brackets \ {b} : op'[a] = op[a]
  BY <1>3, <1>4 DEF Continues, Moves
<1>6. CASE i = j
  <2>1. i \in store'[Home(i)]
    BY <1>1, <1>2, <1>6
  <2> QED
    BY <2>1, <1>1, StaysRemembered
<1>7. CASE i # j
  <2>1. Home(j) = Home(i) => Who(j) # Who(i)
    BY <1>2, <1>7, OnlyOnce
  <2>2. ASSUME i \in store[Home(i)] PROVE i \in store'[Home(i)]
    <3>1. CASE Home(i) = Home(j)
      BY <3>1, <2>1, <2>2, <1>1, <1>2 DEF Of
    <3>2. CASE Home(i) # Home(j)
      BY <3>2, <2>2, <1>1, <1>2
    <3> QED
      BY <3>1, <3>2
  <2> QED
    BY <2>2, <1>1, <1>5, <1>7, StaysRemembered
<1> QED
  BY <1>6, <1>7

LEMMA LendRemembers ==
  ASSUME QueueInv, NEW b \in Brackets, Lend(b), ~LendsToNobody(b), NEW i \in Entries, Remembered(i)
  PROVE  Remembered(i)'
<1>1. /\ op[b].kind = "lend" /\ op[b].pc = "form" /\ op' = Answers(b, "borrowed", store[b])
      /\ store' = [store EXCEPT ![b] = {}] /\ joined' = joined /\ formed' = formed
  BY DEF Lend, KeptByLender
<1>2. /\ store \in [Brackets -> SUBSET Nat] /\ store[b] \in SUBSET Nat /\ op[b].sel = {}
      /\ Home(i) \in Brackets
  BY <1>1, InvParts, EntriesAre DEF Typed, CallbackOK
<1>3. PICK c \in Brackets : Asks(c, b)
  BY <1>1 DEF LendsToNobody
<1>4. c # b
  BY <1>1, <1>3 DEF Asks
<1>5. \A a \in Brackets \ {b} : /\ Asks(a, b) => op'[a].sel = store[b]
                                /\ ~Asks(a, b) => op'[a] = op[a]
  BY <1>1, <1>2, AnswersIs DEF Pcs, Moves
<1>6. \A a \in Brackets : Asks(a, b) => op[a].sel = {}
  BY InvParts DEF Asks, CallbackOK
<1>7. i \in store[Home(i)] => i \in store'[Home(i)] \/ i \in op'[c].sel
  BY <1>1, <1>2, <1>3, <1>4, <1>5
<1>8. \A a \in Brackets : i \in op[a].sel => i \in op'[a].sel
  BY <1>2, <1>5, <1>6
<1> QED
  BY <1>1, <1>7, <1>8, StaysRemembered

LEMMA BorrowedRemembers ==
  ASSUME QueueInv, NEW b \in Brackets, Borrowed(b), NEW i \in Entries, Remembered(i)
  PROVE  Remembered(i)'
<1>1. /\ op' = [op EXCEPT ![b].pc = "forming", ![b].sel = @ \cup store[b]]
      /\ store' = [store EXCEPT ![b] = {}] /\ joined' = joined /\ formed' = formed
  BY DEF Borrowed
<1>2. /\ store \in [Brackets -> SUBSET Nat] /\ op \in [Brackets -> Ops]
      /\ op[b].sel \in SUBSET Nat /\ store[b] \in SUBSET Nat /\ Home(i) \in Brackets
  BY InvParts, EntriesAre DEF Typed, Ops
<1>3. PICK sel \in SUBSET Nat : sel = op[b].sel \cup store[b]
  BY <1>2
<1>4. Continues(b, "forming", sel, op[b].asks)
  BY <1>1, <1>2, <1>3, PcSelIs DEF Pcs
<1>5. op'[b].sel = op[b].sel \cup store[b] /\ \A a \in Brackets \ {b} : op'[a] = op[a]
  BY <1>3, <1>4 DEF Continues, Moves
<1>6. i \in store[Home(i)] => i \in store'[Home(i)] \/ i \in op'[b].sel
  BY <1>1, <1>2, <1>5
<1> QED
  BY <1>1, <1>5, <1>6, StaysRemembered

(* A callback that goes on and keeps what it has in its hands. *)
LEMMA KeepsHands ==
  ASSUME NEW i, joined' = joined, store' = store, formed \subseteq formed', Remembered(i),
         \A a \in Brackets : op'[a].sel = op[a].sel
  PROVE  Remembered(i)'
BY StaysRemembered

LEMMA GoesOnRemembers ==
  ASSUME QueueInv, NEW b \in Brackets,
         FormSucceeds(b) \/ Widen(b) \/ Borrow(b) \/ Alarm(b) \/ Disconnect(b),
         NEW i, Remembered(i)
  PROVE  Remembered(i)'
<1>1. joined' = joined /\ store' = store /\ formed \subseteq formed'
  BY DEF FormSucceeds, Widen, Borrow, Alarm, Disconnect
<1>2. op \in [Brackets -> Ops]
  BY InvParts DEF Typed
<1>3. ASSUME NEW a \in Brackets PROVE op'[a].sel = op[a].sel
  <2>1. PICK o \in Ops : o = op[b]
    BY <1>2
  <2>2. CASE FormSucceeds(b)
    <3>1. op' = [op EXCEPT ![b] = [o EXCEPT !.pc = "notify"]]
      BY <2>1, <2>2 DEF FormSucceeds
    <3>2. [o EXCEPT !.pc = "notify"].sel = o.sel
      BY DEF Ops
    <3> QED
      BY <3>1, <3>2, <2>1, <1>2
  <2>3. CASE Widen(b)
    <3>1. op' = [op EXCEPT ![b] = [o EXCEPT !.pc = "borrow", !.asks = Neighbors[b]]]
      BY <2>1, <2>3 DEF Widen
    <3>2. [o EXCEPT !.pc = "borrow", !.asks = Neighbors[b]].sel = o.sel
      BY DEF Ops
    <3> QED
      BY <3>1, <3>2, <2>1, <1>2
  <2>4. CASE Borrow(b)
    <3>1. PICK n : /\ op[n] = Idle
                   /\ op' = [op EXCEPT ![b] = [o EXCEPT !.pc = "borrowing"], ![n] = Starts("lend", 0)]
      BY <2>1, <2>4 DEF Borrow
    <3>2. [o EXCEPT !.pc = "borrowing"].sel = o.sel
      BY DEF Ops
    <3>3. Starts("lend", 0).sel = {} /\ op[n].sel = {}
      BY <3>1, OpsAre
    <3>4. CASE a = n
      BY <3>1, <3>3, <3>4, <1>2
    <3>5. CASE a # n
      BY <3>1, <3>2, <3>5, <2>1, <1>2
    <3> QED
      BY <3>4, <3>5
  <2>5. CASE Alarm(b)
    <3>1. op[b] = Idle /\ op' = [op EXCEPT ![b] = Starts("alarm", alarm[b])]
      BY <2>5 DEF Alarm
    <3>2. Starts("alarm", alarm[b]).sel = {} /\ op[b].sel = {}
      BY <3>1, InvParts, OpsAre
    <3> QED
      BY <3>1, <3>2, <1>2
  <2>6. CASE Disconnect(b)
    BY <2>6 DEF Disconnect
  <2> QED
    BY <2>2, <2>3, <2>4, <2>5, <2>6
<1> QED
  BY <1>1, <1>3, KeepsHands

LEMMA EndsRemember ==
  ASSUME QueueInv, NEW b \in Brackets,
         Notified(b) \/ EndJoin(b) \/ EndAlarm(b) \/ NothingBorrowed(b),
         NEW i, Remembered(i)
  PROVE  Remembered(i)'
<1>1. joined' = joined /\ store' = store /\ formed' = formed
  BY DEF Notified, EndJoin, EndAlarm, NothingBorrowed
<1>2. op[b].sel = {} /\ op \in [Brackets -> Ops]
  BY InvParts DEF Notified, EndJoin, EndAlarm, NothingBorrowed, CallbackOK, Typed
<1>3. Returns(b) \/ \A a \in Brackets \ {b} : op'[a] = op[a]
  BY <1>2 DEF Notified, EndJoin, EndAlarm, NothingBorrowed
<1> QED
  BY <1>1, <1>2, <1>3, ReturnsRemembers, EmptyHands

LEMMA StepRemembers ==
  ASSUME QueueInv, NEW b \in Brackets, Step(b), faults' = faults,
         \A a \in Brackets : ~ResetObject(a) /\ ~LendsToNobody(a),
         NEW i \in Entries, Once(i), Remembered(i)
  PROVE  Remembered(i)'
<1>1. CASE SelectPair(b) \/ Notify(b) \/ Restore(b) \/ Lend(b) \/ Borrowed(b)
  BY <1>1, SelectPairRemembers, NotifyRemembers, RestoreRemembers, LendRemembers, BorrowedRemembers
<1>2. CASE FormSucceeds(b) \/ Widen(b) \/ Borrow(b) \/ Alarm(b)
  BY <1>2, GoesOnRemembers
<1>3. CASE Notified(b) \/ EndJoin(b) \/ EndAlarm(b) \/ NothingBorrowed(b)
  BY <1>3, EndsRemember
<1>4. CASE Restored(b)
  <2>1. /\ op[b].sel = {} /\ Throw(b) /\ joined' = joined /\ store' = store
        /\ formed' = formed
    BY <1>4 DEF Restored
  <2> QED
    BY <2>1, ThrowRemembers
<1>5. CASE BorrowFails(b)
  <2>1. Throw(b) /\ joined' = joined /\ store' = store /\ formed' = formed
    BY <1>5 DEF BorrowFails
  <2>2. op[b].pc = "broken"
    BY <1>5, InvParts, FailsIs DEF BorrowFails
  <2>3. op[b].sel = {}
    BY <2>2, InvParts DEF CallbackOK
  <2> QED
    BY <2>1, <2>3, ThrowRemembers
<1>6. CASE CircleBroken(b)
  BY <1>6 DEF CircleBroken
<1> QED
  BY <1>1, <1>2, <1>3, <1>4, <1>5, <1>6 DEF Step

LEMMA NextRemembers ==
  ASSUME QueueInv, Next, faults' = faults,
         \A a \in Brackets : ~ResetObject(a) /\ ~LendsToNobody(a),
         NEW q \in Brackets, NEW i \in sock[q] \cap sock'[q], Once(i), Remembered(i)
  PROVE  Remembered(i)'
<1>1. i \in Entries /\ Home(i) = q
  BY InvParts DEF KnownIn
<1>2. PICK b \in Brackets :
        \/ \E p \in Players : Join(p, b)
        \/ Disconnect(b) \/ SocketClosed(b) \/ Step(b)
        \/ FormFails(b) \/ NotifyFails(b) \/ RestoreFails(b) \/ Reset(b)
  BY DEF Next
<1>3. CASE \E p \in Players : Join(p, b)
  BY <1>1, <1>3, JoinRemembers
<1>4. CASE Disconnect(b) \/ SocketClosed(b)
  BY <1>1, <1>4, GoesOnRemembers, SocketClosedRemembers
<1>5. CASE Step(b)
  BY <1>1, <1>5, StepRemembers
<1>6. CASE FormFails(b) \/ NotifyFails(b) \/ RestoreFails(b) \/ Reset(b)
  BY <1>6, InvParts, FailsIs DEF FormFails, NotifyFails, RestoreFails, Reset
<1> QED
  BY <1>2, <1>3, <1>4, <1>5, <1>6

(* The queue forgets no waiter who has an open socket and has joined once:  *)
(* every step of handleJoin, the alarm, handleBorrow, restoreWaiters and    *)
(* notifyWaiter leaves an entry, a callback that holds it, or its match,    *)
(* but for a lost call, a reset, and a loan nobody waits for any more.      *)
THEOREM NobodyForgotten == Spec => WaitersAreRemembered
<1>1. QueueInv /\ [Next]_vars =>
        [\A b \in Brackets : \A i \in sock[b] \cap sock'[b] :
           Once(i) /\ Remembered(i) =>
             \/ Remembered(i)'
             \/ faults' # faults
             \/ \E a \in Brackets : ResetObject(a) \/ LendsToNobody(a)]_vars
  BY NextRemembers
<1> QED
  BY <1>1, Invariance, PTL DEF Spec, WaitersAreRemembered
=============================================================================
