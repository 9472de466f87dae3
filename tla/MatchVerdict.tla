----------------------------- MODULE MatchVerdict -----------------------------
(***************************************************************************)
(* What people are told of a match: one winner (OneTruthIsTold), the one   *)
(* D1 holds and keeps (ToldWinnerIsRecorded, DecidedRowIsKept), and all in *)
(* all the verdict of module MatchArbiter (MatchImplementsArbiter).        *)
(*                                                                         *)
(* What may fail is a hypothesis, because it must be: `Punctual` and       *)
(* `Reliable` exclude the failures under which the code does not keep the  *)
(* promise, and say nothing of how often the others happen.                *)
(***************************************************************************)
EXTENDS MatchProofs

(* Nothing an object has begun is cut short or outlives it: its storage     *)
(* takes every write, it is not reset, and it gives up on no call.          *)
Punctual == Faults \cap {"storage", "late", "reset"} = {}

Unseeded(m) == seed[m] \in {"none", "allocated", "inserting", "inserted"}
Aborting(m) == op[m].pc \in {"closing", "cleanup"} /\ op[m].winner = None

CommitsOf(m) == {c \in net : c.match = m /\ c.do = "commit"}

(* A winner anyone has been told of is meta's, which agrees with D1's; the   *)
(* one batch under way is that of the running callback.                      *)
ToldOK(m) ==
  /\ \A c \in CommitsOf(m) :
       op[m].pc = "persist" /\ c = Call(m, "match", "commit", op[m].winner)
  /\ op[m] # Idle => meta[m].exists
  /\ meta[m].winner # None => meta[m].exists
  /\ Unseeded(m) => ~meta[m].exists
  /\ \A w \in told[m] \cap Players : meta[m].winner = w
  /\ row[m].winner # None => meta[m].winner \in {None, row[m].winner}
  /\ op[m].pc \in {"persist", "persisted"} => meta[m].winner = None
  /\ op[m].pc = "persist" => row[m].winner = None
  /\ op[m].pc = "persisted" => row[m].winner \in {None, op[m].winner}
  /\ op[m].pc = "recorded" => meta[m].winner = op[m].winner
  /\ Aborting(m) => meta[m].winner = None

ToldInv == TypeInv /\ \A m \in Matches : ToldOK(m)

-----------------------------------------------------------------------------
(* A match that goes on as it was, or whose callback ends without a batch in *)
(* flight; its row may be dropped.                                           *)
Quiet(m) ==
  /\ meta'[m].exists = meta[m].exists /\ meta'[m].winner = meta[m].winner
  /\ row'[m].winner \in {row[m].winner, None}
  /\ told'[m] \cap Players \subseteq told[m]
  /\ Unseeded(m)' => Unseeded(m)
  /\ CommitsOf(m)' \subseteq CommitsOf(m)
  /\ op'[m] = op[m] \/ (op'[m] = Idle /\ CommitsOf(m)' = {})

LEMMA IdleIs == Idle.pc = "idle" /\ Idle.kind = "none" /\ Idle.who = None /\ Idle.winner = None
BY DEF Idle

LEMMA QuietTold ==
  ASSUME NEW m \in Matches, ToldOK(m), Quiet(m)
  PROVE  ToldOK(m)'
<1>1. CASE op'[m] = op[m]
  <2>1. \A c \in CommitsOf(m)' : op'[m].pc = "persist" /\ c = Call(m, "match", "commit", op'[m].winner)
    BY <1>1 DEF Quiet, ToldOK
  <2>2. /\ op'[m] # Idle => meta'[m].exists
        /\ meta'[m].winner # None => meta'[m].exists
        /\ Unseeded(m)' => ~meta'[m].exists
    BY <1>1 DEF Quiet, ToldOK
  <2>3. /\ \A w \in told'[m] \cap Players : meta'[m].winner = w
        /\ row'[m].winner # None => meta'[m].winner \in {None, row'[m].winner}
    BY DEF Quiet, ToldOK
  <2>4. /\ op'[m].pc \in {"persist", "persisted"} => meta'[m].winner = None
        /\ op'[m].pc = "persist" => row'[m].winner = None
        /\ op'[m].pc = "persisted" => row'[m].winner \in {None, op'[m].winner}
        /\ op'[m].pc = "recorded" => meta'[m].winner = op'[m].winner
        /\ Aborting(m)' => meta'[m].winner = None
    BY <1>1 DEF Quiet, ToldOK, Aborting
  <2> QED
    BY <2>1, <2>2, <2>3, <2>4 DEF ToldOK, Call
<1>2. CASE op'[m] = Idle /\ CommitsOf(m)' = {}
  <2>1. /\ meta'[m].winner # None => meta'[m].exists
        /\ Unseeded(m)' => ~meta'[m].exists
        /\ \A w \in told'[m] \cap Players : meta'[m].winner = w
        /\ row'[m].winner # None => meta'[m].winner \in {None, row'[m].winner}
    BY DEF Quiet, ToldOK
  <2>2. op'[m].pc = "idle" /\ ~Aborting(m)'
    BY <1>2, IdleIs DEF Aborting
  <2> QED
    BY <1>2, <2>1, <2>2 DEF ToldOK, Idle
<1> QED
  BY <1>1, <1>2 DEF Quiet

LEMMA NoCommitUnlessPersisting ==
  ASSUME NEW m \in Matches, ToldOK(m), op[m].pc # "persist"
  PROVE  CommitsOf(m) = {}
BY DEF ToldOK

(* What a failing handler does to the progress of a seed. *)
LEMMA SeedDropped ==
  ASSUME TypeInv, NEW m \in Matches, UNCHANGED seed \/ DropInFlight(m), NEW n \in Matches
  PROVE  Unseeded(n)' => Unseeded(n) /\ seed'[n] = seed[n]
BY DEF DropInFlight, Unseeded, TypeInv, TypeOK

LEMMA SeedTold ==
  ASSUME ToldInv, NEW m \in Matches, NEW n \in Matches,
         Allocate(m) \/ AllocateFails(m) \/ SeedInsert(m) \/ Formed(m) \/ FormFailed(m)
  PROVE  Quiet(n)
<1>1. meta' = meta /\ op' = op /\ row' = row /\ told' = told
  BY DEF Allocate, AllocateFails, SeedInsert, Formed, FormFailed, objectVars, d1Vars
<1>2. Unseeded(n)' => Unseeded(n)
  BY DEF Allocate, AllocateFails, SeedInsert, Formed, FormFailed, FreeToForm, Unseeded,
         ToldInv, TypeInv, TypeOK
<1>3. CommitsOf(n)' \subseteq CommitsOf(n)
  BY DEF Allocate, AllocateFails, SeedInsert, Formed, FormFailed, CommitsOf, Call
<1> QED
  BY <1>1, <1>2, <1>3 DEF Quiet

LEMMA ReadyTold ==
  ASSUME ToldInv, NEW m \in Matches, NEW n \in Matches,
         ReadyStart(m) \/ ReadyRouted(m) \/ ReadyNotified(m) \/ ReadyFails(m)
  PROVE  Quiet(n)
<1>1. op' = op /\ row' = row /\ told' = told /\ seed' = seed
  BY DEF ReadyStart, ReadyRouted, ReadyNotified, ReadyFails, queueVars, d1Vars
<1>2. meta'[n].exists = meta[n].exists /\ meta'[n].winner = meta[n].winner
  <2>1. meta' = meta \/ meta' = [meta EXCEPT ![m].ready = TRUE]
    BY DEF ReadyStart, ReadyRouted, ReadyNotified, ReadyFails
  <2>2. meta \in [Matches -> Metas]
    BY DEF ToldInv, TypeInv, TypeOK
  <2>3. CASE meta' = [meta EXCEPT ![m].ready = TRUE]
    BY <2>2, <2>3 DEF Metas
  <2> QED
    BY <2>1, <2>3
<1>3. CommitsOf(n)' \subseteq CommitsOf(n)
  BY DEF ReadyStart, ReadyRouted, ReadyNotified, ReadyFails, CommitsOf, Call
<1> QED
  BY <1>1, <1>2, <1>3 DEF Quiet, Unseeded

LEMMA RefusedTold ==
  ASSUME ToldInv, NEW m \in Matches, NEW n \in Matches, CheckFails(m) \/ NotAPlayer(m)
  PROVE  Quiet(n)
<1>1. meta' = meta /\ row' = row /\ told' = told /\ net' = net /\ op[m].pc = "check"
  BY DEF CheckFails, NotAPlayer, d1Vars
<1>2. UNCHANGED seed \/ DropInFlight(m)
  BY DEF CheckFails, NotAPlayer, Throw, ThrowHttp
<1>3. op'[m] = Idle /\ (n # m => op'[n] = op[n])
  BY DEF CheckFails, NotAPlayer, Throw, ToldInv, TypeInv, TypeOK
<1>4. CommitsOf(m) = {}
  BY <1>1, NoCommitUnlessPersisting DEF ToldInv
<1>5. CommitsOf(n)' = CommitsOf(n)
  BY <1>1 DEF CommitsOf
<1> QED
  BY <1>1, <1>2, <1>3, <1>4, <1>5, SeedDropped DEF Quiet, ToldInv

LEMMA ContainerTold ==
  ASSUME ToldInv, NEW m \in Matches, NEW n \in Matches, ContainerStep(m)
  PROVE  Quiet(n)
BY DEF ContainerStep, ContainerExits, ContainerTimesOut, ContainerExpires, objectVars, queueVars,
       d1Vars, Quiet, Unseeded, CommitsOf

LEMMA CallTold ==
  ASSUME ToldInv, NEW c \in net, NEW n \in Matches,
         D1Insert(c) \/ D1Drop(c) \/ KvPut(c) \/ KvDelete(c) \/ AgentStop(c)
  PROVE  Quiet(n)
<1>1. meta' = meta /\ op' = op /\ told' = told /\ c.match \in Matches
  BY DEF D1Insert, D1Drop, KvPut, KvDelete, AgentStop, objectVars, ToldInv, TypeInv, TypeOK, Calls
<1>2. row'[n].winner \in {row[n].winner, None}
  <2>1. NewRow.winner = None /\ NoRow.winner = None
    BY DEF NewRow, NoRow
  <2>2. row \in [Matches -> Rows]
    BY DEF ToldInv, TypeInv, TypeOK
  <2>3. CASE D1Insert(c)
    <3>1. row' = [row EXCEPT ![c.match] = IF @.exists THEN @ ELSE NewRow]
      BY <2>3 DEF D1Insert
    <3> QED
      BY <1>1, <2>1, <2>2, <3>1
  <2>4. CASE D1Drop(c)
    <3>1. row' = [row EXCEPT ![c.match] = NoRow]
      BY <2>4 DEF D1Drop
    <3> QED
      BY <1>1, <2>1, <2>2, <3>1
  <2>5. CASE KvPut(c) \/ KvDelete(c) \/ AgentStop(c)
    BY <2>5 DEF KvPut, KvDelete, AgentStop, d1Vars
  <2> QED
    BY <2>3, <2>4, <2>5
<1>3. Unseeded(n)' => Unseeded(n)
  BY <1>1 DEF D1Insert, AnswerInsert, D1Drop, KvPut, KvDelete, AgentStop, queueVars, Unseeded,
          ToldInv, TypeInv, TypeOK
<1>4. CommitsOf(n)' \subseteq CommitsOf(n)
  BY DEF D1Insert, D1Drop, KvPut, KvDelete, AgentStop, CommitsOf
<1> QED
  BY <1>1, <1>2, <1>3, <1>4 DEF Quiet

LEMMA LoseTold ==
  ASSUME ToldInv, NEW c \in net, NEW n \in Matches, Lose(c)
  PROVE  Quiet(n)
<1> DEFINE m == c.match
<1>1. m \in Matches /\ ToldOK(m)
  BY DEF ToldInv, TypeInv, TypeOK, Calls
<1>2. meta' = meta /\ row' = row /\ told' = told /\ net' = net \ {c} /\ Rejected(c)
  BY DEF Lose, d1Vars
<1>3. Unseeded(n)' => Unseeded(n)
  BY <1>1, <1>2, SeedDropped DEF Rejected, Throw, Unseeded, ToldInv, TypeInv, TypeOK
<1>4. CommitsOf(n)' \subseteq CommitsOf(n)
  BY <1>2 DEF CommitsOf
<1>5. op'[n] = op[n] \/ (op'[n] = Idle /\ CommitsOf(n)' = {})
  <2>1. CASE c.do = "commit" /\ Persisting(c)
    <3>1. c \in CommitsOf(m) /\ CommitsOf(m) \subseteq {c}
      BY <1>1, <2>1 DEF ToldOK, CommitsOf
    <3>2. CommitsOf(m)' = {}
      BY <1>2, <3>1 DEF CommitsOf
    <3>3. op' = [op EXCEPT ![m] = Idle]
      BY <1>2, <2>1 DEF Rejected, Throw
    <3> QED
      BY <1>1, <3>2, <3>3 DEF ToldInv, TypeInv, TypeOK
  <2>2. CASE ~(c.do = "commit" /\ Persisting(c))
    BY <1>2, <2>2 DEF Rejected
  <2> QED
    BY <2>1, <2>2
<1> QED
  BY <1>2, <1>3, <1>4, <1>5 DEF Quiet

(* A match another match's step does not touch. *)
LEMMA OthersTold ==
  ASSUME ToldInv, NEW m \in Matches, NEW n \in Matches, n # m,
         meta'[n] = meta[n], row'[n] = row[n], op'[n] = op[n], told'[n] = told[n],
         UNCHANGED seed \/ DropInFlight(m), CommitsOf(n)' \subseteq CommitsOf(n)
  PROVE  ToldOK(n)'
<1>1. Unseeded(n)' => Unseeded(n)
  BY SeedDropped DEF ToldInv
<1> QED
  BY <1>1, QuietTold DEF Quiet, ToldInv

LEMMA EnterTold ==
  ASSUME ToldInv, NEW m \in Matches, NEW p \in Players, NEW kind, kind \in {"claim", "forfeit"},
         Enter(m, kind, p), NEW n \in Matches
  PROVE  ToldOK(n)'
<1> DEFINE o == [kind |-> kind, pc |-> "check", who |-> p, winner |-> None]
<1>1. meta' = meta /\ row' = row /\ net' = net /\ told' = told /\ op[m] = Idle
  BY DEF Enter, d1Vars
<1>2. UNCHANGED seed \/ DropInFlight(m)
  BY DEF Enter, ThrowHttp
<1>3. (op' = [op EXCEPT ![m] = o] /\ meta[m].exists) \/ op' = op
  BY DEF Enter
<1>4. CommitsOf(n)' = CommitsOf(n)
  BY <1>1 DEF CommitsOf
<1>5. CASE n # m \/ op' = op
  <2>1. op'[n] = op[n]
    BY <1>3, <1>5 DEF ToldInv, TypeInv, TypeOK
  <2>2. Unseeded(n)' => Unseeded(n)
    BY <1>2, SeedDropped DEF ToldInv
  <2> QED
    BY <1>1, <1>4, <2>1, <2>2, QuietTold DEF Quiet, ToldInv
<1>6. CASE n = m /\ op' = [op EXCEPT ![m] = o] /\ meta[m].exists
  <2>1. op'[m] = o
    BY <1>6 DEF ToldInv, TypeInv, TypeOK
  <2>2. op'[m].pc = "check" /\ op'[m].winner = None
    BY <2>1
  <2>3. ToldOK(m) /\ op[m].pc = "idle"
    BY <1>1, IdleIs DEF ToldInv
  <2>4. CommitsOf(m)' = {}
    BY <1>4, <1>6, <2>3, NoCommitUnlessPersisting
  <2>5. Unseeded(m)' => Unseeded(m)
    BY <1>2, SeedDropped DEF ToldInv
  <2> QED
    BY <1>1, <1>6, <2>2, <2>3, <2>4, <2>5 DEF ToldOK, Aborting
<1> QED
  BY <1>3, <1>5, <1>6

LEMMA SeedStoreTold ==
  ASSUME ToldInv, NEW m \in Matches, SeedStore(m), NEW n \in Matches
  PROVE  ToldOK(n)'
<1>1. op' = op /\ row' = row /\ net' = net /\ told' = told /\ op[m] = Idle /\ seed[m] = "inserted"
  BY DEF SeedStore, d1Vars
<1>2. \/ meta' = [meta EXCEPT ![m] = NewMeta] /\ seed' = [seed EXCEPT ![m] = "seeded"]
      \/ meta' = meta /\ seed' = [seed EXCEPT ![m] = "failed"]
  BY DEF SeedStore
<1>3. CommitsOf(n)' = CommitsOf(n)
  BY <1>1 DEF CommitsOf
<1>4. NewMeta.exists /\ NewMeta.winner = None
  BY DEF NewMeta, NoMeta
<1>5. CASE n # m \/ meta' = meta
  <2>1. meta'[n] = meta[n]
    BY <1>2, <1>5 DEF ToldInv, TypeInv, TypeOK
  <2>2. Unseeded(n)' => Unseeded(n)
    BY <1>2 DEF Unseeded, ToldInv, TypeInv, TypeOK
  <2> QED
    BY <1>1, <1>3, <2>1, <2>2, QuietTold DEF Quiet, ToldInv
<1>6. CASE n = m /\ meta' = [meta EXCEPT ![m] = NewMeta] /\ seed' = [seed EXCEPT ![m] = "seeded"]
  <2>1. meta'[m].exists /\ meta'[m].winner = None /\ ~Unseeded(m)'
    BY <1>4, <1>6 DEF Unseeded, ToldInv, TypeInv, TypeOK
  <2>2. ToldOK(m) /\ Unseeded(m)
    BY <1>1 DEF Unseeded, ToldInv
  <2>3. ~meta[m].exists /\ meta[m].winner = None
    BY <2>2 DEF ToldOK
  <2>4. told[m] \cap Players = {}
    BY <2>2, <2>3, MatchAssumption DEF ToldOK
  <2>5. op'[m] = Idle /\ op'[m].pc = "idle" /\ ~Aborting(m)' /\ CommitsOf(m)' = {}
    <3>1. op[m].pc # "persist" /\ op'[m] = Idle
      BY <1>1, IdleIs
    <3> QED
      BY <1>3, <1>6, <2>2, <3>1, IdleIs, NoCommitUnlessPersisting DEF Aborting
  <2> QED
    BY <1>1, <1>6, <2>1, <2>4, <2>5 DEF ToldOK
<1> QED
  BY <1>2, <1>5, <1>6

LEMMA AlreadyDecidedTold ==
  ASSUME ToldInv, NEW m \in Matches, AlreadyDecided(m), NEW n \in Matches
  PROVE  ToldOK(n)'
<1> DEFINE w == IF row[m].winner # None THEN row[m].winner ELSE meta[m].winner
<1>1. row' = row /\ net' = net /\ seed' = seed /\ op[m].pc = "check" /\ op' = [op EXCEPT ![m] = Idle]
  BY DEF AlreadyDecided, d1Vars, queueVars
<1>2. meta' = [meta EXCEPT ![m].winner = IF row[m].winner # None THEN row[m].winner ELSE @]
  BY DEF AlreadyDecided
<1>3. told' = [told EXCEPT ![m] = @ \cup KnownVerdict(m)]
  BY DEF AlreadyDecided
<1>4. CommitsOf(n)' = CommitsOf(n)
  BY <1>1 DEF CommitsOf
<1>5. CASE n # m
  BY <1>1, <1>2, <1>3, <1>4, <1>5, OthersTold DEF ToldInv, TypeInv, TypeOK
<1>6. CASE n = m
  <2>1. ToldOK(m) /\ op[m] # Idle
    BY <1>1, IdleIs DEF ToldInv
  <2>2. meta'[m].winner = w /\ meta'[m].exists = meta[m].exists
    BY <1>2 DEF ToldInv, TypeInv, TypeOK, Metas
  <2>3. told'[m] \cap Players \subseteq told[m] \cup {w}
    <3>1. told'[m] = told[m] \cup KnownVerdict(m)
      BY <1>3 DEF ToldInv, TypeInv, TypeOK
    <3>2. KnownVerdict(m) \subseteq {w, "ended"}
      BY DEF KnownVerdict
    <3> QED
      BY <3>1, <3>2, MatchAssumption
  <2>4. \A v \in told[m] \cap Players : w = v
    BY <2>1, MatchAssumption DEF ToldOK
  <2>5. meta'[m].exists /\ ~Unseeded(m)'
    BY <1>1, <2>1, <2>2 DEF ToldOK, Unseeded
  <2>6. op'[m] = Idle /\ op'[m].pc = "idle" /\ ~Aborting(m)' /\ CommitsOf(m)' = {}
    <3>1. op'[m] = Idle /\ op[m].pc # "persist"
      BY <1>1 DEF ToldInv, TypeInv, TypeOK
    <3> QED
      BY <1>4, <1>6, <2>1, <3>1, IdleIs, NoCommitUnlessPersisting DEF Aborting
  <2>7. row'[m].winner # None => meta'[m].winner \in {None, row'[m].winner}
    BY <1>1, <2>2
  <2>8. \A v \in told'[m] \cap Players : meta'[m].winner = v
    BY <2>2, <2>3, <2>4
  <2> QED
    BY <1>6, <2>5, <2>6, <2>7, <2>8 DEF ToldOK
<1> QED
  BY <1>5, <1>6

LEMMA PersistTold ==
  ASSUME ToldInv, NEW m \in Matches, Persist(m), NEW n \in Matches
  PROVE  ToldOK(n)'
<1> DEFINE w == WinnerIfGranted(m)
<1> HIDE DEF w
<1>1. meta' = meta /\ row' = row /\ told' = told /\ seed' = seed /\ op[m].pc = "check"
  BY DEF Persist, d1Vars, queueVars
<1>2. op' = [op EXCEPT ![m] = [@ EXCEPT !.pc = "persist", !.winner = w]]
  BY DEF Persist, w
<1>3. net' = net \cup {Call(m, "match", "commit", w)}
  BY DEF Persist, w
<1>4. row[m].winner = None /\ meta[m].winner = None
  BY DEF Persist, KnownVerdict
<1>5. CASE n # m
  <2>1. CommitsOf(n)' \subseteq CommitsOf(n)
    BY <1>3, <1>5 DEF CommitsOf, Call
  <2> QED
    BY <1>1, <1>2, <1>5, <2>1, OthersTold DEF ToldInv, TypeInv, TypeOK
<1>6. CASE n = m
  <2>1. ToldOK(m) /\ op[m] # Idle
    BY <1>1, IdleIs DEF ToldInv
  <2>2. CommitsOf(m)' \subseteq {Call(m, "match", "commit", w)}
    BY <1>1, <1>3, <2>1, NoCommitUnlessPersisting DEF CommitsOf
  <2>3. op'[m].pc = "persist" /\ op'[m].winner = w
    BY <1>2 DEF ToldInv, TypeInv, TypeOK, Ops
  <2>4. \A c \in CommitsOf(m)' : op'[m].pc = "persist" /\ c = Call(m, "match", "commit", op'[m].winner)
    BY <2>2, <2>3
  <2>5. meta[m].exists /\ ~Unseeded(m)'
    BY <1>1, <2>1 DEF ToldOK, Unseeded
  <2>6. \A v \in told[m] \cap Players : meta[m].winner = v
    BY <2>1 DEF ToldOK
  <2>7. ~Aborting(m)'
    BY <2>3 DEF Aborting
  <2> QED
    BY <1>1, <1>4, <1>6, <2>3, <2>4, <2>5, <2>6, <2>7 DEF ToldOK, Call
<1> QED
  BY <1>5, <1>6

LEMMA RecordTold ==
  ASSUME ToldInv, Punctual, NEW m \in Matches, Record(m), NEW n \in Matches
  PROVE  ToldOK(n)'
<1>1. row' = row /\ told' = told /\ seed' = seed /\ net' = net /\ op[m].pc = "persisted"
  BY DEF Record, d1Vars, queueVars
<1>2. op' = [op EXCEPT ![m].pc = "recorded"]
  BY DEF Record
<1>3. meta' = [meta EXCEPT ![m] = [@ EXCEPT !.winner = op[m].winner, !.ended = TRUE]]
  BY DEF Record, Fails, Punctual
<1>4. CommitsOf(n)' = CommitsOf(n)
  BY <1>1 DEF CommitsOf
<1>5. CASE n # m
  BY <1>1, <1>2, <1>3, <1>4, <1>5, OthersTold DEF ToldInv, TypeInv, TypeOK
<1>6. CASE n = m
  <2>1. ToldOK(m) /\ op[m] # Idle
    BY <1>1, IdleIs DEF ToldInv
  <2>2. op'[m].pc = "recorded" /\ op'[m].winner = op[m].winner
    BY <1>2 DEF ToldInv, TypeInv, TypeOK, Ops
  <2>3. meta'[m].winner = op[m].winner /\ meta'[m].exists = meta[m].exists
    BY <1>3 DEF ToldInv, TypeInv, TypeOK, Metas
  <2>4. meta[m].exists /\ ~Unseeded(m) /\ meta[m].winner = None /\ row[m].winner \in {None, op[m].winner}
    BY <1>1, <2>1 DEF ToldOK
  <2>5. told[m] \cap Players = {}
    BY <2>1, <2>4, MatchAssumption DEF ToldOK
  <2>6. CommitsOf(m)' = {}
    BY <1>1, <1>4, <1>6, <2>1, NoCommitUnlessPersisting
  <2>7. ~Unseeded(m)' /\ ~Aborting(m)'
    BY <1>1, <2>2, <2>4 DEF Unseeded, Aborting
  <2> QED
    BY <1>1, <1>6, <2>2, <2>3, <2>4, <2>5, <2>6, <2>7 DEF ToldOK
<1> QED
  BY <1>5, <1>6

LEMMA AnnounceTold ==
  ASSUME ToldInv, NEW m \in Matches, AnnounceResult(m), NEW n \in Matches
  PROVE  ToldOK(n)'
<1>1. meta' = meta /\ row' = row /\ seed' = seed /\ net' = net /\ op[m].pc = "recorded"
  BY DEF AnnounceResult, d1Vars, queueVars, objectVars
<1>2. op' = [op EXCEPT ![m].pc = "closing"]
  BY DEF AnnounceResult
<1>3. told' = [told EXCEPT ![m] = @ \cup {op[m].winner}]
  BY DEF AnnounceResult
<1>4. CommitsOf(n)' = CommitsOf(n)
  BY <1>1 DEF CommitsOf
<1>5. CASE n # m
  BY <1>1, <1>2, <1>3, <1>4, <1>5, OthersTold DEF ToldInv, TypeInv, TypeOK
<1>6. CASE n = m
  <2>1. ToldOK(m) /\ op[m] # Idle
    BY <1>1, IdleIs DEF ToldInv
  <2>2. op'[m].pc = "closing" /\ op'[m].winner = op[m].winner
    BY <1>2 DEF ToldInv, TypeInv, TypeOK, Ops
  <2>3. told'[m] = told[m] \cup {op[m].winner}
    BY <1>3 DEF ToldInv, TypeInv, TypeOK
  <2>4. meta[m].winner = op[m].winner /\ meta[m].exists /\ ~Unseeded(m)
    BY <1>1, <2>1 DEF ToldOK
  <2>5. \A v \in told'[m] \cap Players : meta[m].winner = v
    BY <2>1, <2>3, <2>4 DEF ToldOK
  <2>6. row[m].winner # None => meta[m].winner \in {None, row[m].winner}
    BY <2>1 DEF ToldOK
  <2>7. CommitsOf(m)' = {}
    BY <1>1, <1>4, <1>6, <2>1, NoCommitUnlessPersisting
  <2>8. ~Unseeded(m)' /\ (op'[m].winner = None => meta[m].winner = None)
    BY <1>1, <2>2, <2>4 DEF Unseeded
  <2> QED
    BY <1>1, <1>6, <2>2, <2>4, <2>5, <2>6, <2>7, <2>8 DEF ToldOK, Aborting
<1> QED
  BY <1>5, <1>6

LEMMA ShowStateTold ==
  ASSUME ToldInv, NEW m \in Matches, ShowState(m), NEW n \in Matches
  PROVE  ToldOK(n)'
<1>1. meta' = meta /\ row' = row /\ op' = op /\ seed' = seed /\ net' = net
  BY DEF ShowState, objectVars, queueVars, d1Vars
<1>2. told' = [told EXCEPT ![m] = @ \cup {meta[m].winner}] /\ meta[m].winner # None
  BY DEF ShowState
<1>3. CommitsOf(n)' = CommitsOf(n)
  BY <1>1 DEF CommitsOf
<1>4. CASE n # m
  BY <1>1, <1>2, <1>3, <1>4, OthersTold DEF ToldInv, TypeInv, TypeOK
<1>5. CASE n = m
  <2>1. ToldOK(m)
    BY DEF ToldInv
  <2>2. told'[m] = told[m] \cup {meta[m].winner}
    BY <1>2 DEF ToldInv, TypeInv, TypeOK
  <2>3. \A v \in told'[m] \cap Players : meta[m].winner = v
    BY <2>1, <2>2 DEF ToldOK
  <2>4. Unseeded(m)' <=> Unseeded(m)
    BY <1>1 DEF Unseeded
  <2> QED
    BY <1>1, <1>3, <1>5, <2>1, <2>3, <2>4 DEF ToldOK, Aborting, Call
<1> QED
  BY <1>4, <1>5

LEMMA ExitTold ==
  ASSUME ToldInv, NEW m \in Matches, Exit(m), NEW n \in Matches
  PROVE  ToldOK(n)'
<1> DEFINE o == [kind |-> "exit", pc |-> "closing", who |-> None, winner |-> None]
<1>1. meta' = meta /\ row' = row /\ net' = net /\ op[m] = Idle
  BY DEF Exit, d1Vars
<1>2. UNCHANGED seed \/ DropInFlight(m)
  BY DEF Exit, ThrowHttp
<1>3. \/ /\ meta[m].exists /\ ~LooksOver(m) /\ op' = [op EXCEPT ![m] = o]
         /\ told' = [told EXCEPT ![m] = @ \cup {"aborted"}]
      \/ op' = op /\ told' = told
  BY DEF Exit
<1>4. CommitsOf(n)' = CommitsOf(n)
  BY <1>1 DEF CommitsOf
<1>5. CASE n # m
  BY <1>1, <1>2, <1>3, <1>4, <1>5, OthersTold DEF ToldInv, TypeInv, TypeOK
<1>6. CASE op' = op /\ told' = told
  <2>1. Unseeded(n)' => Unseeded(n)
    BY <1>2, SeedDropped DEF ToldInv
  <2> QED
    BY <1>1, <1>4, <1>6, <2>1, QuietTold DEF Quiet, ToldInv
<1>7. CASE n = m /\ meta[m].exists /\ ~LooksOver(m) /\ op' = [op EXCEPT ![m] = o]
           /\ told' = [told EXCEPT ![m] = @ \cup {"aborted"}]
  <2>1. ToldOK(m) /\ op[m].pc = "idle" /\ meta[m].winner = None
    BY <1>1, <1>7, IdleIs DEF ToldInv, LooksOver
  <2>2. op'[m].pc = "closing" /\ op'[m].winner = None
    BY <1>7 DEF ToldInv, TypeInv, TypeOK
  <2>3. told'[m] = told[m] \cup {"aborted"}
    BY <1>7 DEF ToldInv, TypeInv, TypeOK
  <2>4. \A v \in told'[m] \cap Players : meta[m].winner = v
    BY <2>1, <2>3, MatchAssumption DEF ToldOK
  <2>5. CommitsOf(m)' = {} /\ ~Unseeded(m)'
    <3>1. Unseeded(m)' => Unseeded(m)
      BY <1>2, SeedDropped DEF ToldInv
    <3> QED
      BY <1>4, <1>7, <2>1, <3>1, NoCommitUnlessPersisting DEF ToldOK
  <2> QED
    BY <1>1, <1>7, <2>1, <2>2, <2>4, <2>5 DEF ToldOK, Aborting
<1> QED
  BY <1>3, <1>5, <1>6, <1>7

LEMMA FatalTold ==
  ASSUME ToldInv, NEW m \in Matches, Fatal(m), NEW n \in Matches
  PROVE  ToldOK(n)'
<1>1. meta' = meta /\ row' = row /\ net' = net /\ op[m] = Idle /\ seed' = seed
  BY DEF Fatal, d1Vars, queueVars
<1>2. CommitsOf(n)' = CommitsOf(n) /\ (Unseeded(n)' <=> Unseeded(n))
  BY <1>1 DEF CommitsOf, Unseeded
<1>3. CASE ~meta[m].exists
  BY <1>1, <1>2, <1>3, QuietTold DEF Fatal, Quiet, ToldInv
<1>4. CASE meta[m].exists
  <2>1. PICK w \in Winners :
          /\ FatalWinner(m, w)
          /\ op' = [op EXCEPT ![m] = [kind |-> "fatal", pc |-> "closing", who |-> None, winner |-> w]]
          /\ told' = IF w = None THEN [told EXCEPT ![m] = @ \cup {"aborted"}] ELSE told
    BY <1>4 DEF Fatal
  <2>2. CASE n # m
    BY <1>1, <1>2, <2>1, <2>2, OthersTold DEF ToldInv, TypeInv, TypeOK
  <2>3. CASE n = m
    <3>1. ToldOK(m) /\ op[m].pc = "idle"
      BY <1>1, IdleIs DEF ToldInv
    <3>2. op'[m].pc = "closing" /\ op'[m].winner = w
      BY <2>1 DEF ToldInv, TypeInv, TypeOK
    <3>3. told'[m] \subseteq told[m] \cup {"aborted"}
      BY <2>1 DEF ToldInv, TypeInv, TypeOK
    <3>4. \A v \in told'[m] \cap Players : meta[m].winner = v
      BY <3>1, <3>3, MatchAssumption DEF ToldOK
    <3>5. CommitsOf(m)' = {}
      BY <1>2, <2>3, <3>1, NoCommitUnlessPersisting
    <3>6. w = None => meta[m].winner = None
      BY <2>1 DEF FatalWinner
    <3> QED
      BY <1>1, <1>2, <1>4, <2>3, <3>1, <3>2, <3>4, <3>5, <3>6 DEF ToldOK, Aborting
  <2> QED
    BY <2>2, <2>3
<1> QED
  BY <1>3, <1>4

LEMMA CleanupStartTold ==
  ASSUME ToldInv, NEW m \in Matches, CleanupStart(m), NEW n \in Matches
  PROVE  ToldOK(n)'
<1>1. meta' = meta /\ row' = row /\ told' = told /\ op[m].pc = "closing" /\ seed' = seed
  BY DEF CleanupStart, d1Vars, queueVars
<1>2. op' = [op EXCEPT ![m].pc = "cleanup"]
  BY DEF CleanupStart
<1>3. net' = net \cup CleanupCalls(m)
  BY DEF CleanupStart
<1>4. \A c \in CleanupCalls(m) : c.do # "commit"
  BY DEF CleanupCalls, Call
<1>5. CommitsOf(n)' = CommitsOf(n) /\ (Unseeded(n)' <=> Unseeded(n))
  BY <1>1, <1>3, <1>4 DEF CommitsOf, Unseeded
<1>6. CASE n # m
  BY <1>1, <1>2, <1>5, <1>6, OthersTold DEF ToldInv, TypeInv, TypeOK
<1>7. CASE n = m
  <2>1. ToldOK(m) /\ op[m] # Idle
    BY <1>1, IdleIs DEF ToldInv
  <2>2. op'[m].pc = "cleanup" /\ op'[m].winner = op[m].winner
    BY <1>2 DEF ToldInv, TypeInv, TypeOK, Ops
  <2>3. CommitsOf(m)' = {}
    BY <1>1, <1>5, <1>7, <2>1, NoCommitUnlessPersisting
  <2>4. Aborting(m)' => meta[m].winner = None
    BY <1>1, <2>1, <2>2 DEF ToldOK, Aborting
  <2> QED
    BY <1>1, <1>5, <1>7, <2>1, <2>2, <2>3, <2>4 DEF ToldOK
<1> QED
  BY <1>6, <1>7

LEMMA CleanupFinishTold ==
  ASSUME ToldInv, Punctual, NEW m \in Matches, CleanupFinish(m), NEW n \in Matches
  PROVE  ToldOK(n)'
<1>1. row' = row /\ told' = told /\ op[m].pc = "cleanup" /\ seed' = seed /\ net' = net
  BY DEF CleanupFinish, d1Vars, queueVars
<1>2. op' = [op EXCEPT ![m] = Idle]
  BY DEF CleanupFinish
<1>3. meta' = [meta EXCEPT ![m] = IF op[m].winner = None THEN NoMeta ELSE @]
  BY DEF CleanupFinish, ClearStorage, Fails, Punctual
<1>4. CommitsOf(n)' = CommitsOf(n) /\ (Unseeded(n)' <=> Unseeded(n))
  BY <1>1 DEF CommitsOf, Unseeded
<1>5. CASE n # m
  BY <1>1, <1>2, <1>3, <1>4, <1>5, OthersTold DEF ToldInv, TypeInv, TypeOK
<1>6. CASE n = m
  <2>1. ToldOK(m) /\ op[m] # Idle
    BY <1>1, IdleIs DEF ToldInv
  <2>2. op'[m] = Idle /\ op'[m].pc = "idle" /\ ~Aborting(m)' /\ CommitsOf(m)' = {}
    <3>1. op'[m] = Idle /\ op[m].pc # "persist"
      BY <1>1, <1>2 DEF ToldInv, TypeInv, TypeOK
    <3> QED
      BY <1>4, <1>6, <2>1, <3>1, IdleIs, NoCommitUnlessPersisting DEF Aborting
  <2>3. meta'[m].winner = meta[m].winner
    <3>1. op[m].winner = None => meta[m].winner = None
      BY <1>1, <2>1 DEF ToldOK, Aborting
    <3>2. NoMeta.winner = None
      BY DEF NoMeta
    <3> QED
      BY <1>3, <3>1, <3>2 DEF ToldInv, TypeInv, TypeOK
  <2>4. meta'[m].winner # None => meta'[m].exists
    <3>1. NoMeta.winner = None
      BY DEF NoMeta
    <3>2. meta'[m] = meta[m] \/ meta'[m] = NoMeta
      BY <1>3 DEF ToldInv, TypeInv, TypeOK
    <3> QED
      BY <2>1, <3>1, <3>2 DEF ToldOK
  <2>5. Unseeded(m)' => ~meta'[m].exists
    <3>1. ~NoMeta.exists
      BY DEF NoMeta
    <3>2. meta'[m] = meta[m] \/ meta'[m] = NoMeta
      BY <1>3 DEF ToldInv, TypeInv, TypeOK
    <3> QED
      BY <1>4, <1>6, <2>1, <3>1, <3>2 DEF ToldOK
  <2>6. /\ \A v \in told[m] \cap Players : meta[m].winner = v
        /\ row[m].winner # None => meta[m].winner \in {None, row[m].winner}
    BY <2>1 DEF ToldOK
  <2> QED
    BY <1>1, <1>6, <2>2, <2>3, <2>4, <2>5, <2>6 DEF ToldOK
<1> QED
  BY <1>5, <1>6

LEMMA D1CommitTold ==
  ASSUME ToldInv, NEW c \in net, D1Commit(c), NEW n \in Matches
  PROVE  ToldOK(n)'
<1> DEFINE m == c.match
<1>1. m \in Matches /\ ToldOK(m) /\ c \in CommitsOf(m)
  BY DEF ToldInv, TypeInv, TypeOK, Calls, D1Commit, CommitsOf
<1>2. op[m].pc = "persist" /\ c = Call(m, "match", "commit", op[m].winner) /\ CommitsOf(m) = {c}
  BY <1>1 DEF ToldOK
<1>3. c.who = op[m].winner
  BY <1>2 DEF Call
<1>4. meta' = meta /\ told' = told /\ net' = net \ {c}
  BY DEF D1Commit
<1>5. row' = [row EXCEPT ![m].winner = IF SetsWinner(m) THEN c.who ELSE @,
                         ![m].rated = @ \cup Unrated(m)]
  BY DEF D1Commit, ApplyBatch
<1>6. UNCHANGED seed \/ DropInFlight(m)
  BY DEF D1Commit, Throw
<1>7. op' = [op EXCEPT ![m].pc = "persisted"] \/ op' = [op EXCEPT ![m] = Idle]
  BY <1>2, <1>3 DEF D1Commit, Throw, Persisting
<1>8. CASE n # m
  <2>1. row'[n] = row[n] /\ op'[n] = op[n]
    BY <1>1, <1>5, <1>7, <1>8 DEF ToldInv, TypeInv, TypeOK
  <2>2. CommitsOf(n)' \subseteq CommitsOf(n)
    BY <1>4 DEF CommitsOf
  <2> QED
    BY <1>1, <1>4, <1>6, <1>8, <2>1, <2>2, OthersTold DEF ToldInv, TypeInv, TypeOK
<1>9. CASE n = m
  <2>1. CommitsOf(m)' = {}
    BY <1>2, <1>4 DEF CommitsOf
  <2>2. row[m].winner = None /\ meta[m].winner = None /\ meta[m].exists /\ ~Unseeded(m)
    BY <1>1, <1>2, IdleIs DEF ToldOK
  <2>3. row'[m].winner \in {None, op[m].winner}
    BY <1>1, <1>3, <1>5, <2>2 DEF ToldInv, TypeInv, TypeOK, Rows
  <2>4. ~Unseeded(m)'
    BY <1>1, <1>6, <2>2, SeedDropped DEF ToldInv
  <2>5. op'[m] = Idle \/ (op'[m].pc = "persisted" /\ op'[m].winner = op[m].winner)
    <3>1. op \in [Matches -> Ops]
      BY DEF ToldInv, TypeInv, TypeOK
    <3>2. CASE op' = [op EXCEPT ![m].pc = "persisted"]
      BY <1>1, <3>1, <3>2 DEF Ops
    <3>3. CASE op' = [op EXCEPT ![m] = Idle]
      BY <1>1, <3>1, <3>3
    <3> QED
      BY <1>7, <3>2, <3>3
  <2>6. \A v \in told[m] \cap Players : meta[m].winner = v
    BY <1>1 DEF ToldOK
  <2> QED
    BY <1>1, <1>4, <1>9, <2>1, <2>2, <2>3, <2>4, <2>5, <2>6, IdleIs DEF ToldOK, Aborting
<1> QED
  BY <1>8, <1>9

-----------------------------------------------------------------------------
LEMMA InitTold == Init => ToldInv
<1> SUFFICES ASSUME Init
             PROVE  ToldInv
  OBVIOUS
<1>1. TypeInv
  BY InitTypeInv
<1>2. NoMeta.winner = None /\ NoMeta.exists = FALSE /\ NoRow.winner = None
  BY DEF NoMeta, NoRow
<1>3. ASSUME NEW m \in Matches
      PROVE  ToldOK(m)
  <2>1. /\ meta[m] = NoMeta /\ op[m] = Idle /\ row[m] = NoRow /\ told[m] = {} /\ net = {}
        /\ seed[m] = "none"
    BY DEF Init
  <2> QED
    BY <1>2, <2>1, IdleIs DEF ToldOK, CommitsOf, Unseeded, Aborting
<1> QED
  BY <1>1, <1>3 DEF ToldInv

LEMMA ObjectTold ==
  ASSUME ToldInv, Punctual, NEW m \in Matches, Request(m) \/ ObjectStep(m), NEW n \in Matches
  PROVE  ToldOK(n)'
<1>1. ToldOK(n)
  BY DEF ToldInv
<1>2. CASE Allocate(m) \/ AllocateFails(m) \/ SeedInsert(m) \/ Formed(m) \/ FormFailed(m)
  BY <1>1, <1>2, SeedTold, QuietTold
<1>3. CASE ReadyStart(m) \/ ReadyRouted(m) \/ ReadyNotified(m) \/ ReadyFails(m)
  BY <1>1, <1>3, ReadyTold, QuietTold
<1>4. CASE CheckFails(m) \/ NotAPlayer(m)
  BY <1>1, <1>4, RefusedTold, QuietTold
<1>5. ASSUME NEW p \in Players, Claim(m, p) \/ Forfeit(m, p)
      PROVE  ToldOK(n)'
  BY <1>5, EnterTold DEF Claim, Forfeit
<1>6. CASE SeedStore(m)
  BY <1>6, SeedStoreTold
<1>7. CASE AlreadyDecided(m)
  BY <1>7, AlreadyDecidedTold
<1>8. CASE Persist(m)
  BY <1>8, PersistTold
<1>9. CASE Record(m)
  BY <1>9, RecordTold
<1>10. CASE AnnounceResult(m)
  BY <1>10, AnnounceTold
<1>11. CASE ShowState(m)
  BY <1>11, ShowStateTold
<1>12. CASE Exit(m)
  BY <1>12, ExitTold
<1>13. CASE Fatal(m)
  BY <1>13, FatalTold
<1>14. CASE CleanupStart(m)
  BY <1>14, CleanupStartTold
<1>15. CASE CleanupFinish(m)
  BY <1>15, CleanupFinishTold
<1> QED
  BY <1>2, <1>3, <1>4, <1>5, <1>6, <1>7, <1>8, <1>9, <1>10, <1>11, <1>12, <1>13, <1>14, <1>15
     DEF Request, ObjectStep

LEMMA NextTold == Punctual /\ ToldInv /\ [Next]_vars => ToldInv'
<1> SUFFICES ASSUME Punctual, ToldInv, [Next]_vars, NEW n \in Matches
             PROVE  ToldOK(n)'
  BY NextTypes DEF ToldInv
<1>1. ToldOK(n)
  BY DEF ToldInv
<1>2. ASSUME NEW m \in Matches, Request(m) \/ ObjectStep(m)
      PROVE  ToldOK(n)'
  BY <1>2, ObjectTold
<1>3. ASSUME NEW m \in Matches, ContainerStep(m)
      PROVE  ToldOK(n)'
  BY <1>1, <1>3, ContainerTold, QuietTold
<1>4. ASSUME NEW c \in net, CallStep(c)
      PROVE  ToldOK(n)'
  BY <1>1, <1>4, CallTold, LoseTold, D1CommitTold, QuietTold DEF CallStep
<1>5. ASSUME NEW m \in Matches, Reset(m)
      PROVE  FALSE
  BY <1>5 DEF Reset, Fails, Punctual
<1>6. ASSUME NEW c \in net, GiveUp(c)
      PROVE  FALSE
  BY <1>6 DEF GiveUp, Fails, Punctual
<1>7. CASE UNCHANGED vars
  BY <1>1, <1>7, QuietTold DEF vars, objectVars, queueVars, d1Vars, agentVars, Quiet, CommitsOf, Unseeded
<1> QED
  BY <1>2, <1>3, <1>4, <1>5, <1>6, <1>7 DEF Next

LEMMA OneTold == ToldInv => OneWinnerTold
BY DEF ToldInv, ToldOK, OneWinnerTold

(* "subsequent calls see the existing winner and respond truthfully": no    *)
(* two people are ever told of different winners of a match - by the answer  *)
(* to a claim or a forfeit, by match_result or by the state a socket is sent *)
(* - as long as the objects' own storage works, no object is reset and every *)
(* object waits for the calls it has begun, however D1, KV, the Agent, the   *)
(* hub and the queue fail.                                                   *)
THEOREM OneTruthIsTold == Punctual => (Spec => []OneWinnerTold)
<1> SUFFICES ASSUME Punctual
             PROVE  Spec => []OneWinnerTold
  OBVIOUS
<1>1. ToldInv /\ [Next]_vars => ToldInv'
  BY NextTold
<1> QED
  BY InitTold, <1>1, OneTold, PTL DEF Spec

-----------------------------------------------------------------------------
(* Only KV, the Agent and the hub fail: D1 answers truthfully and the     *)
(* queue's own steps succeed.                                              *)
Reliable == Faults \subseteq {"kv", "agent", "hub"}

DropsOf(m) == {c \in net : c.match = m /\ c.do = "drop"}

Dropping(m) == op[m].pc = "cleanup" /\ Aborting(m)

(* D1's row, meta and what has been told say the same of a match that has a  *)
(* meta, but for the moment between the batch and meta's copy of it; one     *)
(* without a meta has been decided by nobody.                                *)
KeptOK(m) ==
  /\ meta[m].exists => seed[m] \in {"seeded", "formed"}
  /\ op[m].pc = "check" /\ op[m].who \notin PlayersOf[m] => seed[m] = "formed"
  /\ meta[m].ended => meta[m].winner # None
  /\ meta[m].exists => row[m].exists \/ Dropping(m)
  /\ meta[m].exists =>
       row[m].winner = (IF op[m].pc = "persisted" THEN op[m].winner ELSE meta[m].winner)
  /\ seed[m] = "inserted" => row[m].exists /\ row[m].winner = None
  /\ decided[m] = (IF meta[m].exists /\ row[m].winner # None THEN {row[m].winner} ELSE {})
  /\ op[m].pc \in {"closing", "cleanup"} => op[m].winner = meta[m].winner
  /\ DropsOf(m) # {} => ~Unseeded(m) /\ (~meta[m].exists \/ Dropping(m))
  /\ "aborted" \in told[m] => ~Unseeded(m) /\ (~meta[m].exists \/ Aborting(m))
  /\ "ended" \notin told[m]

KeptInv == ToldInv /\ RecordInv /\ \A m \in Matches : KeptOK(m)

-----------------------------------------------------------------------------
SeedGoesOn(m) ==
  \/ seed'[m] = seed[m]
  \/ seed[m] = "seeded" /\ seed'[m] = "formed"
  \/ ~meta[m].exists /\ seed'[m] # "inserted" /\ (Unseeded(m)' => Unseeded(m))

Plain(o) == o.pc \notin {"persisted", "closing", "cleanup"}

CallbackGoesOn(m) ==
  \/ op'[m] = op[m]
  \/ /\ Plain(op[m])
     /\ Plain(op'[m])
     /\ op'[m].pc = "check" /\ op'[m].who \notin PlayersOf[m] => seed'[m] = "formed"

(* A step that changes nothing a verdict depends on. *)
Keeps(m) ==
  /\ meta'[m].exists = meta[m].exists
  /\ meta'[m].winner = meta[m].winner
  /\ meta'[m].ended = meta[m].ended
  /\ row'[m] = row[m] /\ decided'[m] = decided[m]
  /\ told'[m] \cap {"aborted", "ended"} \subseteq told[m]
  /\ DropsOf(m)' \subseteq DropsOf(m)
  /\ SeedGoesOn(m)
  /\ CallbackGoesOn(m)

LEMMA KeepsKept ==
  ASSUME NEW m \in Matches, ToldOK(m), KeptOK(m), Keeps(m)
  PROVE  KeptOK(m)'
<1>1. /\ meta'[m].exists = meta[m].exists /\ meta'[m].winner = meta[m].winner
      /\ meta'[m].ended = meta[m].ended /\ row'[m] = row[m] /\ decided'[m] = decided[m]
      /\ told'[m] \cap {"aborted", "ended"} \subseteq told[m] /\ DropsOf(m)' \subseteq DropsOf(m)
  BY DEF Keeps
<1>2. op[m] # Idle => meta[m].exists
  BY DEF ToldOK
<1>3. SeedGoesOn(m) /\ CallbackGoesOn(m)
  BY DEF Keeps
<1>4. Unseeded(m)' => Unseeded(m)
  BY <1>3 DEF SeedGoesOn, Unseeded
<1>5. Aborting(m)' <=> Aborting(m)
  BY <1>3 DEF CallbackGoesOn, Plain, Aborting
<1>6. Dropping(m)' <=> Dropping(m)
  BY <1>3, <1>5 DEF CallbackGoesOn, Plain, Dropping
<1>7. meta'[m].exists => seed'[m] \in {"seeded", "formed"}
  BY <1>1, <1>3 DEF SeedGoesOn, KeptOK
<1>8. op'[m].pc = "check" /\ op'[m].who \notin PlayersOf[m] => seed'[m] = "formed"
  <2>1. CASE op'[m] = op[m]
    BY <1>2, <1>3, <2>1, IdleIs DEF SeedGoesOn, KeptOK
  <2> QED
    BY <1>3, <2>1 DEF CallbackGoesOn
<1>9. meta'[m].exists =>
        row'[m].winner = (IF op'[m].pc = "persisted" THEN op'[m].winner ELSE meta'[m].winner)
  BY <1>1, <1>3 DEF CallbackGoesOn, Plain, KeptOK
<1>10. seed'[m] = "inserted" => row'[m].exists /\ row'[m].winner = None
  BY <1>1, <1>3 DEF SeedGoesOn, KeptOK
<1>11. op'[m].pc \in {"closing", "cleanup"} => op'[m].winner = meta'[m].winner
  BY <1>1, <1>3 DEF CallbackGoesOn, Plain, KeptOK
<1>12. /\ meta'[m].ended => meta'[m].winner # None
       /\ meta'[m].exists => row'[m].exists \/ Dropping(m)'
       /\ decided'[m] = (IF meta'[m].exists /\ row'[m].winner # None THEN {row'[m].winner} ELSE {})
       /\ DropsOf(m)' # {} => ~Unseeded(m)' /\ (~meta'[m].exists \/ Dropping(m)')
       /\ "aborted" \in told'[m] => ~Unseeded(m)' /\ (~meta'[m].exists \/ Aborting(m)')
       /\ "ended" \notin told'[m]
  BY <1>1, <1>4, <1>5, <1>6 DEF KeptOK
<1> QED
  BY <1>7, <1>8, <1>9, <1>10, <1>11, <1>12 DEF KeptOK

LEMMA OthersKept ==
  ASSUME KeptInv, NEW m \in Matches, NEW n \in Matches, n # m,
         meta'[n] = meta[n], row'[n] = row[n], decided'[n] = decided[n], op'[n] = op[n],
         told'[n] = told[n], UNCHANGED seed \/ DropInFlight(m), DropsOf(n)' \subseteq DropsOf(n)
  PROVE  KeptOK(n)'
<1>1. seed'[n] = seed[n]
  BY DEF DropInFlight, KeptInv, ToldInv, TypeInv, TypeOK
<1> QED
  BY <1>1, KeepsKept DEF Keeps, SeedGoesOn, CallbackGoesOn, KeptInv, ToldInv

LEMMA HttpSeed ==
  ASSUME KeptInv, NEW m \in Matches, ThrowHttp(m), ~meta[m].exists \/ seed[m] = "formed",
         NEW n \in Matches
  PROVE  SeedGoesOn(n) /\ (seed[n] = "formed" => seed'[n] = "formed")
<1>1. UNCHANGED seed \/ DropInFlight(m)
  BY DEF ThrowHttp
<1> QED
  BY <1>1 DEF DropInFlight, SeedGoesOn, Unseeded, KeptInv, ToldInv, TypeInv, TypeOK

LEMMA SeedKept ==
  ASSUME KeptInv, Reliable, NEW m \in Matches, NEW n \in Matches,
         Allocate(m) \/ AllocateFails(m) \/ SeedInsert(m) \/ Formed(m)
  PROVE  KeptOK(n)'
<1>1. meta' = meta /\ op' = op /\ row' = row /\ told' = told /\ decided' = decided
  BY DEF Allocate, AllocateFails, SeedInsert, Formed, objectVars, d1Vars
<1>2. DropsOf(n)' \subseteq DropsOf(n)
  BY DEF Allocate, AllocateFails, SeedInsert, Formed, DropsOf, Call
<1>3. SeedGoesOn(n)
  <2>1. Unseeded(m) => ~meta[m].exists
    BY DEF KeptInv, ToldInv, ToldOK
  <2>2. seed \in [Matches -> SeedPoints]
    BY DEF KeptInv, ToldInv, TypeInv, TypeOK
  <2>3. CASE Allocate(m) \/ AllocateFails(m) \/ SeedInsert(m)
    <3>1. \E s \in {"allocated", "unallocated", "inserting"} : seed' = [seed EXCEPT ![m] = s]
      BY <2>3 DEF Allocate, AllocateFails, SeedInsert
    <3>2. seed[m] \in {"none", "allocated"}
      BY <2>3 DEF Allocate, AllocateFails, SeedInsert, FreeToForm
    <3> QED
      BY <2>1, <2>2, <3>1, <3>2 DEF SeedGoesOn, Unseeded
  <2>4. CASE Formed(m)
    <3>1. seed' = [seed EXCEPT ![m] = "formed"] /\ seed[m] = "seeded"
      BY <2>4 DEF Formed, Fails, Reliable
    <3> QED
      BY <2>2, <3>1 DEF SeedGoesOn
  <2> QED
    BY <2>3, <2>4
<1> QED
  BY <1>1, <1>2, <1>3, KeepsKept DEF Keeps, CallbackGoesOn, KeptInv, ToldInv

LEMMA ReadyKept ==
  ASSUME KeptInv, NEW m \in Matches, NEW n \in Matches,
         ReadyStart(m) \/ ReadyRouted(m) \/ ReadyNotified(m) \/ ReadyFails(m)
  PROVE  KeptOK(n)'
<1>1. op' = op /\ row' = row /\ told' = told /\ seed' = seed /\ decided' = decided
  BY DEF ReadyStart, ReadyRouted, ReadyNotified, ReadyFails, queueVars, d1Vars
<1>2. /\ meta'[n].exists = meta[n].exists /\ meta'[n].winner = meta[n].winner
      /\ meta'[n].ended = meta[n].ended
  <2>1. meta' = meta \/ meta' = [meta EXCEPT ![m].ready = TRUE]
    BY DEF ReadyStart, ReadyRouted, ReadyNotified, ReadyFails
  <2>2. meta \in [Matches -> Metas]
    BY DEF KeptInv, ToldInv, TypeInv, TypeOK
  <2>3. CASE meta' = [meta EXCEPT ![m].ready = TRUE]
    BY <2>2, <2>3 DEF Metas
  <2> QED
    BY <2>1, <2>3
<1>3. DropsOf(n)' \subseteq DropsOf(n)
  BY DEF ReadyStart, ReadyRouted, ReadyNotified, ReadyFails, DropsOf, Call
<1> QED
  BY <1>1, <1>2, <1>3, KeepsKept DEF Keeps, SeedGoesOn, CallbackGoesOn, KeptInv, ToldInv

LEMMA ContainerKept ==
  ASSUME KeptInv, NEW m \in Matches, NEW n \in Matches, ContainerStep(m)
  PROVE  KeptOK(n)'
<1>1. Keeps(n)
  BY DEF ContainerStep, ContainerExits, ContainerTimesOut, ContainerExpires, objectVars, queueVars,
         d1Vars, Keeps, SeedGoesOn, CallbackGoesOn, DropsOf
<1> QED
  BY <1>1, KeepsKept DEF KeptInv, ToldInv

LEMMA ServiceKept ==
  ASSUME KeptInv, Reliable, NEW c \in net, NEW n \in Matches,
         KvPut(c) \/ KvDelete(c) \/ AgentStop(c) \/ Lose(c)
  PROVE  KeptOK(n)'
<1>1. c.do \notin {"insert", "commit", "drop"}
  BY DEF KvPut, KvDelete, AgentStop, Lose, ServiceOf, Fails, Reliable
<1>2. meta' = meta /\ op' = op /\ row' = row /\ told' = told /\ seed' = seed /\ decided' = decided
  BY <1>1 DEF KvPut, KvDelete, AgentStop, Lose, Rejected, objectVars, queueVars, d1Vars
<1>3. DropsOf(n)' \subseteq DropsOf(n)
  BY DEF KvPut, KvDelete, AgentStop, Lose, DropsOf
<1> QED
  BY <1>2, <1>3, KeepsKept DEF Keeps, SeedGoesOn, CallbackGoesOn, KeptInv, ToldInv

(* Between claims and forfeits D1 and meta agree. *)
LEMMA CheckAgrees ==
  ASSUME KeptInv, NEW m \in Matches, op[m].pc = "check" \/ op[m] = Idle, meta[m].exists
  PROVE  row[m].winner = meta[m].winner
BY IdleIs DEF KeptInv, KeptOK

LEMMA EnterKept ==
  ASSUME KeptInv, NEW m \in Matches, NEW p \in Players, NEW kind, NEW n \in Matches,
         Enter(m, kind, p), p \in PlayersOf[m] \/ seed[m] = "formed"
  PROVE  KeptOK(n)'
<1> DEFINE o == [kind |-> kind, pc |-> "check", who |-> p, winner |-> None]
<1>1. /\ meta' = meta /\ row' = row /\ told' = told /\ decided' = decided /\ net' = net
      /\ op[m] = Idle
  BY DEF Enter, d1Vars
<1>2. SeedGoesOn(n) /\ (seed[n] = "formed" => seed'[n] = "formed")
  <2>1. CASE ~meta[m].exists
    BY <2>1, HttpSeed DEF Enter
  <2>2. CASE meta[m].exists
    BY <2>2 DEF Enter, SeedGoesOn
  <2> QED
    BY <2>1, <2>2
<1>3. op' = [op EXCEPT ![m] = o] \/ op' = op
  BY DEF Enter
<1>4. CallbackGoesOn(n)
  <2>1. CASE op' = op \/ n # m
    BY <1>3, <2>1 DEF CallbackGoesOn, KeptInv, ToldInv, TypeInv, TypeOK
  <2>2. CASE op' = [op EXCEPT ![m] = o] /\ n = m
    <3>1. op'[m] = o
      BY <2>2 DEF KeptInv, ToldInv, TypeInv, TypeOK
    <3>2. op'[m].pc = "check" /\ op'[m].who = p
      BY <3>1
    <3> QED
      BY <1>1, <1>2, <2>2, <3>2, IdleIs DEF CallbackGoesOn, Plain
  <2> QED
    BY <1>3, <2>1, <2>2
<1> QED
  BY <1>1, <1>2, <1>4, KeepsKept DEF Keeps, DropsOf, KeptInv, ToldInv

LEMMA NotAPlayerKept ==
  ASSUME KeptInv, NEW m \in Matches, NotAPlayer(m), NEW n \in Matches
  PROVE  KeptOK(n)'
<1>1. /\ meta' = meta /\ row' = row /\ told' = told /\ decided' = decided /\ net' = net
      /\ op[m].pc = "check" /\ op' = [op EXCEPT ![m] = Idle]
  BY DEF NotAPlayer, d1Vars
<1>2. seed[m] = "formed"
  BY DEF NotAPlayer, KeptInv, KeptOK
<1>3. SeedGoesOn(n)
  BY <1>2, HttpSeed DEF NotAPlayer
<1>4. CallbackGoesOn(n)
  <2>1. op'[n] = IF n = m THEN Idle ELSE op[n]
    BY <1>1 DEF KeptInv, ToldInv, TypeInv, TypeOK
  <2> QED
    BY <1>1, <2>1, IdleIs DEF CallbackGoesOn, Plain
<1> QED
  BY <1>1, <1>3, <1>4, KeepsKept DEF Keeps, DropsOf, KeptInv, ToldInv

(* The verdict a claim or a forfeit is answered with is D1's. *)
LEMMA AnswerIsTheRow ==
  ASSUME KeptInv, NEW m \in Matches, op[m].pc = "check"
  PROVE  /\ meta[m].exists /\ row[m].winner = meta[m].winner
         /\ KnownVerdict(m) = IF row[m].winner # None THEN {row[m].winner} ELSE {}
<1>1. meta[m].exists
  BY IdleIs DEF KeptInv, ToldInv, ToldOK
<1>2. row[m].winner = meta[m].winner
  BY <1>1, CheckAgrees
<1>3. meta[m].ended => meta[m].winner # None
  BY DEF KeptInv, KeptOK
<1> QED
  BY <1>1, <1>2, <1>3 DEF KnownVerdict

LEMMA AlreadyDecidedKept ==
  ASSUME KeptInv, NEW m \in Matches, AlreadyDecided(m), NEW n \in Matches
  PROVE  KeptOK(n)'
<1>1. row' = row /\ decided' = decided /\ net' = net /\ seed' = seed /\ op[m].pc = "check"
  BY DEF AlreadyDecided, d1Vars, queueVars
<1>2. row[m].winner = meta[m].winner /\ KnownVerdict(m) \subseteq {row[m].winner} /\ row[m].winner # None
  BY <1>1, AnswerIsTheRow DEF AlreadyDecided
<1>3. /\ meta'[n].exists = meta[n].exists /\ meta'[n].winner = meta[n].winner
      /\ meta'[n].ended = meta[n].ended
  <2>1. PICK w : w = row[m].winner /\ meta' = [meta EXCEPT ![m].winner = w]
    BY <1>2 DEF AlreadyDecided
  <2> QED
    BY <1>2, <2>1 DEF KeptInv, ToldInv, TypeInv, TypeOK, Metas
<1>4. told'[n] \cap {"aborted", "ended"} \subseteq told[n]
  <2>1. told' = [told EXCEPT ![m] = @ \cup KnownVerdict(m)]
    BY DEF AlreadyDecided
  <2>2. row[m].winner \in Players
    BY <1>2 DEF KeptInv, ToldInv, TypeInv, TypeOK, Rows, Winners
  <2> QED
    BY <1>2, <2>1, <2>2, MatchAssumption DEF KeptInv, ToldInv, TypeInv, TypeOK
<1>5. CallbackGoesOn(n)
  <2>1. op'[n] = IF n = m THEN Idle ELSE op[n]
    BY <1>1 DEF AlreadyDecided, KeptInv, ToldInv, TypeInv, TypeOK
  <2> QED
    BY <1>1, <2>1, IdleIs DEF CallbackGoesOn, Plain
<1> QED
  BY <1>1, <1>3, <1>4, <1>5, KeepsKept DEF Keeps, DropsOf, SeedGoesOn, KeptInv, ToldInv

LEMMA PersistKept ==
  ASSUME KeptInv, NEW m \in Matches, Persist(m), NEW n \in Matches
  PROVE  KeptOK(n)'
<1>1. /\ meta' = meta /\ row' = row /\ told' = told /\ seed' = seed /\ decided' = decided
      /\ op[m].pc = "check"
  BY DEF Persist, d1Vars, queueVars
<1>2. CallbackGoesOn(n)
  <2>1. PICK w : op' = [op EXCEPT ![m] = [@ EXCEPT !.pc = "persist", !.winner = w]]
    BY DEF Persist
  <2>2. n # m => op'[n] = op[n]
    BY <2>1 DEF KeptInv, ToldInv, TypeInv, TypeOK
  <2>3. op'[m].pc = "persist"
    BY <2>1 DEF KeptInv, ToldInv, TypeInv, TypeOK, Ops
  <2> QED
    BY <1>1, <2>2, <2>3 DEF CallbackGoesOn, Plain
<1>3. DropsOf(n)' \subseteq DropsOf(n)
  BY DEF Persist, DropsOf, Call
<1> QED
  BY <1>1, <1>2, <1>3, KeepsKept DEF Keeps, SeedGoesOn, KeptInv, ToldInv

LEMMA ShowStateKept ==
  ASSUME KeptInv, NEW m \in Matches, ShowState(m), NEW n \in Matches
  PROVE  KeptOK(n)'
<1>1. meta' = meta /\ row' = row /\ op' = op /\ seed' = seed /\ net' = net /\ decided' = decided
  BY DEF ShowState, objectVars, queueVars, d1Vars
<1>2. told'[n] \cap {"aborted", "ended"} \subseteq told[n]
  <2>1. told' = [told EXCEPT ![m] = @ \cup {meta[m].winner}]
    BY DEF ShowState
  <2>2. meta[m].winner \in Players
    BY DEF ShowState, KeptInv, ToldInv, TypeInv, TypeOK, Metas, Winners
  <2> QED
    BY <2>1, <2>2, MatchAssumption DEF KeptInv, ToldInv, TypeInv, TypeOK
<1> QED
  BY <1>1, <1>2, KeepsKept DEF Keeps, SeedGoesOn, CallbackGoesOn, DropsOf, KeptInv, ToldInv

LEMMA SeedStoreKept ==
  ASSUME KeptInv, Reliable, NEW m \in Matches, SeedStore(m), NEW n \in Matches
  PROVE  KeptOK(n)'
<1>1. /\ op' = op /\ row' = row /\ net' = net /\ told' = told /\ decided' = decided
      /\ op[m] = Idle /\ seed[m] = "inserted"
  BY DEF SeedStore, d1Vars
<1>2. meta' = [meta EXCEPT ![m] = NewMeta] /\ seed' = [seed EXCEPT ![m] = "seeded"]
  BY DEF SeedStore, Fails, Reliable
<1>3. CASE n # m
  <2>1. meta'[n] = meta[n] /\ seed'[n] = seed[n]
    BY <1>2, <1>3 DEF KeptInv, ToldInv, TypeInv, TypeOK
  <2> QED
    BY <1>1, <2>1, KeepsKept DEF Keeps, SeedGoesOn, CallbackGoesOn, DropsOf, KeptInv, ToldInv
<1>4. CASE n = m
  <2>1. meta'[m] = NewMeta /\ seed'[m] = "seeded"
    BY <1>2 DEF KeptInv, ToldInv, TypeInv, TypeOK
  <2>2. NewMeta.exists /\ NewMeta.winner = None /\ ~NewMeta.ended
    BY DEF NewMeta, NoMeta
  <2>3. KeptOK(m) /\ Unseeded(m) /\ ~meta[m].exists
    BY <1>1 DEF KeptInv, ToldInv, ToldOK, Unseeded
  <2>4. row[m].exists /\ row[m].winner = None /\ decided[m] = {} /\ DropsOf(m) = {}
        /\ "aborted" \notin told[m] /\ "ended" \notin told[m]
    BY <1>1, <2>3 DEF KeptOK
  <2>5. DropsOf(m)' = {} /\ op'[m].pc = "idle"
    BY <1>1, <2>4, IdleIs DEF DropsOf
  <2> QED
    BY <1>1, <1>4, <2>1, <2>2, <2>4, <2>5 DEF KeptOK
<1> QED
  BY <1>3, <1>4

LEMMA FormFailedKept ==
  ASSUME KeptInv, NEW m \in Matches, FormFailed(m), NEW n \in Matches
  PROVE  KeptOK(n)'
<1>1. /\ meta' = meta /\ op' = op /\ row' = row /\ told' = told /\ decided' = decided
      /\ seed[m] \in {"failed", "unallocated"} /\ seed' = [seed EXCEPT ![m] = "abandoned"]
  BY DEF FormFailed, objectVars, d1Vars
<1>2. CASE n # m
  <2>1. DropsOf(n)' \subseteq DropsOf(n)
    BY <1>2 DEF FormFailed, DropsOf, Call
  <2>2. seed'[n] = seed[n]
    BY <1>1, <1>2 DEF KeptInv, ToldInv, TypeInv, TypeOK
  <2> QED
    BY <1>1, <2>1, <2>2, KeepsKept DEF Keeps, SeedGoesOn, CallbackGoesOn, KeptInv, ToldInv
<1>3. CASE n = m
  <2>1. KeptOK(m) /\ ~meta[m].exists /\ op[m] = Idle
    BY <1>1 DEF KeptInv, KeptOK, ToldInv, ToldOK
  <2>2. seed'[m] = "abandoned" /\ ~Unseeded(m)'
    BY <1>1 DEF KeptInv, ToldInv, TypeInv, TypeOK, Unseeded
  <2>3. op'[m].pc = "idle"
    BY <1>1, <2>1, IdleIs
  <2>4. /\ decided'[m] = (IF meta'[m].exists /\ row'[m].winner # None THEN {row'[m].winner} ELSE {})
        /\ meta'[m].ended => meta'[m].winner # None
        /\ ~meta'[m].exists /\ "ended" \notin told'[m]
    BY <1>1, <2>1 DEF KeptOK
  <2> QED
    BY <1>3, <2>2, <2>3, <2>4 DEF KeptOK
<1> QED
  BY <1>2, <1>3

LEMMA RecordKept ==
  ASSUME KeptInv, Reliable, NEW m \in Matches, Record(m), NEW n \in Matches
  PROVE  KeptOK(n)'
<1>1. /\ row' = row /\ told' = told /\ seed' = seed /\ net' = net /\ decided' = decided
      /\ op[m].pc = "persisted"
  BY DEF Record, d1Vars, queueVars
<1>2. op' = [op EXCEPT ![m].pc = "recorded"]
  BY DEF Record
<1>3. meta' = [meta EXCEPT ![m] = [@ EXCEPT !.winner = op[m].winner, !.ended = TRUE]]
  BY DEF Record, Fails, Reliable
<1>4. CASE n # m
  BY <1>1, <1>2, <1>3, <1>4, OthersKept DEF DropsOf, KeptInv, ToldInv, TypeInv, TypeOK
<1>5. CASE n = m
  <2>1. KeptOK(m) /\ meta[m].exists /\ op[m].winner # None
    <3>1. op[m].winner \in PlayersOf[m]
      BY <1>1 DEF KeptInv, ToldInv, TypeInv, DecidersNamePlayers, Deciding
    <3> QED
      BY <1>1, <3>1, IdleIs, MatchAssumption DEF KeptInv, ToldInv, ToldOK
  <2>2. op'[m].pc = "recorded" /\ op'[m].winner = op[m].winner
    BY <1>2 DEF KeptInv, ToldInv, TypeInv, TypeOK, Ops
  <2>3. meta'[m].winner = op[m].winner /\ meta'[m].exists = meta[m].exists
    BY <1>3 DEF KeptInv, ToldInv, TypeInv, TypeOK, Metas
  <2>4. DropsOf(m)' = DropsOf(m) /\ ~Aborting(m) /\ ~Dropping(m)
    BY <1>1 DEF DropsOf, Aborting, Dropping
  <2>5. row[m].winner = op[m].winner /\ row[m].exists
    BY <1>1, <2>1, <2>4 DEF KeptOK
  <2>6. /\ seed[m] \in {"seeded", "formed"} /\ decided[m] = {row[m].winner}
        /\ DropsOf(m) = {} /\ "aborted" \notin told[m] /\ "ended" \notin told[m]
    BY <2>1, <2>4, <2>5 DEF KeptOK
  <2> QED
    BY <1>1, <1>5, <2>1, <2>2, <2>3, <2>4, <2>5, <2>6 DEF KeptOK
<1> QED
  BY <1>4, <1>5

LEMMA AnnounceKept ==
  ASSUME KeptInv, NEW m \in Matches, AnnounceResult(m), NEW n \in Matches
  PROVE  KeptOK(n)'
<1>1. /\ meta' = meta /\ row' = row /\ seed' = seed /\ net' = net /\ decided' = decided
      /\ op[m].pc = "recorded"
  BY DEF AnnounceResult, d1Vars, queueVars, objectVars
<1>2. op' = [op EXCEPT ![m].pc = "closing"]
  BY DEF AnnounceResult
<1>3. told' = [told EXCEPT ![m] = @ \cup {op[m].winner}]
  BY DEF AnnounceResult
<1>4. CASE n # m
  BY <1>1, <1>2, <1>3, <1>4, OthersKept DEF DropsOf, KeptInv, ToldInv, TypeInv, TypeOK
<1>5. CASE n = m
  <2>1. KeptOK(m) /\ meta[m].exists /\ meta[m].winner = op[m].winner
    BY <1>1, IdleIs DEF KeptInv, ToldInv, ToldOK
  <2>2. op[m].winner \in Players
    <3>1. op[m].winner \in PlayersOf[m]
      BY <1>1 DEF KeptInv, ToldInv, TypeInv, DecidersNamePlayers, Deciding
    <3> QED
      BY <3>1, MatchAssumption
  <2>3. op'[m].pc = "closing" /\ op'[m].winner = op[m].winner
    BY <1>2 DEF KeptInv, ToldInv, TypeInv, TypeOK, Ops
  <2>4. told'[m] = told[m] \cup {op[m].winner}
    BY <1>3 DEF KeptInv, ToldInv, TypeInv, TypeOK
  <2>5. DropsOf(m)' = DropsOf(m) /\ ~Aborting(m) /\ ~Dropping(m)
    BY <1>1 DEF DropsOf, Aborting, Dropping
  <2>6. /\ seed[m] \in {"seeded", "formed"} /\ row[m].exists /\ row[m].winner = meta[m].winner
        /\ decided[m] = (IF row[m].winner # None THEN {row[m].winner} ELSE {})
        /\ DropsOf(m) = {} /\ "aborted" \notin told[m] /\ "ended" \notin told[m]
        /\ meta[m].ended => meta[m].winner # None
    BY <1>1, <2>1, <2>5 DEF KeptOK
  <2>7. "aborted" \notin told'[m] /\ "ended" \notin told'[m]
    BY <2>2, <2>4, <2>6, MatchAssumption
  <2> QED
    BY <1>1, <1>5, <2>1, <2>3, <2>5, <2>6, <2>7 DEF KeptOK
<1> QED
  BY <1>4, <1>5

(* An abort decided while nothing else runs. *)
LEMMA AbortKept ==
  ASSUME KeptInv, NEW m \in Matches, op[m] = Idle, meta[m].exists, meta[m].winner = None,
         meta' = meta, row' = row, decided' = decided, net' = net, seed' = seed,
         NEW o, op' = [op EXCEPT ![m] = o], o.pc = "closing", o.winner = None,
         told' = [told EXCEPT ![m] = @ \cup {"aborted"}]
  PROVE  KeptOK(m)'
<1>1. KeptOK(m) /\ ToldOK(m) /\ op[m].pc = "idle"
  BY IdleIs DEF KeptInv, ToldInv
<1>2. op'[m] = o /\ told'[m] = told[m] \cup {"aborted"}
  BY DEF KeptInv, ToldInv, TypeInv, TypeOK
<1>3. DropsOf(m)' = DropsOf(m) /\ ~Dropping(m) /\ ~Aborting(m)
  BY <1>1 DEF DropsOf, Aborting, Dropping
<1>4. /\ seed[m] \in {"seeded", "formed"} /\ row[m].exists /\ row[m].winner = None
      /\ decided[m] = {} /\ DropsOf(m) = {} /\ "ended" \notin told[m] /\ ~meta[m].ended
  BY <1>1, <1>3 DEF KeptOK
<1>5. Aborting(m)' /\ ~Unseeded(m)'
  BY <1>2, <1>4 DEF Aborting, Unseeded
<1> QED
  BY <1>2, <1>3, <1>4, <1>5 DEF KeptOK

LEMMA ExitKept ==
  ASSUME KeptInv, NEW m \in Matches, Exit(m), NEW n \in Matches
  PROVE  KeptOK(n)'
<1> DEFINE o == [kind |-> "exit", pc |-> "closing", who |-> None, winner |-> None]
<1>1. /\ meta' = meta /\ row' = row /\ net' = net /\ decided' = decided /\ op[m] = Idle
  BY DEF Exit, d1Vars
<1>2. CASE meta[m].exists /\ ~LooksOver(m)
  <2>1. /\ op' = [op EXCEPT ![m] = o] /\ told' = [told EXCEPT ![m] = @ \cup {"aborted"}]
        /\ seed' = seed
    BY <1>2 DEF Exit
  <2>2. CASE n # m
    BY <1>1, <2>1, <2>2, OthersKept DEF DropsOf, KeptInv, ToldInv, TypeInv, TypeOK
  <2>3. CASE n = m
    <3>1. o.pc = "closing" /\ o.winner = None /\ meta[m].winner = None
      BY <1>2 DEF LooksOver
    <3> HIDE DEF o
    <3> QED
      BY <1>1, <1>2, <2>1, <2>3, <3>1, AbortKept
  <2> QED
    BY <2>2, <2>3
<1>3. CASE ~(meta[m].exists /\ ~LooksOver(m))
  <2>1. op' = op /\ told' = told
    BY <1>3 DEF Exit
  <2>2. SeedGoesOn(n)
    <3>1. CASE meta[m].exists
      BY <1>3, <3>1 DEF Exit, SeedGoesOn
    <3>2. CASE ~meta[m].exists
      BY <3>2, HttpSeed DEF Exit
    <3> QED
      BY <3>1, <3>2
  <2> QED
    BY <1>1, <2>1, <2>2, KeepsKept DEF Keeps, CallbackGoesOn, DropsOf, KeptInv, ToldInv
<1> QED
  BY <1>2, <1>3

LEMMA FatalKept ==
  ASSUME KeptInv, Reliable, NEW m \in Matches, Fatal(m), NEW n \in Matches
  PROVE  KeptOK(n)'
<1>1. /\ meta' = meta /\ row' = row /\ net' = net /\ seed' = seed /\ decided' = decided
      /\ op[m] = Idle
  BY DEF Fatal, d1Vars, queueVars
<1>2. CASE ~meta[m].exists
  BY <1>1, <1>2, KeepsKept DEF Fatal, Keeps, SeedGoesOn, CallbackGoesOn, DropsOf, KeptInv, ToldInv
<1>3. CASE meta[m].exists
  <2>1. PICK w \in Winners :
          /\ FatalWinner(m, w)
          /\ op' = [op EXCEPT ![m] = [kind |-> "fatal", pc |-> "closing", who |-> None, winner |-> w]]
          /\ told' = IF w = None THEN [told EXCEPT ![m] = @ \cup {"aborted"}] ELSE told
    BY <1>3 DEF Fatal
  <2>2. w = meta[m].winner
    <3>1. row[m].winner = meta[m].winner
      BY <1>1, <1>3, CheckAgrees
    <3> QED
      BY <2>1, <3>1 DEF FatalWinner, Fails, Reliable
  <2> DEFINE o == [kind |-> "fatal", pc |-> "closing", who |-> None, winner |-> w]
  <2>3. o.pc = "closing" /\ o.winner = w /\ op' = [op EXCEPT ![m] = o]
    BY <2>1
  <2> HIDE DEF o
  <2>4. CASE n # m
    BY <1>1, <2>1, <2>4, OthersKept DEF DropsOf, KeptInv, ToldInv, TypeInv, TypeOK
  <2>5. CASE n = m /\ w = None
    BY <1>1, <1>3, <2>1, <2>2, <2>3, <2>5, AbortKept
  <2>6. CASE n = m /\ w # None
    <3>1. KeptOK(m) /\ op[m].pc = "idle"
      BY <1>1, IdleIs DEF KeptInv
    <3>2. op'[m] = o /\ told' = told
      BY <2>1, <2>3, <2>6 DEF KeptInv, ToldInv, TypeInv, TypeOK
    <3>3. DropsOf(m)' = DropsOf(m) /\ ~Dropping(m) /\ ~Aborting(m)
      BY <1>1, <3>1 DEF DropsOf, Aborting, Dropping
    <3>4. /\ seed[m] \in {"seeded", "formed"} /\ row[m].exists /\ row[m].winner = meta[m].winner
          /\ decided[m] = {row[m].winner} /\ DropsOf(m) = {}
          /\ "aborted" \notin told[m] /\ "ended" \notin told[m]
          /\ meta[m].ended => meta[m].winner # None
      BY <1>3, <2>2, <2>6, <3>1, <3>3 DEF KeptOK
    <3> QED
      BY <1>1, <1>3, <2>2, <2>3, <2>6, <3>2, <3>3, <3>4 DEF KeptOK
  <2> QED
    BY <2>4, <2>5, <2>6
<1> QED
  BY <1>2, <1>3

LEMMA CleanupStartKept ==
  ASSUME KeptInv, NEW m \in Matches, CleanupStart(m), NEW n \in Matches
  PROVE  KeptOK(n)'
<1>1. /\ meta' = meta /\ row' = row /\ told' = told /\ seed' = seed /\ decided' = decided
      /\ op[m].pc = "closing" /\ op' = [op EXCEPT ![m].pc = "cleanup"]
  BY DEF CleanupStart, d1Vars, queueVars
<1>2. net' = net \cup CleanupCalls(m)
  BY DEF CleanupStart
<1>3. \A c \in CleanupCalls(m) : c.match = m /\ (c.do = "drop" => op[m].winner = None)
  BY DEF CleanupCalls, Call
<1>4. CASE n # m
  <2>1. DropsOf(n)' \subseteq DropsOf(n)
    BY <1>2, <1>3, <1>4 DEF DropsOf
  <2> QED
    BY <1>1, <1>4, <2>1, OthersKept DEF KeptInv, ToldInv, TypeInv, TypeOK
<1>5. CASE n = m
  <2>1. KeptOK(m) /\ meta[m].exists /\ op[m].winner = meta[m].winner
    BY <1>1, IdleIs DEF KeptInv, KeptOK, ToldInv, ToldOK
  <2>2. op'[m].pc = "cleanup" /\ op'[m].winner = op[m].winner
    BY <1>1 DEF KeptInv, ToldInv, TypeInv, TypeOK, Ops
  <2>3. ~Dropping(m) /\ (Aborting(m) <=> op[m].winner = None)
    BY <1>1 DEF Aborting, Dropping
  <2>4. (Aborting(m)' <=> op[m].winner = None) /\ (Dropping(m)' <=> op[m].winner = None)
    BY <2>2 DEF Aborting, Dropping
  <2>5. /\ seed[m] \in {"seeded", "formed"} /\ row[m].exists /\ row[m].winner = meta[m].winner
        /\ decided[m] = (IF row[m].winner # None THEN {row[m].winner} ELSE {})
        /\ DropsOf(m) = {} /\ "ended" \notin told[m]
        /\ "aborted" \in told[m] => Aborting(m)
        /\ meta[m].ended => meta[m].winner # None
    BY <1>1, <2>1, <2>3 DEF KeptOK
  <2>6. DropsOf(m)' # {} => op[m].winner = None
    BY <1>2, <1>3, <2>5 DEF DropsOf
  <2>7. ~Unseeded(m)'
    BY <1>1, <2>5 DEF Unseeded
  <2> QED
    BY <1>1, <1>5, <2>1, <2>2, <2>3, <2>4, <2>5, <2>6, <2>7 DEF KeptOK
<1> QED
  BY <1>4, <1>5

LEMMA CleanupFinishKept ==
  ASSUME KeptInv, Reliable, NEW m \in Matches, CleanupFinish(m), NEW n \in Matches
  PROVE  KeptOK(n)'
<1>1. /\ row' = row /\ told' = told /\ op[m].pc = "cleanup" /\ seed' = seed /\ net' = net
      /\ decided' = decided /\ op' = [op EXCEPT ![m] = Idle]
  BY DEF CleanupFinish, d1Vars, queueVars
<1>2. meta' = [meta EXCEPT ![m] = IF op[m].winner = None THEN NoMeta ELSE @]
  BY DEF CleanupFinish, ClearStorage, Fails, Reliable
<1>3. CASE n # m
  BY <1>1, <1>2, <1>3, OthersKept DEF DropsOf, KeptInv, ToldInv, TypeInv, TypeOK
<1>4. CASE n = m
  <2>1. KeptOK(m) /\ meta[m].exists /\ op[m].winner = meta[m].winner
    BY <1>1, IdleIs DEF KeptInv, KeptOK, ToldInv, ToldOK
  <2>2. op'[m] = Idle /\ op'[m].pc = "idle" /\ DropsOf(m)' = DropsOf(m)
        /\ (Unseeded(m)' <=> Unseeded(m))
    BY <1>1, IdleIs DEF DropsOf, Unseeded, KeptInv, ToldInv, TypeInv, TypeOK
  <2>3. /\ seed[m] \in {"seeded", "formed"} /\ row[m].winner = meta[m].winner
        /\ decided[m] = (IF row[m].winner # None THEN {row[m].winner} ELSE {})
        /\ meta[m].ended => meta[m].winner # None
        /\ "ended" \notin told[m] /\ ~Unseeded(m)
    BY <1>1, <2>1 DEF KeptOK, Unseeded
  <2>4. CASE op[m].winner = None
    <3>1. meta'[m] = NoMeta
      BY <1>2, <2>4 DEF KeptInv, ToldInv, TypeInv, TypeOK
    <3>2. ~NoMeta.exists /\ ~NoMeta.ended /\ NoMeta.winner = None
      BY DEF NoMeta
    <3> QED
      BY <1>1, <1>4, <2>1, <2>2, <2>3, <2>4, <3>1, <3>2 DEF KeptOK
  <2>5. CASE op[m].winner # None
    <3>1. meta'[m] = meta[m]
      BY <1>2, <2>5 DEF KeptInv, ToldInv, TypeInv, TypeOK
    <3>2. ~Aborting(m) /\ ~Dropping(m)
      BY <2>5 DEF Aborting, Dropping
    <3>3. row[m].exists /\ DropsOf(m) = {} /\ "aborted" \notin told[m]
      BY <2>1, <3>2 DEF KeptOK
    <3> QED
      BY <1>1, <1>4, <2>1, <2>2, <2>3, <3>1, <3>3 DEF KeptOK
  <2> QED
    BY <2>4, <2>5
<1> QED
  BY <1>3, <1>4

LEMMA D1InsertKept ==
  ASSUME KeptInv, Reliable, NEW c \in net, D1Insert(c), NEW n \in Matches
  PROVE  KeptOK(n)'
<1> DEFINE m == c.match
<1>1. /\ meta' = meta /\ op' = op /\ told' = told /\ decided' = decided /\ net' = net \ {c}
      /\ m \in Matches /\ c.do = "insert"
  BY DEF D1Insert, objectVars, KeptInv, ToldInv, TypeInv, TypeOK, Calls
<1>2. /\ row' = [row EXCEPT ![m] = IF @.exists THEN @ ELSE NewRow]
      /\ seed' = [seed EXCEPT ![m] = IF @ = "inserting" THEN "inserted" ELSE @]
  BY DEF D1Insert, AnswerInsert, Fails, Reliable
<1>3. DropsOf(n)' \subseteq DropsOf(n)
  BY <1>1 DEF DropsOf
<1>4. CASE n # m
  <2>1. row'[n] = row[n] /\ seed'[n] = seed[n]
    BY <1>1, <1>2, <1>4 DEF KeptInv, ToldInv, TypeInv, TypeOK
  <2> QED
    BY <1>1, <1>3, <2>1, KeepsKept DEF Keeps, SeedGoesOn, CallbackGoesOn, KeptInv, ToldInv
<1>5. CASE n = m
  <2>1. ~row[m].exists /\ decided[m] = {}
    <3>1. c = Seed(m)
      BY <1>1 DEF KeptInv, RecordInv, InsertsAreSeeds
    <3> QED
      BY <1>1, <3>1 DEF KeptInv, RecordInv, UndecidedUntilInserted
  <2>2. row'[m] = NewRow /\ NewRow.exists /\ NewRow.winner = None
    <3>1. row'[m] = NewRow
      BY <1>1, <1>2, <2>1 DEF KeptInv, ToldInv, TypeInv, TypeOK
    <3>2. NewRow.exists /\ NewRow.winner = None
      BY DEF NewRow, NoRow
    <3> QED
      BY <3>1, <3>2
  <2>3. seed'[m] = IF seed[m] = "inserting" THEN "inserted" ELSE seed[m]
    BY <1>1, <1>2 DEF KeptInv, ToldInv, TypeInv, TypeOK
  <2>4. KeptOK(m) /\ (Unseeded(m)' <=> Unseeded(m)) /\ (Aborting(m)' <=> Aborting(m))
        /\ (Dropping(m)' <=> Dropping(m))
    BY <1>1, <2>3 DEF KeptInv, Unseeded, Aborting, Dropping
  <2>5. meta[m].exists => row[m].winner = None /\ seed[m] # "inserting"
    BY <1>1, <2>1, <2>4 DEF KeptOK
  <2>6. meta'[m].exists =>
          row'[m].winner = (IF op'[m].pc = "persisted" THEN op'[m].winner ELSE meta'[m].winner)
    BY <1>1, <2>2, <2>4, <2>5 DEF KeptOK
  <2>7. /\ meta'[m].exists => seed'[m] \in {"seeded", "formed"}
        /\ op'[m].pc = "check" /\ op'[m].who \notin PlayersOf[m] => seed'[m] = "formed"
    BY <1>1, <2>3, <2>4, <2>5 DEF KeptOK
  <2>8. /\ DropsOf(m)' # {} => ~Unseeded(m)' /\ (~meta'[m].exists \/ Dropping(m)')
        /\ "aborted" \in told'[m] => ~Unseeded(m)' /\ (~meta'[m].exists \/ Aborting(m)')
        /\ "ended" \notin told'[m]
        /\ meta'[m].ended => meta'[m].winner # None
        /\ op'[m].pc \in {"closing", "cleanup"} => op'[m].winner = meta'[m].winner
    BY <1>1, <1>3, <1>5, <2>4 DEF KeptOK
  <2> QED
    BY <1>1, <1>5, <2>1, <2>2, <2>6, <2>7, <2>8 DEF KeptOK
<1> QED
  BY <1>4, <1>5

(* What a batch finds and leaves when nothing fails. *)
LEMMA CommitFinds ==
  ASSUME KeptInv, NEW c \in net, c.do = "commit"
  PROVE  /\ c.match \in Matches /\ c.who \in PlayersOf[c.match] /\ Persisting(c)
         /\ meta[c.match].exists /\ row[c.match].exists /\ row[c.match].winner = None
         /\ decided[c.match] = {} /\ ~Aborting(c.match) /\ ~Dropping(c.match)
         /\ "aborted" \notin told[c.match]
<1> DEFINE m == c.match
<1>1. m \in Matches /\ ToldOK(m) /\ KeptOK(m) /\ c \in CommitsOf(m) /\ c.who \in PlayersOf[m]
  BY DEF KeptInv, ToldInv, TypeInv, TypeOK, Calls, CommitsOf, CommitsNamePlayers
<1>2. op[m].pc = "persist" /\ c = Call(m, "match", "commit", op[m].winner)
  BY <1>1 DEF ToldOK
<1>3. c.who = op[m].winner
  BY <1>2 DEF Call
<1>4. ~Aborting(m) /\ ~Dropping(m)
  BY <1>2 DEF Aborting, Dropping
<1>5. meta[m].exists /\ row[m].winner = None
  BY <1>1, <1>2, IdleIs DEF ToldOK
<1>6. row[m].exists /\ decided[m] = {} /\ "aborted" \notin told[m]
  BY <1>1, <1>4, <1>5 DEF KeptOK
<1> QED
  BY <1>1, <1>2, <1>3, <1>4, <1>5, <1>6 DEF Persisting

LEMMA D1CommitLeaves ==
  ASSUME KeptInv, Reliable, NEW c \in net, D1Commit(c)
  PROVE  /\ meta' = meta /\ told' = told /\ net' = net \ {c} /\ seed' = seed
         /\ op' = [op EXCEPT ![c.match].pc = "persisted"]
         /\ decided' = [decided EXCEPT ![c.match] = {c.who}]
         /\ row'[c.match].winner = c.who /\ row'[c.match].exists
         /\ \A n \in Matches : n # c.match => row'[n] = row[n]
<1> DEFINE m == c.match
<1>1. m \in Matches /\ Persisting(c) /\ row[m].exists /\ row[m].winner = None /\ decided[m] = {}
  BY CommitFinds DEF D1Commit
<1>2. SetsWinner(m)
  BY <1>1 DEF SetsWinner
<1>3. decided' = [decided EXCEPT ![m] = {c.who}]
  <2>1. decided' = [decided EXCEPT ![m] = IF SetsWinner(m) THEN @ \cup {c.who} ELSE @]
    BY DEF D1Commit, ApplyBatch
  <2> QED
    BY <1>1, <1>2, <2>1 DEF KeptInv, ToldInv, TypeInv, TypeOK
<1>4. row' = [row EXCEPT ![m].winner = IF SetsWinner(m) THEN c.who ELSE @,
                         ![m].rated = @ \cup Unrated(m)]
  BY DEF D1Commit, ApplyBatch
<1>5. row'[m].winner = c.who /\ row'[m].exists
  BY <1>1, <1>2, <1>4 DEF KeptInv, ToldInv, TypeInv, TypeOK, Rows
<1>6. \A n \in Matches : n # m => row'[n] = row[n]
  BY <1>4 DEF KeptInv, ToldInv, TypeInv, TypeOK
<1>7. meta' = meta /\ told' = told /\ net' = net \ {c}
  BY DEF D1Commit
<1>8. op' = [op EXCEPT ![m].pc = "persisted"] /\ seed' = seed
  BY <1>1 DEF D1Commit, Fails, Reliable
<1> QED
  BY <1>3, <1>5, <1>6, <1>7, <1>8

LEMMA D1CommitKept ==
  ASSUME KeptInv, Reliable, NEW c \in net, D1Commit(c), NEW n \in Matches
  PROVE  KeptOK(n)'
<1> DEFINE m == c.match
<1>1. /\ meta' = meta /\ told' = told /\ net' = net \ {c} /\ seed' = seed
      /\ op' = [op EXCEPT ![m].pc = "persisted"]
      /\ decided' = [decided EXCEPT ![m] = {c.who}]
      /\ row'[m].winner = c.who /\ row'[m].exists
      /\ \A k \in Matches : k # m => row'[k] = row[k]
  BY D1CommitLeaves
<1>2. /\ m \in Matches /\ c.who \in PlayersOf[m] /\ Persisting(c)
      /\ meta[m].exists /\ ~Aborting(m) /\ ~Dropping(m) /\ "aborted" \notin told[m]
  BY CommitFinds DEF D1Commit
<1>3. DropsOf(n)' \subseteq DropsOf(n)
  BY <1>1 DEF DropsOf
<1>4. CASE n # m
  BY <1>1, <1>2, <1>3, <1>4, OthersKept DEF KeptInv, ToldInv, TypeInv, TypeOK
<1>5. CASE n = m
  <2>1. KeptOK(m)
    BY <1>2 DEF KeptInv
  <2>2. op'[m].pc = "persisted" /\ op'[m].winner = c.who /\ op[m].pc = "persist"
    BY <1>1, <1>2 DEF Persisting, KeptInv, ToldInv, TypeInv, TypeOK, Ops
  <2>3. decided'[m] = {c.who} /\ c.who # None
    <3>1. c.who # None
      BY <1>2, MatchAssumption
    <3>2. decided'[m] = {c.who}
      BY <1>1, <1>2 DEF KeptInv, ToldInv, TypeInv, TypeOK
    <3> QED
      BY <3>1, <3>2
  <2>4. /\ seed[m] \in {"seeded", "formed"} /\ DropsOf(m) = {} /\ "ended" \notin told[m]
        /\ meta[m].ended => meta[m].winner # None
    BY <1>2, <2>1 DEF KeptOK
  <2> QED
    BY <1>1, <1>2, <1>3, <1>5, <2>2, <2>3, <2>4 DEF KeptOK
<1> QED
  BY <1>4, <1>5

LEMMA D1DropKept ==
  ASSUME KeptInv, NEW c \in net, D1Drop(c), NEW n \in Matches
  PROVE  KeptOK(n)'
<1> DEFINE m == c.match
<1>1. /\ meta' = meta /\ op' = op /\ told' = told /\ decided' = decided /\ net' = net \ {c}
      /\ seed' = seed /\ row' = [row EXCEPT ![m] = NoRow] /\ m \in Matches /\ c \in DropsOf(m)
  BY DEF D1Drop, objectVars, queueVars, KeptInv, ToldInv, TypeInv, TypeOK, Calls, DropsOf
<1>2. DropsOf(n)' \subseteq DropsOf(n)
  BY <1>1 DEF DropsOf
<1>3. CASE n # m
  BY <1>1, <1>2, <1>3, OthersKept DEF KeptInv, ToldInv, TypeInv, TypeOK
<1>4. CASE n = m
  <2>1. KeptOK(m) /\ ~Unseeded(m) /\ (~meta[m].exists \/ Dropping(m))
    BY <1>1 DEF KeptInv, KeptOK
  <2>2. row'[m] = NoRow /\ NoRow.winner = None
    <3>1. NoRow.winner = None
      BY DEF NoRow
    <3> QED
      BY <1>1, <3>1 DEF KeptInv, ToldInv, TypeInv, TypeOK
  <2>3. Dropping(m) => op[m].pc = "cleanup" /\ meta[m].winner = None
    BY <1>1 DEF Dropping, KeptInv, ToldInv, ToldOK
  <2>4. decided[m] = {}
    BY <2>1, <2>3 DEF KeptOK
  <2>5. (Unseeded(m)' <=> Unseeded(m)) /\ (Aborting(m)' <=> Aborting(m)) /\ (Dropping(m)' <=> Dropping(m))
    BY <1>1 DEF Unseeded, Aborting, Dropping
  <2>6. /\ meta'[m].exists => row'[m].exists \/ Dropping(m)'
        /\ meta'[m].exists =>
             row'[m].winner = (IF op'[m].pc = "persisted" THEN op'[m].winner ELSE meta'[m].winner)
    BY <1>1, <2>1, <2>2, <2>3, <2>5
  <2>7. seed[m] # "inserted"
    BY <2>1 DEF Unseeded
  <2>8. /\ meta'[m].exists => seed'[m] \in {"seeded", "formed"}
        /\ op'[m].pc = "check" /\ op'[m].who \notin PlayersOf[m] => seed'[m] = "formed"
        /\ meta'[m].ended => meta'[m].winner # None
        /\ op'[m].pc \in {"closing", "cleanup"} => op'[m].winner = meta'[m].winner
        /\ DropsOf(m)' # {} => ~Unseeded(m)' /\ (~meta'[m].exists \/ Dropping(m)')
        /\ "aborted" \in told'[m] => ~Unseeded(m)' /\ (~meta'[m].exists \/ Aborting(m)')
        /\ "ended" \notin told'[m]
    BY <1>1, <2>1, <2>5 DEF KeptOK
  <2> QED
    BY <1>1, <1>4, <2>2, <2>4, <2>6, <2>7, <2>8 DEF KeptOK
<1> QED
  BY <1>3, <1>4

-----------------------------------------------------------------------------
LEMMA InitKept == Init => KeptInv
<1> SUFFICES ASSUME Init
             PROVE  KeptInv
  OBVIOUS
<1>1. ToldInv /\ RecordInv
  BY InitTold, InitRecord
<1>2. ~NoMeta.exists /\ ~NoMeta.ended /\ NoRow.winner = None
  BY DEF NoMeta, NoRow
<1>3. ASSUME NEW m \in Matches
      PROVE  KeptOK(m)
  <2>1. /\ meta[m] = NoMeta /\ op[m] = Idle /\ row[m] = NoRow /\ told[m] = {} /\ net = {}
        /\ seed[m] = "none" /\ decided[m] = {}
    BY DEF Init
  <2> QED
    BY <1>2, <2>1, IdleIs DEF KeptOK, DropsOf
<1> QED
  BY <1>1, <1>3 DEF KeptInv

LEMMA ObjectKept ==
  ASSUME KeptInv, Reliable, NEW m \in Matches, Request(m) \/ ObjectStep(m), NEW n \in Matches
  PROVE  KeptOK(n)'
<1>1. CASE Allocate(m) \/ AllocateFails(m) \/ SeedInsert(m) \/ Formed(m)
  BY <1>1, SeedKept
<1>2. CASE ReadyStart(m) \/ ReadyRouted(m) \/ ReadyNotified(m) \/ ReadyFails(m)
  BY <1>2, ReadyKept
<1>3. ASSUME NEW p \in Players, Claim(m, p) \/ Forfeit(m, p)
      PROVE  KeptOK(n)'
  BY <1>3, EnterKept DEF Claim, Forfeit
<1>4. CASE CheckFails(m)
  BY <1>4 DEF CheckFails, Fails, Reliable
<1>5. CASE SeedStore(m) \/ FormFailed(m)
  BY <1>5, SeedStoreKept, FormFailedKept
<1>6. CASE AlreadyDecided(m) \/ NotAPlayer(m) \/ Persist(m) \/ ShowState(m)
  BY <1>6, AlreadyDecidedKept, NotAPlayerKept, PersistKept, ShowStateKept
<1>7. CASE Record(m) \/ AnnounceResult(m)
  BY <1>7, RecordKept, AnnounceKept
<1>8. CASE Exit(m) \/ Fatal(m)
  BY <1>8, ExitKept, FatalKept
<1>9. CASE CleanupStart(m) \/ CleanupFinish(m)
  BY <1>9, CleanupStartKept, CleanupFinishKept
<1> QED
  BY <1>1, <1>2, <1>3, <1>4, <1>5, <1>6, <1>7, <1>8, <1>9 DEF Request, ObjectStep

LEMMA NextKept == Reliable /\ KeptInv /\ [Next]_vars => KeptInv'
<1> SUFFICES ASSUME Reliable, KeptInv, [Next]_vars
             PROVE  KeptInv'
  OBVIOUS
<1>1. ToldInv'
  BY NextTold DEF Reliable, Punctual, KeptInv
<1>2. RecordInv'
  BY SafetyInvInductive DEF SafetyInv, KeptInv, ToldInv
<1>3. ASSUME NEW n \in Matches
      PROVE  KeptOK(n)'
  <2>1. ASSUME NEW m \in Matches, Request(m) \/ ObjectStep(m)
        PROVE  KeptOK(n)'
    BY <2>1, ObjectKept
  <2>2. ASSUME NEW m \in Matches, ContainerStep(m)
        PROVE  KeptOK(n)'
    BY <2>2, ContainerKept
  <2>3. ASSUME NEW c \in net, CallStep(c)
        PROVE  KeptOK(n)'
    BY <2>3, D1InsertKept, D1CommitKept, D1DropKept, ServiceKept DEF CallStep
  <2>4. ASSUME NEW m \in Matches, Reset(m)
        PROVE  FALSE
    BY <2>4 DEF Reset, Fails, Reliable
  <2>5. ASSUME NEW c \in net, GiveUp(c)
        PROVE  FALSE
    BY <2>5 DEF GiveUp, Fails, Reliable
  <2>6. CASE UNCHANGED vars
    <3>1. Keeps(n)
      BY <2>6 DEF vars, objectVars, queueVars, d1Vars, agentVars, Keeps, SeedGoesOn,
             CallbackGoesOn, DropsOf
    <3> QED
      BY <3>1, KeepsKept DEF KeptInv, ToldInv
  <2> QED
    BY <2>1, <2>2, <2>3, <2>4, <2>5, <2>6 DEF Next
<1> QED
  BY <1>1, <1>2, <1>3 DEF KeptInv

LEMMA KeptHolds == Reliable => (Spec => []KeptInv)
<1> SUFFICES ASSUME Reliable
             PROVE  Spec => []KeptInv
  OBVIOUS
<1>1. KeptInv /\ [Next]_vars => KeptInv'
  BY NextKept
<1> QED
  BY InitKept, <1>1, PTL DEF Spec

(* When only KV, the Agent and the hub fail, whoever is told of a winner is  *)
(* told of the one D1 holds ("First call wins; subsequent calls see the      *)
(* existing winner and respond truthfully"): the run match_verdict, for any  *)
(* number of matches, players and faults.                                    *)
THEOREM ToldWinnerIsRecorded == Reliable => (Spec => []ToldIsRecorded)
<1> SUFFICES ASSUME Reliable
             PROVE  Spec => []ToldIsRecorded
  OBVIOUS
<1>1. KeptInv => ToldIsRecorded
  <2> SUFFICES ASSUME KeptInv, NEW m \in Matches, NEW w \in told[m] \cap Players
               PROVE  row[m].winner = w
    BY DEF ToldIsRecorded
  <2>1. ToldOK(m) /\ KeptOK(m) /\ meta[m].winner = w /\ w # None
    BY MatchAssumption DEF KeptInv, ToldInv, ToldOK
  <2>2. meta[m].exists /\ op[m].pc # "persisted"
    BY <2>1 DEF ToldOK
  <2> QED
    BY <2>1, <2>2 DEF KeptOK
<1> QED
  BY KeptHolds, <1>1, PTL

(* Under the same failures the record of a decided match is never dropped.   *)
THEOREM DecidedRowIsKept == Reliable => (Spec => []DecidedIsKept)
<1> SUFFICES ASSUME Reliable
             PROVE  Spec => []DecidedIsKept
  OBVIOUS
<1>1. KeptInv => DecidedIsKept
  BY DEF KeptInv, KeptOK, DecidedIsKept
<1> QED
  BY KeptHolds, <1>1, PTL

-----------------------------------------------------------------------------
(* The refinement of MatchArbiter *)

LEMMA VerdictIs ==
  ASSUME TypeInv, NEW m \in Matches
  PROVE  /\ decided[m] # {} => Verdict[m] \in decided[m]
         /\ decided[m] = {} /\ "aborted" \in told[m] => Verdict[m] = "aborted"
         /\ decided[m] = {} /\ "aborted" \notin told[m] => Verdict[m] = "open"
BY DEF Verdict

(* A step that leaves the winner and the abort of a match alone. *)
LEMMA VerdictStays ==
  ASSUME decided' = decided,
         \A n \in Matches : "aborted" \in told'[n] <=> "aborted" \in told[n]
  PROVE  Verdict' = Verdict
BY DEF Verdict

Outcome(winners, verdicts) ==
  IF winners # {} THEN CHOOSE w \in winners : TRUE
  ELSE IF "aborted" \in verdicts THEN "aborted" ELSE "open"

LEMMA VerdictStaysAt ==
  ASSUME NEW n \in Matches, decided'[n] = decided[n], told'[n] = told[n]
  PROVE  Verdict'[n] = Verdict[n]
<1>1. Verdict = [m \in Matches |-> Outcome(decided[m], told[m])]
  BY DEF Verdict, Outcome
<1>2. Verdict' = [m \in Matches |-> Outcome(decided'[m], told'[m])]
  BY DEF Verdict, Outcome
<1> QED
  BY <1>1, <1>2

LEMMA StepTells ==
  ASSUME KeptInv, NEW m \in Matches, decided' = decided,
         NEW w \in decided[m], told' = [told EXCEPT ![m] = @ \cup {w}]
  PROVE  Arbiter!Tell(m)
<1>1. w \in Players /\ w \notin {"open", "aborted"}
  BY MatchAssumption DEF KeptInv, ToldInv, TypeInv, TypeOK
<1>2. Verdict[m] = w
  <2>1. Verdict[m] \in decided[m]
    BY VerdictIs DEF KeptInv, ToldInv
  <2>2. \A v \in decided[m] : v = w
    BY DEF KeptInv, RecordInv, OneWinner
  <2> QED
    BY <2>1, <2>2
<1>3. \A n \in Matches : "aborted" \in told'[n] <=> "aborted" \in told[n]
  BY <1>1 DEF KeptInv, ToldInv, TypeInv, TypeOK
<1>4. Verdict' = Verdict
  BY <1>3, VerdictStays
<1> QED
  BY <1>1, <1>2, <1>4 DEF Arbiter!Tell

LEMMA StepAborts ==
  ASSUME KeptInv, NEW m \in Matches, decided' = decided, op[m] = Idle,
         meta[m].exists, meta[m].winner = None,
         told' = [told EXCEPT ![m] = @ \cup {"aborted"}]
  PROVE  Arbiter!Abort(m)
<1>1. decided[m] = {} /\ "aborted" \notin told[m]
  <2>1. row[m].winner = None
    BY CheckAgrees
  <2>2. ~Aborting(m)
    BY IdleIs DEF Aborting
  <2> QED
    BY <2>1, <2>2 DEF KeptInv, KeptOK
<1>2. Verdict[m] = "open"
  BY <1>1, VerdictIs DEF KeptInv, ToldInv
<1>3. Verdict' = [Verdict EXCEPT ![m] = "aborted"]
  <2>1. \A n \in Matches : told'[n] = IF n = m THEN told[n] \cup {"aborted"} ELSE told[n]
    BY DEF KeptInv, ToldInv, TypeInv, TypeOK
  <2>2. Verdict'[m] = "aborted"
    BY <1>1, <2>1 DEF Verdict
  <2>3. \A n \in Matches : n # m => Verdict'[n] = Verdict[n]
    <3> SUFFICES ASSUME NEW n \in Matches, n # m
                 PROVE  Verdict'[n] = Verdict[n]
      OBVIOUS
    <3> QED
      BY <2>1, VerdictStaysAt
  <2>4. Verdict' = [n \in Matches |-> Verdict'[n]] /\ Verdict = [n \in Matches |-> Verdict[n]]
    BY DEF Verdict
  <2> QED
    BY <2>2, <2>3, <2>4
<1> QED
  BY <1>2, <1>3 DEF Arbiter!Abort

LEMMA StepDecides ==
  ASSUME KeptInv, Reliable, NEW c \in net, D1Commit(c)
  PROVE  Arbiter!Decide(c.match, c.who)
<1> DEFINE m == c.match
<1>1. told' = told /\ decided' = [decided EXCEPT ![m] = {c.who}]
  BY D1CommitLeaves
<1>2. m \in Matches /\ decided[m] = {} /\ "aborted" \notin told[m]
  BY CommitFinds DEF D1Commit
<1>3. Verdict[m] = "open"
  BY <1>2, VerdictIs DEF KeptInv, ToldInv
<1>4. Verdict' = [Verdict EXCEPT ![m] = c.who]
  <2>1. \A n \in Matches : decided'[n] = IF n = m THEN {c.who} ELSE decided[n]
    BY <1>1 DEF KeptInv, ToldInv, TypeInv, TypeOK
  <2>2. Verdict'[m] = c.who
    <3>1. decided'[m] = {c.who}
      BY <1>2, <2>1
    <3>2. Verdict'[m] = CHOOSE w \in decided'[m] : TRUE
      BY <1>2, <3>1 DEF Verdict
    <3> QED
      BY <3>1, <3>2
  <2>3. \A n \in Matches : n # m => Verdict'[n] = Verdict[n]
    <3> SUFFICES ASSUME NEW n \in Matches, n # m
                 PROVE  Verdict'[n] = Verdict[n]
      OBVIOUS
    <3> QED
      BY <1>1, <2>1, VerdictStaysAt
  <2>4. Verdict' = [n \in Matches |-> Verdict'[n]] /\ Verdict = [n \in Matches |-> Verdict[n]]
    BY DEF Verdict
  <2> QED
    BY <1>2, <2>2, <2>3, <2>4
<1> QED
  BY <1>1, <1>3, <1>4 DEF Arbiter!Decide

LEMMA InitMaps == Init => Arbiter!Init
BY DEF Init, Arbiter!Init, Verdict

(* The steps that give a verdict out. *)
LEMMA AnswerMaps ==
  ASSUME KeptInv, NEW m \in Matches, AlreadyDecided(m) \/ AnnounceResult(m) \/ ShowState(m)
  PROVE  Arbiter!Tell(m)
<1>1. KeptOK(m) /\ ToldOK(m)
  BY DEF KeptInv, ToldInv
<1>2. CASE AlreadyDecided(m)
  <2>1. /\ decided' = decided /\ told' = [told EXCEPT ![m] = @ \cup KnownVerdict(m)]
        /\ op[m].pc = "check" /\ KnownVerdict(m) # {}
    BY <1>2 DEF AlreadyDecided, d1Vars
  <2>2. KnownVerdict(m) = {row[m].winner} /\ row[m].winner # None /\ meta[m].exists
    BY <2>1, AnswerIsTheRow
  <2>3. row[m].winner \in decided[m]
    BY <1>1, <2>2 DEF KeptOK
  <2> QED
    BY <2>1, <2>2, <2>3, StepTells
<1>3. CASE AnnounceResult(m)
  <2>1. /\ decided' = decided /\ told' = [told EXCEPT ![m] = @ \cup {op[m].winner}]
        /\ op[m].pc = "recorded"
    BY <1>3 DEF AnnounceResult, d1Vars
  <2>2. meta[m].exists /\ meta[m].winner = op[m].winner /\ op[m].winner # None
    <3>1. op[m].winner \in PlayersOf[m]
      BY <2>1 DEF KeptInv, ToldInv, TypeInv, DecidersNamePlayers, Deciding
    <3> QED
      BY <1>1, <2>1, <3>1, IdleIs, MatchAssumption DEF ToldOK
  <2>3. op[m].winner \in decided[m]
    BY <1>1, <2>1, <2>2 DEF KeptOK
  <2> QED
    BY <2>1, <2>3, StepTells
<1>4. CASE ShowState(m)
  <2>1. /\ decided' = decided /\ told' = [told EXCEPT ![m] = @ \cup {meta[m].winner}]
        /\ op[m] = Idle /\ meta[m].winner # None
    BY <1>4 DEF ShowState, d1Vars
  <2>2. meta[m].exists
    BY <1>1, <2>1 DEF ToldOK
  <2>3. row[m].winner = meta[m].winner
    BY <2>1, <2>2, CheckAgrees
  <2>4. meta[m].winner \in decided[m]
    BY <1>1, <2>1, <2>2, <2>3 DEF KeptOK
  <2> QED
    BY <2>1, <2>4, StepTells
<1> QED
  BY <1>2, <1>3, <1>4

(* The steps that may abort a match. *)
LEMMA CloseMaps ==
  ASSUME KeptInv, Reliable, NEW m \in Matches, Exit(m) \/ Fatal(m)
  PROVE  Arbiter!Abort(m) \/ UNCHANGED <<decided, told>>
<1>1. decided' = decided /\ op[m] = Idle
  BY DEF Exit, Fatal, d1Vars
<1>2. CASE Exit(m)
  <2>1. \/ meta[m].exists /\ meta[m].winner = None /\ told' = [told EXCEPT ![m] = @ \cup {"aborted"}]
        \/ told' = told
    BY <1>2 DEF Exit, LooksOver
  <2> QED
    BY <1>1, <2>1, StepAborts
<1>3. CASE Fatal(m) /\ meta[m].exists
  <2>1. PICK w \in Winners :
          /\ FatalWinner(m, w)
          /\ told' = IF w = None THEN [told EXCEPT ![m] = @ \cup {"aborted"}] ELSE told
    BY <1>3 DEF Fatal
  <2>2. w = None => meta[m].winner = None
    BY <2>1 DEF FatalWinner
  <2> QED
    BY <1>1, <1>3, <2>1, <2>2, StepAborts
<1>4. CASE Fatal(m) /\ ~meta[m].exists
  BY <1>1, <1>4 DEF Fatal
<1> QED
  BY <1>2, <1>3, <1>4

(* The other steps say and decide nothing. *)
LEMMA SilentMaps ==
  ASSUME NEW m \in Matches,
         Request(m) \/ ObjectStep(m) \/ ContainerStep(m) \/ Reset(m),
         ~(AlreadyDecided(m) \/ AnnounceResult(m) \/ ShowState(m) \/ Exit(m) \/ Fatal(m))
  PROVE  UNCHANGED <<decided, told>>
<1>1. CASE Request(m)
  BY <1>1 DEF Request, Allocate, AllocateFails, ReadyStart, Claim, Forfeit, Enter, d1Vars
<1>2. CASE ObjectStep(m)
  BY <1>2 DEF ObjectStep, SeedInsert, SeedStore, Formed, FormFailed, ReadyRouted, ReadyNotified,
         ReadyFails, CheckFails, NotAPlayer, Persist, Record, CleanupStart, CleanupFinish, d1Vars
<1>3. CASE ContainerStep(m) \/ Reset(m)
  BY <1>3 DEF ContainerStep, ContainerExits, ContainerTimesOut, ContainerExpires, Reset, d1Vars
<1> QED
  BY <1>1, <1>2, <1>3

LEMMA NextMaps ==
  Reliable /\ KeptInv /\ [Next]_vars => [Arbiter!Next]_<<Verdict, told>>
<1> SUFFICES ASSUME Reliable, KeptInv, [Next]_vars
             PROVE  (\E m \in Matches : \/ \E w \in PlayersOf[m] : Arbiter!Decide(m, w)
                                        \/ Arbiter!Abort(m)
                                        \/ Arbiter!Tell(m))
                    \/ UNCHANGED <<decided, told>>
  BY VerdictStays DEF Arbiter!Next
<1>1. ASSUME NEW m \in Matches, Request(m) \/ ObjectStep(m) \/ ContainerStep(m) \/ Reset(m)
      PROVE  Arbiter!Abort(m) \/ Arbiter!Tell(m) \/ UNCHANGED <<decided, told>>
  BY <1>1, AnswerMaps, CloseMaps, SilentMaps
<1>2. ASSUME NEW c \in net, D1Commit(c)
      PROVE  \E m \in Matches : \E w \in PlayersOf[m] : Arbiter!Decide(m, w)
  <2>1. c.match \in Matches /\ c.who \in PlayersOf[c.match]
    BY <1>2, CommitFinds DEF D1Commit
  <2> QED
    BY <1>2, <2>1, StepDecides
<1>3. ASSUME NEW c \in net, D1Insert(c) \/ D1Drop(c) \/ KvPut(c) \/ KvDelete(c) \/ AgentStop(c)
                            \/ Lose(c) \/ GiveUp(c)
      PROVE  UNCHANGED <<decided, told>>
  BY <1>3 DEF D1Insert, D1Drop, KvPut, KvDelete, AgentStop, Lose, GiveUp, d1Vars
<1>4. CASE UNCHANGED vars
  BY <1>4 DEF vars, d1Vars
<1> QED
  BY <1>1, <1>2, <1>3, <1>4 DEF Next, CallStep

(* The Match Durable Object implements MatchArbiter: as long as only KV, the *)
(* Agent and the hub fail, a match is decided for one of its players or      *)
(* aborted, once, before anyone is told, and every answer, announcement and  *)
(* state shown is that verdict.                                              *)
THEOREM MatchImplementsArbiter == Reliable => (Spec => ImplementsArbiter)
<1> SUFFICES ASSUME Reliable
             PROVE  Spec => ImplementsArbiter
  OBVIOUS
<1>1. KeptInv /\ [Next]_vars => [Arbiter!Next]_<<Verdict, told>>
  BY NextMaps
<1>2. Spec => []KeptInv
  BY KeptHolds
<1> QED
  BY InitMaps, <1>1, <1>2, PTL DEF Spec, ImplementsArbiter, Arbiter!Spec
=============================================================================
