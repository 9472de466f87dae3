---------------------------- MODULE SignInProofs ----------------------------
(***************************************************************************)
(* Theorems about module SignIn: any number of tabs, any accounts, sign-ins *)
(* and failures.                                                            *)
(***************************************************************************)
EXTENDS SignIn, TLAPS

(* What a tab is told of its session is true when it shows it; a page that  *)
(* is being loaded shows nothing.                                           *)
StatusInv ==
  /\ StatusIsTrue
  /\ \A t \in Tabs : tab[t].pc \in {"me", "answered", "microsoft"} => tab[t].status = "loading"
  /\ \A t \in Tabs : tab[t].pc = "answered" => tab[t].user \in users \cup {None}
  /\ \A t \in Tabs \ unsure : tab[t].pc = "answered" => tab[t].user = session

(* The state of a sign-in that is at Microsoft is in the cookie or has been *)
(* taken from it, and no two tabs have the same sign-in.                    *)
StateInv ==
  /\ MismatchHasACause
  /\ \A t \in Tabs :
       /\ tab[t].n <= begun
       /\ tab[t].pc \in {"start", "microsoft"} => tab[t].n # 0
       /\ tab[t].pc = "microsoft" => tab[t].n \in {oauth} \cup displaced
  /\ \A t, u \in Tabs : t # u /\ tab[t].n = tab[u].n => tab[t].n = 0

SignInInv == TypeOK /\ StatusInv /\ StateInv

-----------------------------------------------------------------------------
LEMMA InitHolds == Init => SignInInv
BY SignInAssumption
   DEF Init, SignInInv, TypeOK, Pages, StatusInv, StatusIsTrue, StateInv, MismatchHasACause, Loading

-----------------------------------------------------------------------------
(* Pages: every action changes the page of one tab at most.                 *)

Turns(t, pc, status, user, n, error) ==
  /\ tab' \in [Tabs -> Pages]
  /\ \A u \in Tabs \ {t} : tab'[u] = tab[u]
  /\ tab'[t].pc = pc /\ tab'[t].status = status /\ tab'[t].user = user
  /\ tab'[t].n = n /\ tab'[t].error = error

PCs == {"me", "answered", "page", "logout", "start", "microsoft", "redirect", "chain", "verified", "stored"}
Errors == {"none", "failed", "mismatch", "refused", "ineligible"}

LEMMA PageTyped ==
  ASSUME TypeOK, NEW t \in Tabs
  PROVE  /\ tab[t] \in Pages
         /\ tab[t].pc \in PCs /\ tab[t].status \in {"loading", "anonymous", "authenticated"}
         /\ tab[t].user \in Accounts \cup {None} /\ tab[t].n \in 0..MaxSignIns /\ tab[t].error \in Errors
BY DEF TypeOK, Pages, PCs, Errors

LEMMA GoesTurns ==
  ASSUME TypeOK, NEW t \in Tabs, NEW pc \in PCs, Goes(t, pc)
  PROVE  Turns(t, pc, tab[t].status, tab[t].user, tab[t].n, tab[t].error)
<1>1. tab \in [Tabs -> Pages]
  BY DEF TypeOK
<1>2. tab' = [tab EXCEPT ![t] = [tab[t] EXCEPT !.pc = pc]]
  BY DEF Goes
<1>3. [tab[t] EXCEPT !.pc = pc] \in Pages
  BY PageTyped DEF Pages, PCs
<1> QED
  BY <1>1, <1>2, <1>3, PageTyped DEF Turns, Pages

LEMMA LoadTurns ==
  ASSUME TypeOK, NEW t \in Tabs, NEW n \in 0..MaxSignIns, NEW error \in Errors, Load(t, n, error)
  PROVE  Turns(t, "me", "loading", None, n, error)
<1>1. tab \in [Tabs -> Pages]
  BY DEF TypeOK
<1>3. [pc |-> "me", status |-> "loading", user |-> None, n |-> n, error |-> error] \in Pages
  BY DEF Pages, Errors
<1>4. tab' = [tab EXCEPT ![t] = [pc |-> "me", status |-> "loading", user |-> None,
                                 n |-> n, error |-> error]]
  BY DEF Load, Loading
<1> QED
  BY <1>1, <1>3, <1>4 DEF Turns

LEMMA SettleTurns ==
  ASSUME TypeOK, NEW t \in Tabs, NEW user \in Accounts \cup {None}, Settle(t, user)
  PROVE  Turns(t, "page", IF user = None THEN "anonymous" ELSE "authenticated", user,
               tab[t].n, tab[t].error)
<1> DEFINE s == IF user = None THEN "anonymous" ELSE "authenticated"
<1>1. tab \in [Tabs -> Pages] /\ s \in {"anonymous", "authenticated"}
  BY DEF TypeOK
<1>2. tab' = [tab EXCEPT ![t] = [tab[t] EXCEPT !.pc = "page", !.user = user, !.status = s]]
  BY DEF Settle
<1>3. [tab[t] EXCEPT !.pc = "page", !.user = user, !.status = s] \in Pages
  BY <1>1, PageTyped DEF Pages
<1> QED
  BY <1>1, <1>2, <1>3, PageTyped DEF Turns, Pages

LEMMA RedirectTurns ==
  ASSUME TypeOK, NEW t \in Tabs, NEW error \in Errors, Redirecting(t, error)
  PROVE  Turns(t, "redirect", tab[t].status, tab[t].user, tab[t].n, error)
<1>1. tab \in [Tabs -> Pages]
  BY DEF TypeOK
<1>2. tab' = [tab EXCEPT ![t] = [tab[t] EXCEPT !.pc = "redirect", !.error = error]]
  BY DEF Redirecting
<1>3. [tab[t] EXCEPT !.pc = "redirect", !.error = error] \in Pages
  BY PageTyped DEF Pages, Errors
<1> QED
  BY <1>1, <1>2, <1>3, PageTyped DEF Turns, Pages

-----------------------------------------------------------------------------
(* What a step has to leave in order, for the pages it does not turn (what  *)
(* they rest on) and for the one it turns.                                  *)

Rest(t) ==
  /\ users \subseteq users' /\ users' \subseteq Owners
  /\ session' \in users' \cup {None}
  /\ begun' \in 0..MaxSignIns /\ begun <= begun' /\ fails' \in 0..MaxFails
  /\ oauth' \in 0..begun' /\ displaced \subseteq displaced' /\ displaced' \subseteq 1..begun'
  /\ oauth \in {0, oauth', tab[t].n} \cup displaced'
  /\ unsure' \subseteq Tabs
  /\ \A u \in Tabs \ {t} : u \notin unsure' => u \notin unsure /\ (session' = session \/ ~Knows(u))

LEMMA OthersKept ==
  ASSUME SignInInv, NEW t \in Tabs, NEW u \in Tabs, u # t, tab'[u] = tab[u], Rest(t)
  PROVE  /\ tab'[u].pc = "verified" => tab'[u].user \in Owners
         /\ tab'[u].pc = "stored" \/ tab'[u].status = "authenticated" => tab'[u].user \in users'
         /\ u \notin unsure' => /\ tab'[u].status = "authenticated" => session' = tab'[u].user
                                /\ tab'[u].status = "anonymous" => session' = None
         /\ tab'[u].pc \in {"me", "answered", "microsoft"} => tab'[u].status = "loading"
         /\ tab'[u].pc = "answered" => tab'[u].user \in users' \cup {None}
         /\ u \notin unsure' /\ tab'[u].pc = "answered" => tab'[u].user = session'
         /\ tab'[u].error = "mismatch" => tab'[u].n \in displaced'
         /\ tab'[u].n <= begun'
         /\ tab'[u].pc \in {"start", "microsoft"} => tab'[u].n # 0
         /\ tab'[u].pc = "microsoft" => tab'[u].n \in {oauth'} \cup displaced'
<1>1. TypeOK /\ StatusInv /\ StateInv
  BY DEF SignInInv
<1>2. /\ tab[u].pc = "verified" => tab[u].user \in Owners
      /\ tab[u].pc = "stored" \/ tab[u].status = "authenticated" => tab[u].user \in users
  BY <1>1 DEF TypeOK
<1>3. u \notin unsure => /\ tab[u].status = "authenticated" => session = tab[u].user
                         /\ tab[u].status = "anonymous" => session = None
                         /\ tab[u].pc = "answered" => tab[u].user = session
  BY <1>1 DEF StatusInv, StatusIsTrue
<1>4. /\ tab[u].pc \in {"me", "answered", "microsoft"} => tab[u].status = "loading"
      /\ tab[u].pc = "answered" => tab[u].user \in users \cup {None}
  BY <1>1 DEF StatusInv
<1>5. /\ tab[u].error = "mismatch" => tab[u].n \in displaced
      /\ tab[u].n <= begun
      /\ tab[u].pc \in {"start", "microsoft"} => tab[u].n # 0
      /\ tab[u].pc = "microsoft" => tab[u].n \in {oauth} \cup displaced
      /\ tab[u].n = tab[t].n => tab[u].n = 0
  BY <1>1 DEF StateInv, MismatchHasACause
<1>6. tab[u].n \in Nat /\ begun \in Nat /\ begun' \in Nat
  BY <1>1, PageTyped, SignInAssumption DEF TypeOK, Rest
<1>7. u \notin unsure' => u \notin unsure /\ (session' = session \/ (tab[u].pc # "answered" /\ tab[u].status = "loading"))
  BY DEF Rest, Knows
<1>8. users \subseteq users' /\ displaced \subseteq displaced' /\ begun <= begun'
      /\ oauth \in {0, oauth', tab[t].n} \cup displaced'
  BY DEF Rest
<1> QED
  BY <1>2, <1>3, <1>4, <1>5, <1>6, <1>7, <1>8

LEMMA TurnKeeps ==
  ASSUME SignInInv, NEW t \in Tabs, NEW pc, NEW status, NEW user, NEW n, NEW error,
         Turns(t, pc, status, user, n, error), Rest(t),
         pc = "verified" => user \in Owners,
         pc = "stored" \/ status = "authenticated" => user \in users',
         t \notin unsure' => /\ status = "authenticated" => session' = user
                             /\ status = "anonymous" => session' = None
                             /\ pc = "answered" => user = session',
         pc \in {"me", "answered", "microsoft"} => status = "loading",
         pc = "answered" => user \in users' \cup {None},
         error = "mismatch" => n \in displaced',
         n \in {0, tab[t].n, begun'},
         n \in {0, tab[t].n} \/ begun' = begun + 1,
         pc \in {"start", "microsoft"} => n # 0,
         pc = "microsoft" => n \in {oauth'} \cup displaced'
  PROVE  SignInInv'
<1>1. \A u \in Tabs \ {t} : tab'[u] = tab[u]
  BY DEF Turns
<1>2. tab'[t].pc = pc /\ tab'[t].status = status /\ tab'[t].user = user
      /\ tab'[t].n = n /\ tab'[t].error = error
  BY DEF Turns
<1>3. \A u \in Tabs : tab[u].n \in Nat /\ tab[u].n <= begun /\ begun \in Nat /\ begun' \in Nat
                      /\ begun <= begun'
  BY PageTyped, SignInAssumption DEF SignInInv, TypeOK, StateInv, Rest
<1>4. TypeOK'
  <2>1. tab' \in [Tabs -> Pages]
    BY DEF Turns
  <2>2. \A u \in Tabs :
          /\ tab'[u].pc = "verified" => tab'[u].user \in Owners
          /\ tab'[u].pc = "stored" \/ tab'[u].status = "authenticated" => tab'[u].user \in users'
    BY <1>1, <1>2, OthersKept
  <2> QED
    BY <2>1, <2>2 DEF TypeOK, Rest
<1>5. StatusInv'
  <2>1. \A u \in Tabs :
         /\ u \notin unsure' => /\ tab'[u].status = "authenticated" => session' = tab'[u].user
                                /\ tab'[u].status = "anonymous" => session' = None
                                /\ tab'[u].pc = "answered" => tab'[u].user = session'
         /\ tab'[u].pc \in {"me", "answered", "microsoft"} => tab'[u].status = "loading"
         /\ tab'[u].pc = "answered" => tab'[u].user \in users' \cup {None}
    <3> TAKE u \in Tabs
    <3>1. CASE u = t
      BY <3>1, <1>2
    <3>2. CASE u # t
      BY <3>2, <1>1, OthersKept
    <3> QED
      BY <3>1, <3>2
  <2> QED
    BY <2>1 DEF StatusInv, StatusIsTrue
<1>6. StateInv'
  <2>1. \A u \in Tabs :
         /\ tab'[u].error = "mismatch" => tab'[u].n \in displaced'
         /\ tab'[u].n <= begun'
         /\ tab'[u].pc \in {"start", "microsoft"} => tab'[u].n # 0
         /\ tab'[u].pc = "microsoft" => tab'[u].n \in {oauth'} \cup displaced'
    <3> TAKE u \in Tabs
    <3>1. CASE u = t
      BY <3>1, <1>2, <1>3
    <3>2. CASE u # t
      BY <3>2, <1>1, OthersKept
    <3> QED
      BY <3>1, <3>2
  <2>2. \A u \in Tabs \ {t} : n = tab[u].n => n = 0
    <3> TAKE u \in Tabs \ {t}
    <3>1. tab[u].n = tab[t].n => tab[u].n = 0
      BY DEF SignInInv, StateInv
    <3>2. tab[u].n <= begun /\ begun \in Nat /\ tab[u].n \in Nat
      BY <1>3
    <3> QED
      BY <3>1, <3>2
  <2>3. \A u, w \in Tabs : u # w /\ tab'[u].n = tab'[w].n => tab'[u].n = 0
    <3> TAKE u, w \in Tabs
    <3>1. u # w /\ tab[u].n = tab[w].n => tab[u].n = 0
      BY DEF SignInInv, StateInv
    <3> QED
      BY <3>1, <2>2, <1>1, <1>2
  <2> QED
    BY <2>1, <2>3 DEF StateInv, MismatchHasACause
<1> QED
  BY <1>4, <1>5, <1>6 DEF SignInInv

-----------------------------------------------------------------------------
(* The steps *)

(* What the invariant says of one page. *)
LEMMA PageSound ==
  ASSUME SignInInv, NEW t \in Tabs
  PROVE  /\ tab[t].pc = "verified" => tab[t].user \in Owners
         /\ tab[t].pc = "stored" \/ tab[t].status = "authenticated" => tab[t].user \in users
         /\ t \notin unsure => /\ tab[t].status = "authenticated" => session = tab[t].user
                               /\ tab[t].status = "anonymous" => session = None
                               /\ tab[t].pc = "answered" => tab[t].user = session
         /\ tab[t].pc \in {"me", "answered", "microsoft"} => tab[t].status = "loading"
         /\ tab[t].pc = "answered" => tab[t].user \in users \cup {None}
         /\ tab[t].error = "mismatch" => tab[t].n \in displaced
         /\ tab[t].pc \in {"start", "microsoft"} => tab[t].n # 0
         /\ tab[t].pc = "microsoft" => tab[t].n \in {oauth} \cup displaced
         /\ tab[t].n \in 0..begun
         /\ tab[t].user \in Accounts \cup {None} /\ None \notin users
<1>1. TypeOK /\ StatusInv /\ StateInv
  BY DEF SignInInv
<1>2. tab[t].n \in Nat /\ begun \in Nat /\ tab[t].n <= begun
  BY <1>1, PageTyped, SignInAssumption DEF TypeOK, StateInv
<1>3. None \notin users
  BY <1>1, SignInAssumption DEF TypeOK
<1> QED
  BY <1>1, <1>2, <1>3, PageTyped DEF TypeOK, StatusInv, StatusIsTrue, StateInv, MismatchHasACause

(* The rest of the state as the invariant has it. *)
LEMMA RestSound ==
  ASSUME SignInInv
  PROVE  /\ users \subseteq Owners /\ session \in users \cup {None}
         /\ begun \in 0..MaxSignIns /\ fails \in 0..MaxFails /\ begun \in Nat /\ fails \in Nat
         /\ MaxSignIns \in Nat /\ MaxFails \in Nat
         /\ oauth \in 0..begun /\ displaced \subseteq 1..begun /\ unsure \subseteq Tabs
BY SignInAssumption DEF SignInInv, TypeOK

(* The counters of a step that begins no sign-in, and may fail. *)
LEMMA FailCounts ==
  ASSUME SignInInv, Fail
  PROVE  fails' \in 0..MaxFails
BY RestSound DEF Fail

(* A session is set or cleared: the tabs that have heard of another are told nothing. *)
LEMMA SessionSet ==
  ASSUME SignInInv, NEW t \in Tabs, NEW user, SetSession(t, user)
  PROVE  /\ session' = user /\ t \notin unsure'
         /\ unsure' \subseteq Tabs
         /\ \A u \in Tabs \ {t} : u \notin unsure' => u \notin unsure /\ (session' = session \/ ~Knows(u))
BY RestSound DEF SetSession

(* What the cookie held is in it still, or another sign-in has displaced it. *)
LEMMA StateSet ==
  ASSUME SignInInv, NEW t \in Tabs, NEW n \in 0..begun, SetState(t, n)
  PROVE  /\ oauth' = n /\ oauth' \in 0..begun
         /\ displaced \subseteq displaced' /\ displaced' \subseteq 1..begun
         /\ oauth \in {0, oauth', tab[t].n} \cup displaced'
BY RestSound DEF SetState

LEMMA MeServedKeeps ==
  ASSUME SignInInv, NEW t \in Tabs, MeServed(t)
  PROVE  SignInInv'
<1>1. TypeOK
  BY DEF SignInInv
<1>2. CurrentUser \in users \cup {None} /\ CurrentUser = session
  BY RestSound DEF CurrentUser
<1>3. tab' = [tab EXCEPT ![t] = [tab[t] EXCEPT !.pc = "answered", !.user = session]]
  BY <1>2 DEF MeServed
<1>4. [tab[t] EXCEPT !.pc = "answered", !.user = session] \in Pages
  BY <1>1, <1>2, PageTyped, RestSound, SignInAssumption DEF Pages
<1>5. Turns(t, "answered", tab[t].status, session, tab[t].n, tab[t].error)
  BY <1>1, <1>3, <1>4, PageTyped DEF Turns, Pages, TypeOK
<1>6. Rest(t)
  BY RestSound DEF MeServed, Rest, bounds
<1>7. tab[t].status = "loading" /\ session' = session /\ users' = users /\ oauth' = oauth
      /\ displaced' = displaced
  BY PageSound DEF MeServed
<1> QED
  BY <1>2, <1>5, <1>6, <1>7, PageSound, TurnKeeps, RestSound

LEMMA MeAnsweredKeeps ==
  ASSUME SignInInv, NEW t \in Tabs, MeAnswered(t)
  PROVE  SignInInv'
<1>1. TypeOK /\ tab[t].user \in Accounts \cup {None}
  BY PageSound DEF SignInInv
<1>2. Turns(t, "page", IF tab[t].user = None THEN "anonymous" ELSE "authenticated", tab[t].user,
            tab[t].n, tab[t].error)
  BY <1>1, SettleTurns DEF MeAnswered
<1>3. Rest(t)
  BY RestSound DEF MeAnswered, Rest, bounds
<1>4. /\ session' = session /\ users' = users /\ oauth' = oauth /\ displaced' = displaced
      /\ unsure' = unsure
  BY DEF MeAnswered
<1>5. tab[t].user \in users \cup {None} /\ (t \notin unsure => tab[t].user = session)
  BY PageSound DEF MeAnswered
<1> QED
  BY <1>2, <1>3, <1>4, <1>5, PageSound, TurnKeeps

LEMMA MeFailsKeeps ==
  ASSUME SignInInv, NEW t \in Tabs, MeFails(t)
  PROVE  SignInInv'
<1>1. TypeOK
  BY DEF SignInInv
<1>2. Turns(t, "page", "anonymous", None, tab[t].n, tab[t].error)
  BY <1>1, SettleTurns DEF MeFails
<1>3. fails' \in 0..MaxFails
  BY FailCounts DEF MeFails
<1>4. Rest(t)
  BY <1>3, RestSound DEF MeFails, Rest
<1>5. users' = users /\ oauth' = oauth /\ displaced' = displaced /\ t \in unsure'
  BY DEF MeFails
<1> QED
  BY <1>2, <1>4, <1>5, PageSound, TurnKeeps

LEMMA LogoutKeeps ==
  ASSUME SignInInv, NEW t \in Tabs, Logout(t)
  PROVE  SignInInv'
<1>1. TypeOK
  BY DEF SignInInv
<1>2. Turns(t, "logout", tab[t].status, tab[t].user, tab[t].n, tab[t].error)
  BY <1>1, GoesTurns DEF Logout, PCs
<1>4. Rest(t)
  BY RestSound DEF Logout, Rest, bounds
<1>5. /\ session' = session /\ users' = users /\ oauth' = oauth /\ displaced' = displaced
      /\ unsure' = unsure
  BY DEF Logout, bounds
<1> QED
  BY <1>2, <1>4, <1>5, PageSound, TurnKeeps DEF Logout

LEMMA LogoutAnsweredKeeps ==
  ASSUME SignInInv, NEW t \in Tabs, LogoutAnswered(t)
  PROVE  SignInInv'
<1>1. TypeOK
  BY DEF SignInInv
<1>2. Turns(t, "page", "anonymous", None, tab[t].n, tab[t].error)
  BY <1>1, SettleTurns DEF LogoutAnswered
<1>3. SetSession(t, None)
  BY DEF LogoutAnswered
<1>4. Rest(t)
  BY <1>3, SessionSet, RestSound DEF LogoutAnswered, Rest, bounds
<1>5. session' = None /\ users' = users /\ oauth' = oauth /\ displaced' = displaced
  BY <1>3, SessionSet DEF LogoutAnswered
<1> QED
  BY <1>2, <1>4, <1>5, PageSound, TurnKeeps

LEMMA LogoutFailsKeeps ==
  ASSUME SignInInv, NEW t \in Tabs, LogoutFails(t)
  PROVE  SignInInv'
<1>1. TypeOK
  BY DEF SignInInv
<1>2. Turns(t, "page", tab[t].status, tab[t].user, tab[t].n, tab[t].error)
  BY <1>1, GoesTurns DEF LogoutFails, PCs
<1>3. fails' \in 0..MaxFails
  BY FailCounts DEF LogoutFails
<1>4. Rest(t)
  BY <1>3, RestSound DEF LogoutFails, Rest
<1>5. /\ session' = session /\ users' = users /\ oauth' = oauth /\ displaced' = displaced
      /\ unsure' = unsure
  BY DEF LogoutFails, bounds
<1> QED
  BY <1>2, <1>4, <1>5, PageSound, TurnKeeps DEF LogoutFails

LEMMA BeginKeeps ==
  ASSUME SignInInv, NEW t \in Tabs, Begin(t)
  PROVE  SignInInv'
<1>1. TypeOK
  BY DEF SignInInv
<1>2. begun' = begun + 1 /\ begun' \in 0..MaxSignIns
  BY RestSound DEF Begin
<1>3. tab' = [tab EXCEPT ![t] = [tab[t] EXCEPT !.pc = "start", !.n = begun', !.error = "none"]]
  BY DEF Begin
<1>4. [tab[t] EXCEPT !.pc = "start", !.n = begun', !.error = "none"] \in Pages
  BY <1>1, <1>2, PageTyped DEF Pages
<1>5. Turns(t, "start", tab[t].status, tab[t].user, begun', "none")
  BY <1>1, <1>3, <1>4, PageTyped DEF Turns, Pages, TypeOK
<1>6. Rest(t)
  BY <1>2, RestSound DEF Begin, Rest
<1>7. /\ session' = session /\ users' = users /\ oauth' = oauth /\ displaced' = displaced
      /\ unsure' = unsure
  BY DEF Begin
<1>8. begun' # 0
  BY <1>2, RestSound
<1> QED
  BY <1>2, <1>5, <1>6, <1>7, <1>8, PageSound, TurnKeeps DEF Begin

LEMMA StartAnsweredKeeps ==
  ASSUME SignInInv, NEW t \in Tabs, StartAnswered(t)
  PROVE  SignInInv'
<1>1. TypeOK /\ tab[t].n \in 0..begun /\ tab[t].n # 0
  BY PageSound DEF SignInInv, StartAnswered
<1>2. tab' = [tab EXCEPT ![t] = [pc |-> "microsoft", status |-> "loading", user |-> None,
                                 n |-> tab[t].n, error |-> "none"]]
  BY DEF StartAnswered, Loading
<1>3. Turns(t, "microsoft", "loading", None, tab[t].n, "none")
  BY <1>1, <1>2, PageTyped DEF Turns, Pages, TypeOK
<1>4. SetState(t, tab[t].n)
  BY DEF StartAnswered
<1>5. Rest(t)
  BY <1>1, <1>4, StateSet, RestSound DEF StartAnswered, Rest, bounds
<1>6. /\ session' = session /\ users' = users /\ oauth' = tab[t].n
      /\ unsure' = unsure
  BY <1>1, <1>4, StateSet DEF StartAnswered
<1> QED
  BY <1>1, <1>3, <1>5, <1>6, PageSound, TurnKeeps

LEMMA StartFailsKeeps ==
  ASSUME SignInInv, NEW t \in Tabs, StartFails(t)
  PROVE  SignInInv'
<1>1. TypeOK
  BY DEF SignInInv
<1>2. tab' = [tab EXCEPT ![t] = [tab[t] EXCEPT !.pc = "page", !.error = "failed"]]
  BY DEF StartFails
<1>3. [tab[t] EXCEPT !.pc = "page", !.error = "failed"] \in Pages
  BY <1>1, PageTyped DEF Pages
<1>4. Turns(t, "page", tab[t].status, tab[t].user, tab[t].n, "failed")
  BY <1>1, <1>2, <1>3, PageTyped DEF Turns, Pages, TypeOK
<1>5. fails' \in 0..MaxFails
  BY FailCounts DEF StartFails
<1>6. Rest(t)
  BY <1>5, RestSound DEF StartFails, Rest
<1>7. /\ session' = session /\ users' = users /\ oauth' = oauth /\ displaced' = displaced
      /\ unsure' = unsure
  BY DEF StartFails
<1> QED
  BY <1>4, <1>6, <1>7, PageSound, TurnKeeps

(* A page at Microsoft shows nobody. *)
LEMMA AtMicrosoft ==
  ASSUME SignInInv, NEW t \in Tabs, tab[t].pc = "microsoft"
  PROVE  tab[t].status = "loading"
BY DEF SignInInv, StatusInv

LEMMA ReturnKeeps ==
  ASSUME SignInInv, NEW t \in Tabs, NEW user \in Accounts, Return(t, user)
  PROVE  SignInInv'
<1>1. TypeOK /\ tab[t].pc = "microsoft"
  BY DEF SignInInv, Return
<1>2. Rest(t)
  BY RestSound DEF Return, Rest, bounds
<1>3. /\ session' = session /\ users' = users /\ oauth' = oauth /\ displaced' = displaced
      /\ unsure' = unsure
  BY DEF Return
<1>4. CASE oauth = tab[t].n
  <2>1. tab' = [tab EXCEPT ![t] = [tab[t] EXCEPT !.pc = "chain", !.user = user]]
    BY <1>4 DEF Return
  <2>2. [tab[t] EXCEPT !.pc = "chain", !.user = user] \in Pages
    BY <1>1, PageTyped DEF Pages
  <2>3. Turns(t, "chain", tab[t].status, user, tab[t].n, tab[t].error)
    BY <1>1, <2>1, <2>2, PageTyped DEF Turns, Pages, TypeOK
  <2>4. tab[t].status # "authenticated"
    BY <1>1, AtMicrosoft
  <2> QED
    BY <2>3, <2>4, <1>2, <1>3, PageSound, TurnKeeps
<1>5. CASE oauth # tab[t].n
  <2>1. Turns(t, "redirect", tab[t].status, tab[t].user, tab[t].n, "mismatch")
    BY <1>1, <1>5, RedirectTurns DEF Return, Errors
  <2>2. tab[t].n \in displaced
    BY <1>1, <1>5, PageSound
  <2> QED
    BY <2>1, <2>2, <1>2, <1>3, PageSound, TurnKeeps
<1> QED
  BY <1>4, <1>5

LEMMA RefuseKeeps ==
  ASSUME SignInInv, NEW t \in Tabs, Refuse(t)
  PROVE  SignInInv'
<1>1. TypeOK
  BY DEF SignInInv
<1>2. Turns(t, "redirect", tab[t].status, tab[t].user, tab[t].n, "refused")
  BY <1>1, RedirectTurns DEF Refuse, Errors
<1>4. Rest(t)
  BY RestSound DEF Refuse, Rest, bounds
<1>5. /\ session' = session /\ users' = users /\ oauth' = oauth /\ displaced' = displaced
      /\ unsure' = unsure
  BY DEF Refuse, bounds
<1> QED
  BY <1>2, <1>4, <1>5, PageSound, TurnKeeps DEF Refuse

LEMMA AbandonKeeps ==
  ASSUME SignInInv, NEW t \in Tabs, Abandon(t)
  PROVE  SignInInv'
<1>1. TypeOK /\ 0 \in 0..MaxSignIns
  BY RestSound DEF SignInInv
<1>2. Turns(t, "me", "loading", None, 0, "none")
  BY <1>1, LoadTurns DEF Abandon, Errors
<1>3. fails' \in 0..MaxFails
  BY RestSound, FailCounts DEF Abandon
<1>4. Rest(t)
  BY <1>3, RestSound DEF Abandon, Rest
<1>5. /\ session' = session /\ users' = users /\ oauth' = oauth /\ displaced' = displaced
      /\ unsure' = unsure
  BY DEF Abandon
<1> QED
  BY <1>2, <1>4, <1>5, PageSound, TurnKeeps

LEMMA VerifiedKeeps ==
  ASSUME SignInInv, NEW t \in Tabs, Verified(t)
  PROVE  SignInInv'
<1>1. TypeOK
  BY DEF SignInInv
<1>2. Turns(t, "verified", tab[t].status, tab[t].user, tab[t].n, tab[t].error)
  BY <1>1, GoesTurns DEF Verified, PCs
<1>4. Rest(t)
  BY RestSound DEF Verified, Rest, bounds
<1>5. /\ session' = session /\ users' = users /\ oauth' = oauth /\ displaced' = displaced
      /\ unsure' = unsure
  BY DEF Verified, bounds
<1> QED
  BY <1>2, <1>4, <1>5, PageSound, TurnKeeps DEF Verified

LEMMA IneligibleKeeps ==
  ASSUME SignInInv, NEW t \in Tabs, Ineligible(t)
  PROVE  SignInInv'
<1>1. TypeOK
  BY DEF SignInInv
<1>2. Turns(t, "redirect", tab[t].status, tab[t].user, tab[t].n, "ineligible")
  BY <1>1, RedirectTurns DEF Ineligible, Errors
<1>4. Rest(t)
  BY RestSound DEF Ineligible, Rest, bounds
<1>5. /\ session' = session /\ users' = users /\ oauth' = oauth /\ displaced' = displaced
      /\ unsure' = unsure
  BY DEF Ineligible, bounds
<1> QED
  BY <1>2, <1>4, <1>5, PageSound, TurnKeeps DEF Ineligible

LEMMA ChainFailsKeeps ==
  ASSUME SignInInv, NEW t \in Tabs, ChainFails(t)
  PROVE  SignInInv'
<1>1. TypeOK
  BY DEF SignInInv
<1>2. Turns(t, "redirect", tab[t].status, tab[t].user, tab[t].n, "failed")
  BY <1>1, RedirectTurns DEF ChainFails, Errors
<1>3. fails' \in 0..MaxFails
  BY FailCounts DEF ChainFails
<1>4. Rest(t)
  BY <1>3, RestSound DEF ChainFails, Rest
<1>5. /\ session' = session /\ users' = users /\ oauth' = oauth /\ displaced' = displaced
      /\ unsure' = unsure
  BY DEF ChainFails, bounds
<1> QED
  BY <1>2, <1>4, <1>5, PageSound, TurnKeeps DEF ChainFails

LEMMA UpsertKeeps ==
  ASSUME SignInInv, NEW t \in Tabs, Upsert(t)
  PROVE  SignInInv'
<1>1. TypeOK /\ tab[t].user \in Owners
  BY PageSound DEF SignInInv, Upsert
<1>2. Turns(t, "stored", tab[t].status, tab[t].user, tab[t].n, tab[t].error)
  BY <1>1, GoesTurns DEF Upsert, PCs
<1>3. users' \subseteq Owners /\ users \subseteq users' /\ tab[t].user \in users'
  BY <1>1, RestSound DEF Upsert
<1>4. fails' \in 0..MaxFails
  BY RestSound, FailCounts DEF Upsert, bounds
<1>5. Rest(t)
  BY <1>3, <1>4, RestSound DEF Upsert, Rest, bounds
<1>6. session' = session /\ oauth' = oauth /\ displaced' = displaced /\ unsure' = unsure
  BY DEF Upsert
<1> QED
  BY <1>2, <1>3, <1>5, <1>6, PageSound, TurnKeeps DEF Upsert

LEMMA UpsertFailsKeeps ==
  ASSUME SignInInv, NEW t \in Tabs, UpsertFails(t)
  PROVE  SignInInv'
<1>1. TypeOK /\ tab[t].user \in Owners
  BY PageSound DEF SignInInv, UpsertFails
<1>2. Turns(t, "redirect", tab[t].status, tab[t].user, tab[t].n, "failed")
  BY <1>1, RedirectTurns DEF UpsertFails, Errors
<1>3. users' \subseteq Owners /\ users \subseteq users'
  BY <1>1, RestSound DEF UpsertFails
<1>4. fails' \in 0..MaxFails
  BY RestSound, FailCounts DEF UpsertFails, bounds
<1>5. Rest(t)
  BY <1>3, <1>4, RestSound DEF UpsertFails, Rest, bounds
<1>6. session' = session /\ oauth' = oauth /\ displaced' = displaced /\ unsure' = unsure
  BY DEF UpsertFails
<1> QED
  BY <1>2, <1>3, <1>5, <1>6, PageSound, TurnKeeps DEF UpsertFails

LEMMA FinishKeeps ==
  ASSUME SignInInv, NEW t \in Tabs, Finish(t)
  PROVE  SignInInv'
<1>1. TypeOK /\ tab[t].user \in users /\ 0 \in 0..begun /\ 0 \in 0..MaxSignIns
  BY PageSound, RestSound DEF SignInInv, Finish
<1>2. Turns(t, "me", "loading", None, 0, "none")
  BY <1>1, LoadTurns DEF Finish, Errors
<1>3. SetSession(t, tab[t].user) /\ SetState(t, 0)
  BY DEF Finish
<1>4. Rest(t)
  BY <1>1, <1>3, SessionSet, StateSet, RestSound DEF Finish, Rest, bounds
<1> QED
  BY <1>2, <1>4, PageSound, TurnKeeps

LEMMA RedirectedKeeps ==
  ASSUME SignInInv, NEW t \in Tabs, Redirected(t)
  PROVE  SignInInv'
<1>1. TypeOK /\ 0 \in 0..begun /\ tab[t].n \in 0..MaxSignIns /\ tab[t].error \in Errors
  BY PageTyped, RestSound DEF SignInInv
<1>2. Turns(t, "me", "loading", None, tab[t].n, tab[t].error)
  BY <1>1, LoadTurns DEF Redirected
<1>3. SetState(t, 0)
  BY DEF Redirected
<1>4. /\ session' \in users \cup {None} /\ unsure' \subseteq Tabs
      /\ \A u \in Tabs \ {t} : u \notin unsure' => u \notin unsure /\ (session' = session \/ ~Knows(u))
  <2>1. CASE tab[t].error = "ineligible"
    BY <2>1, SessionSet DEF Redirected
  <2>2. CASE tab[t].error # "ineligible"
    BY <2>2, RestSound DEF Redirected
  <2> QED
    BY <2>1, <2>2
<1>5. Rest(t)
  BY <1>1, <1>3, <1>4, StateSet, RestSound DEF Redirected, Rest, bounds
<1>6. displaced \subseteq displaced'
  BY <1>1, <1>3, StateSet
<1> QED
  BY <1>2, <1>5, <1>6, PageSound, TurnKeeps

(* Time passes: no page turns. *)
LEMMA TimeKeeps ==
  ASSUME SignInInv, StateExpires \/ SessionExpires
  PROVE  SignInInv'
<1>1. tab' = tab /\ users' = users /\ begun' = begun
  BY DEF StateExpires, SessionExpires
<1>2. fails' \in 0..MaxFails
  BY FailCounts DEF StateExpires, SessionExpires
<1>3. CASE StateExpires
  <2>1. session' = session /\ unsure' = unsure /\ oauth' = 0 /\ displaced' = displaced \cup {oauth}
    BY <1>3 DEF StateExpires
  <2>2. TypeOK'
    BY <1>1, <1>2, <2>1, <1>3, RestSound DEF StateExpires, SignInInv, TypeOK
  <2>3. StatusInv'
    BY <1>1, <2>1 DEF SignInInv, StatusInv, StatusIsTrue
  <2>4. StateInv'
    BY <1>1, <2>1 DEF SignInInv, StateInv, MismatchHasACause
  <2> QED
    BY <2>2, <2>3, <2>4 DEF SignInInv
<1>4. CASE SessionExpires
  <2>1. /\ session' = None /\ unsure' = unsure \cup {t \in Tabs : Knows(t)}
        /\ oauth' = oauth /\ displaced' = displaced
    BY <1>4 DEF SessionExpires
  <2>2. TypeOK'
    BY <1>1, <1>2, <2>1, RestSound DEF SignInInv, TypeOK
  <2>3. StatusInv'
    BY <1>1, <2>1 DEF SignInInv, StatusInv, StatusIsTrue, Knows
  <2>4. StateInv'
    BY <1>1, <2>1 DEF SignInInv, StateInv, MismatchHasACause
  <2> QED
    BY <2>2, <2>3, <2>4 DEF SignInInv
<1> QED
  BY <1>3, <1>4

LEMMA NextKeeps == SignInInv /\ [Next]_vars => SignInInv'
<1> SUFFICES ASSUME SignInInv, [Next]_vars PROVE SignInInv'
  OBVIOUS
<1>1. CASE UNCHANGED vars
  BY <1>1 DEF vars, bounds, SignInInv, TypeOK, StatusInv, StatusIsTrue, StateInv, MismatchHasACause
<1>2. CASE Next
  BY <1>2, TimeKeeps, MeServedKeeps, MeAnsweredKeeps, MeFailsKeeps, LogoutKeeps, LogoutAnsweredKeeps,
     LogoutFailsKeeps, BeginKeeps, StartAnsweredKeeps, StartFailsKeeps, RefuseKeeps, AbandonKeeps,
     ReturnKeeps, VerifiedKeeps, IneligibleKeeps, ChainFailsKeeps, UpsertKeeps, UpsertFailsKeeps,
     FinishKeeps, RedirectedKeeps DEF Next
<1> QED
  BY <1>1, <1>2

-----------------------------------------------------------------------------
THEOREM Invariance == Spec => []SignInInv
<1>1. Init => SignInInv
  BY InitHolds
<1>2. SignInInv /\ [Next]_vars => SignInInv'
  BY NextKeeps
<1> QED
  BY <1>1, <1>2, PTL DEF Spec

(* Only accounts that own the game are stored, and the session cookie is    *)
(* never for anyone else (auth.ts:55-74): for any number of tabs.           *)
THEOREM TypeCorrect == Spec => []TypeOK
<1>1. SignInInv => TypeOK
  BY DEF SignInInv
<1> QED
  BY <1>1, Invariance, PTL

(* Whoever a tab shows signed in is whom its requests are made for          *)
(* (lib/auth.tsx against session.ts), until another tab changes the session.*)
THEOREM StatusCorrect == Spec => []StatusIsTrue
<1>1. SignInInv => StatusIsTrue
  BY DEF SignInInv, StatusInv
<1> QED
  BY <1>1, Invariance, PTL

(* auth.ts:46 speaks of an expired or foreign state only when it is one.    *)
THEOREM MismatchCorrect == Spec => []MismatchHasACause
<1>1. SignInInv => MismatchHasACause
  BY DEF SignInInv, StateInv
<1> QED
  BY <1>1, Invariance, PTL
=============================================================================
