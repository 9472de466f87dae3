------------------------------- MODULE SignIn -------------------------------
(***************************************************************************)
(* Accounts: the tabs of one browser sign in with Microsoft and sign out    *)
(* (worker/auth.ts, session.ts, db.ts, lib/auth.tsx).  Every tab believes   *)
(* what GET /api/me answered when its page was loaded; the tabs share the   *)
(* browser's two cookies, the session and the state of a sign-in that is    *)
(* under way.  A request carries the cookies there are when it is sent, a   *)
(* response sets or clears them when it arrives.                            *)
(*                                                                         *)
(* Microsoft, Xbox Live and Minecraft are external: they let a player       *)
(* through with one of the accounts, or do not.                             *)
(***************************************************************************)
EXTENDS Naturals

CONSTANTS
  Tabs,
  Accounts,    \* Minecraft profiles
  Owners,      \* those that own Minecraft: Java Edition
  None,
  MaxSignIns,  \* bound: sign-ins begun; they are numbered
  MaxFails     \* bound: calls that fail, answers and cookies that get lost

ASSUME SignInAssumption ==
  Owners \subseteq Accounts /\ None \notin Accounts /\ {MaxSignIns, MaxFails} \subseteq Nat

VARIABLES
  tab,        \* the page of each tab: its auth context and the request under way
  session,    \* the account the session cookie names
  oauth,      \* the sign-in whose state the OAuth cookie holds, or 0
  users,      \* accounts with a row in D1
  begun, fails,  \* sign-ins and failures so far
  unsure,     \* history: tabs whose session has changed behind them, or was not heard of
  displaced   \* history: sign-ins whose state another tab, or time, took from the cookie

bounds == <<begun, fails>>
vars   == <<tab, session, oauth, users, bounds, unsure, displaced>>

-----------------------------------------------------------------------------
(* A page that shows nobody yet: the request for /api/me is on its way, or   *)
(* the browser is at Microsoft's.                                           *)
Loading(pc, n, error) ==
  [pc |-> pc, status |-> "loading", user |-> None, n |-> n, error |-> error]

Fail == fails < MaxFails /\ fails' = fails + 1

Goes(t, pc) == tab' = [tab EXCEPT ![t].pc = pc]
Load(t, n, error) == tab' = [tab EXCEPT ![t] = Loading("me", n, error)]
Settle(t, user) ==
  tab' = [tab EXCEPT ![t].pc = "page", ![t].user = user,
                     ![t].status = IF user = None THEN "anonymous" ELSE "authenticated"]

(* currentUser: a session counts if D1 has its user.                        *)
CurrentUser == IF session \in users THEN session ELSE None

(* Who has heard of a session. *)
Knows(t) == tab[t].pc = "answered" \/ tab[t].status # "loading"

SetSession(t, user) ==
  /\ session' = user
  /\ unsure' = IF user = session THEN unsure \ {t}
               ELSE {u \in Tabs \ {t} : Knows(u)} \cup (unsure \ {t})

SetState(t, n) ==
  /\ oauth' = n
  /\ displaced' = displaced \cup ({oauth} \ {0, tab[t].n})

-----------------------------------------------------------------------------
(* The auth context *)

MeServed(t) ==
  /\ tab[t].pc = "me"
  /\ tab' = [tab EXCEPT ![t].pc = "answered", ![t].user = CurrentUser]
  /\ unsure' = unsure \ {t}
  /\ UNCHANGED <<session, oauth, users, bounds, displaced>>

MeAnswered(t) ==
  /\ tab[t].pc = "answered"
  /\ Settle(t, tab[t].user)
  /\ UNCHANGED <<session, oauth, users, bounds, unsure, displaced>>

(* No answer, or one that is neither a user nor 401: nobody is signed in.   *)
MeFails(t) ==
  /\ tab[t].pc \in {"me", "answered"}
  /\ Fail
  /\ Settle(t, None)
  /\ unsure' = unsure \cup {t}
  /\ UNCHANGED <<session, oauth, users, begun, displaced>>

Logout(t) ==
  /\ tab[t].pc = "page" /\ tab[t].status = "authenticated"
  /\ Goes(t, "logout")
  /\ UNCHANGED <<session, oauth, users, bounds, unsure, displaced>>

(* Mutant of LogoutAnswered: the page forgets the user, the browser does not. *)
LogoutHere(t) ==
  /\ tab[t].pc = "logout"
  /\ Settle(t, None)
  /\ UNCHANGED <<session, oauth, users, bounds, unsure, displaced>>

LogoutAnswered(t) ==
  /\ tab[t].pc = "logout"
  /\ SetSession(t, None)
  /\ Settle(t, None)
  /\ UNCHANGED <<oauth, users, bounds, displaced>>

LogoutFails(t) ==
  /\ tab[t].pc = "logout"
  /\ Fail
  /\ Goes(t, "page")
  /\ UNCHANGED <<session, oauth, users, begun, unsure, displaced>>

-----------------------------------------------------------------------------
(* To Microsoft and back *)

(* By the button, or by itself when the login page finds nobody signed in.  *)
Begin(t) ==
  /\ tab[t].pc = "page" /\ tab[t].status = "anonymous"
  /\ begun < MaxSignIns
  /\ begun' = begun + 1
  /\ tab' = [tab EXCEPT ![t].pc = "start", ![t].n = begun', ![t].error = "none"]
  /\ UNCHANGED <<session, oauth, users, fails, unsure, displaced>>

(* Mutant of StartAnswered: the state is not put into the cookie. *)
StartWithoutCookie(t) ==
  /\ tab[t].pc = "start"
  /\ tab' = [tab EXCEPT ![t] = Loading("microsoft", tab[t].n, "none")]
  /\ UNCHANGED <<session, oauth, users, bounds, unsure, displaced>>

(* The cookie is set and the browser leaves for the URL in the answer.      *)
StartAnswered(t) ==
  /\ tab[t].pc = "start"
  /\ SetState(t, tab[t].n)
  /\ tab' = [tab EXCEPT ![t] = Loading("microsoft", tab[t].n, "none")]
  /\ UNCHANGED <<session, users, bounds, unsure>>

StartFails(t) ==
  /\ tab[t].pc = "start"
  /\ Fail
  /\ tab' = [tab EXCEPT ![t].pc = "page", ![t].error = "failed"]
  /\ UNCHANGED <<session, oauth, users, begun, unsure, displaced>>

Redirecting(t, error) == tab' = [tab EXCEPT ![t].pc = "redirect", ![t].error = error]

(* The player lets Microsoft send the browser back with a code: the         *)
(* callback goes on if the cookie has the state of the URL.                 *)
Return(t, user) ==
  /\ tab[t].pc = "microsoft"
  /\ IF oauth = tab[t].n
     THEN tab' = [tab EXCEPT ![t].pc = "chain", ![t].user = user]
     ELSE Redirecting(t, "mismatch")
  /\ UNCHANGED <<session, oauth, users, bounds, unsure, displaced>>

Refuse(t) ==
  /\ tab[t].pc = "microsoft"
  /\ Redirecting(t, "refused")
  /\ UNCHANGED <<session, oauth, users, bounds, unsure, displaced>>

(* The player comes back without an answer, or an answer is lost and the    *)
(* player opens the site again.                                             *)
Abandon(t) ==
  /\ tab[t].pc \in {"microsoft", "redirect", "stored"}
  /\ IF tab[t].pc = "microsoft" THEN UNCHANGED fails ELSE Fail
  /\ Load(t, 0, "none")
  /\ UNCHANGED <<session, oauth, users, begun, unsure, displaced>>

-----------------------------------------------------------------------------
(* The callback: tokens from Microsoft, Xbox Live, XSTS and Minecraft, the  *)
(* entitlement and the profile; the row; the session.                       *)

Verified(t) ==
  /\ tab[t].pc = "chain" /\ tab[t].user \in Owners
  /\ Goes(t, "verified")
  /\ UNCHANGED <<session, oauth, users, bounds, unsure, displaced>>

Ineligible(t) ==
  /\ tab[t].pc = "chain" /\ tab[t].user \notin Owners
  /\ Redirecting(t, "ineligible")
  /\ UNCHANGED <<session, oauth, users, bounds, unsure, displaced>>

ChainFails(t) ==
  /\ tab[t].pc = "chain"
  /\ Fail
  /\ Redirecting(t, "failed")
  /\ UNCHANGED <<session, oauth, users, begun, unsure, displaced>>

(* Mutant of Upsert: the row is left for later. *)
UpsertLater(t) ==
  /\ tab[t].pc = "verified"
  /\ Goes(t, "stored")
  /\ UNCHANGED <<session, oauth, users, bounds, unsure, displaced>>

Upsert(t) ==
  /\ tab[t].pc = "verified"
  /\ users' = users \cup {tab[t].user}
  /\ Goes(t, "stored")
  /\ UNCHANGED <<session, oauth, bounds, unsure, displaced>>

(* D1 fails, before or after it has the row. *)
UpsertFails(t) ==
  /\ tab[t].pc = "verified"
  /\ Fail
  /\ users' \in {users, users \cup {tab[t].user}}
  /\ Redirecting(t, "failed")
  /\ UNCHANGED <<session, oauth, begun, unsure, displaced>>

Finish(t) ==
  /\ tab[t].pc = "stored"
  /\ SetSession(t, tab[t].user)
  /\ SetState(t, 0)
  /\ Load(t, 0, "none")
  /\ UNCHANGED <<users, bounds>>

(* redirectWithError: whoever's state the cookie holds by then, it is gone. *)
Redirected(t) ==
  /\ tab[t].pc = "redirect"
  /\ IF tab[t].error = "ineligible" THEN SetSession(t, None) ELSE UNCHANGED <<session, unsure>>
  /\ SetState(t, 0)
  /\ Load(t, tab[t].n, tab[t].error)
  /\ UNCHANGED <<users, bounds>>

-----------------------------------------------------------------------------
(* Time: the OAuth cookie lasts ten minutes, a session thirty days.         *)

StateExpires ==
  /\ oauth # 0
  /\ Fail
  /\ oauth' = 0 /\ displaced' = displaced \cup {oauth}
  /\ UNCHANGED <<tab, session, users, begun, unsure>>

SessionExpires ==
  /\ session # None
  /\ Fail
  /\ session' = None /\ unsure' = unsure \cup {t \in Tabs : Knows(t)}
  /\ UNCHANGED <<tab, oauth, users, begun, displaced>>

-----------------------------------------------------------------------------
Init ==
  /\ tab = [t \in Tabs |-> Loading("me", 0, "none")]
  /\ session = None /\ oauth = 0 /\ users = {}
  /\ begun = 0 /\ fails = 0
  /\ unsure = {} /\ displaced = {}

Next ==
  \/ StateExpires \/ SessionExpires
  \/ \E t \in Tabs :
       \/ MeServed(t) \/ MeAnswered(t) \/ MeFails(t)
       \/ Logout(t) \/ LogoutAnswered(t) \/ LogoutFails(t)
       \/ Begin(t) \/ StartAnswered(t) \/ StartFails(t)
       \/ Refuse(t) \/ Abandon(t) \/ \E a \in Accounts : Return(t, a)
       \/ Verified(t) \/ Ineligible(t) \/ ChainFails(t)
       \/ Upsert(t) \/ UpsertFails(t) \/ Finish(t) \/ Redirected(t)

Spec == Init /\ [][Next]_vars

-----------------------------------------------------------------------------
Pages == [pc : {"me", "answered", "page", "logout", "start", "microsoft", "redirect",
                "chain", "verified", "stored"},
          status : {"loading", "anonymous", "authenticated"},
          user : Accounts \cup {None}, n : 0..MaxSignIns,
          error : {"none", "failed", "mismatch", "refused", "ineligible"}]

(* The types; whoever is signed in, or about to be, owns the game and has a *)
(* row in D1.                                                               *)
TypeOK ==
  /\ tab \in [Tabs -> Pages]
  /\ users \subseteq Owners
  /\ session \in users \cup {None}
  /\ \A t \in Tabs :
       /\ tab[t].pc = "verified" => tab[t].user \in Owners
       /\ tab[t].pc = "stored" \/ tab[t].status = "authenticated" => tab[t].user \in users
  /\ begun \in 0..MaxSignIns /\ fails \in 0..MaxFails
  /\ oauth \in 0..begun /\ displaced \subseteq 1..begun
  /\ unsure \subseteq Tabs

(* A tab shows the account its requests are made for: whoever it shows      *)
(* signed in is whom the session cookie names, and one that shows nobody    *)
(* has no session, however the sign-ins and sign-outs of the tabs           *)
(* interleave; but nobody tells a tab of what another one has changed.      *)
StatusIsTrue ==
  \A t \in Tabs \ unsure :
    /\ tab[t].status = "authenticated" => session = tab[t].user
    /\ tab[t].status = "anonymous" => session = None

(* "OAuth state expired or did not match" (auth.ts:46) is never said of a   *)
(* sign-in that was left alone: another tab's sign-in, or ten minutes, have *)
(* taken its state from the cookie.                                         *)
MismatchHasACause ==
  \A t \in Tabs : tab[t].error = "mismatch" => tab[t].n \in displaced
=============================================================================
