------------------------------- MODULE WebSession -------------------------------
(***************************************************************************)
(* The session of the web app (apps/web/src/providers/session-provider.tsx,    *)
(* session-bootstrap.tsx, lib/session, lib/routing, the sign-in page and the     *)
(* sign-out of the shell): some tabs of one browser share the local storage;      *)
(* each page load restores the stored session and asks the server once whether     *)
(* it still stands, while the user signs in and out.                              *)
(*                                                                         *)
(* A token stands for its whole snapshot (actor, role, user, refresh token); 0    *)
(* is no session.  AuthSession models what the server does with the tokens.        *)
(***************************************************************************)
EXTENDS Naturals

CONSTANTS
  Tabs,        \* the tabs of the browser
  MaxTokens,   \* bound: sessions the server starts
  MaxLoads,    \* bound: page loads of a tab
  MaxFailures  \* bound: requests that fail on the way

ASSUME WebSessionAssumption ==
  /\ {MaxTokens, MaxLoads} \subseteq Nat \ {0}
  /\ MaxFailures \in Nat

VARIABLES
  storage,     \* localStorage: the saved token
  tabs,        \* the tabs
  valid,       \* the tokens the server takes
  minted,      \* how many tokens the server made
  failures     \* requests that failed so far

sessionVars == <<storage, tabs, valid, minted, failures>>

Tokens == 1..MaxTokens
MaybeToken == Tokens \cup {0}

Idle == [stage |-> "idle", token |-> 0, answer |-> "none"]
Sent(token) == [stage |-> "sent", token |-> token, answer |-> "none"]
Answered(request, answer) == [request EXCEPT !.stage = "answered", !.answer = answer]

\* A page that has just loaded: nothing is restored, nothing is asked.  "loads",
\* "acted" and "overlapped" are history: the loads of the tab, whether the user
\* signed in or out since the load and with what outcome, and whether the answer
\* of the bootstrap was still out at that moment.
Loaded(route, loads) ==
  [route |-> route, ready |-> FALSE, session |-> 0, issue |-> FALSE,
   boot |-> Idle, login |-> Idle, logout |-> Idle,
   loads |-> loads, acted |-> FALSE, outcome |-> 0, overlapped |-> FALSE]

SessionInit ==
  /\ minted \in {0, 1}
  /\ valid \in SUBSET (1..minted)
  /\ storage \in 0..minted
  /\ tabs \in [Tabs -> {Loaded(route, 1) : route \in {"sign-in", "app"}}]
  /\ failures = 0

IsAuthenticated(tab) == tab.session # 0

-----------------------------------------------------------------------------
(* The provider and the bootstrap.                                           *)

\* setSession and clearSession write the state and the storage together.
SetSession(b, tab, token) ==
  /\ tabs' = [tabs EXCEPT ![b] = [tab EXCEPT !.session = token, !.issue = FALSE]]
  /\ storage' = token

\* After the first commit the provider restores the stored session and is ready;
\* the bootstrap then asks, once, about the token it restored.
Restore(b) ==
  /\ ~tabs[b].ready
  /\ tabs' = [tabs EXCEPT ![b].ready = TRUE, ![b].session = storage,
                          ![b].boot = Sent(storage)]
  /\ UNCHANGED <<storage, valid, minted, failures>>

\* /auth/me behind the authentication guard.
BootServed(b) ==
  /\ tabs[b].boot.stage = "sent"
  /\ tabs' = [tabs EXCEPT ![b].boot =
                Answered(@, IF @.token \in valid THEN "actor" ELSE "unauthenticated")]
  /\ UNCHANGED <<storage, valid, minted, failures>>

\* The rest of the bootstrap after its await: the session it captured is set, a
\* rejected one is cleared, a failed request leaves a message.
BootReturns(b) ==
  LET tab == [tabs[b] EXCEPT !.boot = Idle]
  IN /\ tabs[b].boot.stage = "answered"
     /\ \/ /\ tabs[b].boot.answer = "actor"
           /\ SetSession(b, tab, tabs[b].boot.token)
        \/ /\ tabs[b].boot.answer = "unauthenticated"
           /\ tabs' = [tabs EXCEPT ![b] = [tab EXCEPT !.session = 0, !.issue = TRUE]]
           /\ storage' = 0
        \/ /\ tabs[b].boot.answer = "failed"
           /\ tabs' = [tabs EXCEPT ![b] = [tab EXCEPT !.issue = TRUE]]
           /\ UNCHANGED storage
     /\ UNCHANGED <<valid, minted, failures>>

-----------------------------------------------------------------------------
(* The sign-in page and the sign-out of the shell.                           *)

Overlaps(tab) == tab.boot.stage # "idle"

Acts(tab, token) ==
  [tab EXCEPT !.acted = TRUE, !.outcome = token, !.overlapped = @ \/ Overlaps(tab)]

\* The page takes no click before its first effects ran.
OnSubmit(b) ==
  /\ tabs[b].ready /\ tabs[b].route = "sign-in" /\ ~IsAuthenticated(tabs[b])
  /\ tabs[b].login = Idle
  /\ tabs' = [tabs EXCEPT ![b].login = Sent(0)]
  /\ UNCHANGED <<storage, valid, minted, failures>>

LoginServed(b) ==
  /\ tabs[b].login.stage = "sent"
  /\ minted < MaxTokens
  /\ minted' = minted + 1
  /\ valid' = valid \cup {minted'}
  /\ tabs' = [tabs EXCEPT ![b].login = [Answered(@, "actor") EXCEPT !.token = minted']]
  /\ UNCHANGED <<storage, failures>>

LoginReturns(b) ==
  LET tab == [tabs[b] EXCEPT !.login = Idle]
  IN /\ tabs[b].login.stage = "answered"
     /\ IF tabs[b].login.answer = "actor"
        THEN SetSession(b, Acts(tab, tabs[b].login.token), tabs[b].login.token)
        ELSE tabs' = [tabs EXCEPT ![b] = tab] /\ UNCHANGED storage
     /\ UNCHANGED <<valid, minted, failures>>

\* The button is not disabled meanwhile: of several clicks the model has the first, since
\* the logouts of the others end the same session and clear what is clear already.  The
\* page is left by router.replace, which loads nothing anew; the model has the guard of
\* the layout do it (Redirect).
OnSignOut(b) ==
  /\ tabs[b].route = "app" /\ IsAuthenticated(tabs[b])
  /\ tabs[b].logout = Idle
  /\ tabs' = [tabs EXCEPT ![b].logout = Sent(tabs[b].session)]
  /\ UNCHANGED <<storage, valid, minted, failures>>

LogoutServed(b) ==
  /\ tabs[b].logout.stage = "sent"
  /\ valid' = valid \ {tabs[b].logout.token}
  /\ tabs' = [tabs EXCEPT ![b].logout = Answered(@, "done")]
  /\ UNCHANGED <<storage, minted, failures>>

LogoutReturns_OnlyIfDone(b) ==
  LET tab == Acts([tabs[b] EXCEPT !.logout = Idle], 0)
  IN /\ tabs[b].logout.stage = "answered"
     /\ IF tabs[b].logout.answer = "done" THEN SetSession(b, tab, 0)
        ELSE tabs' = [tabs EXCEPT ![b] = tab] /\ UNCHANGED storage
     /\ UNCHANGED <<valid, minted, failures>>

\* The finally of onSignOut: the session is cleared whatever the answer was.
LogoutReturns(b) ==
  /\ tabs[b].logout.stage = "answered"
  /\ SetSession(b, Acts([tabs[b] EXCEPT !.logout = Idle], 0), 0)
  /\ UNCHANGED <<valid, minted, failures>>

\* A request fails: before the server has it, or after, so that the answer is lost.
RequestFails(b, which) ==
  /\ failures < MaxFailures
  /\ failures' = failures + 1
  /\ tabs[b][which].stage # "idle" /\ tabs[b][which].answer # "failed"
  /\ tabs' = [tabs EXCEPT ![b][which] = Answered(@, "failed")]
  /\ UNCHANGED <<storage, valid, minted>>

-----------------------------------------------------------------------------
(* The guards and the user load pages.                                       *)

\* The routes a guard lets a ready tab stay on.
Allowed(tab) == IF IsAuthenticated(tab) THEN tab.route = "app" ELSE tab.route = "sign-in"

Other(route) == IF route = "app" THEN "sign-in" ELSE "app"

Load(b, route) ==
  /\ tabs[b].loads < MaxLoads
  /\ tabs' = [tabs EXCEPT ![b] = Loaded(route, @.loads + 1)]
  /\ UNCHANGED <<storage, valid, minted, failures>>

\* RequireAuth and RedirectIfAuth replace the location: a new page load.
Redirect(b) == tabs[b].ready /\ ~Allowed(tabs[b]) /\ Load(b, Other(tabs[b].route))

Reload(b) == Load(b, tabs[b].route)

SessionNext ==
  \E b \in Tabs :
    \/ Restore(b) \/ BootServed(b) \/ BootReturns(b)
    \/ OnSubmit(b) \/ LoginServed(b) \/ LoginReturns(b)
    \/ OnSignOut(b) \/ LogoutServed(b) \/ LogoutReturns(b)
    \/ \E which \in {"boot", "login", "logout"} : RequestFails(b, which)
    \/ Redirect(b) \/ Reload(b)

SessionSpec == SessionInit /\ [][SessionNext]_sessionVars
-----------------------------------------------------------------------------
Requests ==
  [stage : {"idle", "sent", "answered"}, token : MaybeToken,
   answer : {"none", "actor", "unauthenticated", "done", "failed"}]

Tab ==
  [route : {"sign-in", "app"}, ready : BOOLEAN, session : MaybeToken, issue : BOOLEAN,
   boot : Requests, login : Requests, logout : Requests,
   loads : 0..MaxLoads, acted : BOOLEAN, outcome : MaybeToken, overlapped : BOOLEAN]

SessionTypeOK ==
  /\ storage \in MaybeToken
  /\ valid \subseteq 1..minted
  /\ minted \in 0..MaxTokens
  /\ failures \in 0..MaxFailures
  /\ tabs \in [Tabs -> Tab]

\* What the user did last on a page stands, a sign-in as a sign-out, whatever the
\* other requests answer and in whatever order: only the one bootstrap of the page
\* load, if its answer was still out when the user acted, sets another session.
LastActStands ==
  \A b \in Tabs :
    tabs[b].acted /\ ~tabs[b].overlapped => tabs[b].session = tabs[b].outcome
=============================================================================
