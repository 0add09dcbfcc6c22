---------------------------- MODULE WebSessionProofs ----------------------------
(***************************************************************************)
(* What the user did last stands, for any number of tabs, sign-ins, loads    *)
(* and failing requests.                                                     *)
(***************************************************************************)
EXTENDS WebSession, TLAPS

\* Nothing is asked by, and nobody acts on, a page that has not restored its session;
\* and while a bootstrap that began before an action is still out, the action is
\* known to overlap it.
InOrder(tab) ==
  /\ ~tab.ready => /\ tab.boot.stage = "idle" /\ tab.login.stage = "idle"
                   /\ tab.logout.stage = "idle" /\ ~tab.acted /\ tab.session = 0
  /\ tab.acted /\ tab.boot.stage # "idle" => tab.overlapped

OutcomeStands(tab) == tab.acted /\ ~tab.overlapped => tab.session = tab.outcome

Good(tab) == tab \in Tab /\ InOrder(tab) /\ OutcomeStands(tab)

SessionIInv == SessionTypeOK /\ \A b \in Tabs : Good(tabs[b])

\* Requests keep their types while they are sent and answered.
LEMMA RequestTypes ==
  /\ Idle \in Requests
  /\ \A token \in MaybeToken : Sent(token) \in Requests /\ Sent(token).stage = "sent"
  /\ \A request \in Requests :
       \A answer \in {"actor", "unauthenticated", "done", "failed"} :
         /\ Answered(request, answer) \in Requests
         /\ Answered(request, answer).stage = "answered"
         /\ Answered(request, answer).token = request.token
BY DEF Idle, Sent, Answered, Requests, MaybeToken

\* A page that has just loaded is in order.
LEMMA LoadedIsGood ==
  ASSUME NEW route \in {"sign-in", "app"}, NEW loads \in 0..MaxLoads
  PROVE  Good(Loaded(route, loads))
BY RequestTypes DEF Loaded, Good, InOrder, OutcomeStands, Tab, Idle, MaybeToken

\* The stored session of a browser that opens the app.
THEOREM SessionInitIInv == SessionInit => SessionIInv
<1> SUFFICES ASSUME SessionInit PROVE SessionIInv
  OBVIOUS
<1>1. 1 \in 0..MaxLoads /\ {0, 1} \subseteq 0..MaxTokens
  BY WebSessionAssumption
<1>2. /\ minted \in 0..MaxTokens /\ valid \subseteq 1..minted
      /\ storage \in MaybeToken /\ failures \in 0..MaxFailures
  BY <1>1, WebSessionAssumption DEF SessionInit, MaybeToken, Tokens
<1>3. ASSUME NEW b \in Tabs PROVE Good(tabs[b])
  <2>1. PICK route \in {"sign-in", "app"} : tabs[b] = Loaded(route, 1)
    BY DEF SessionInit
  <2>2. QED
    BY <1>1, <2>1, LoadedIsGood
<1>4. tabs \in [Tabs -> Tab]
  BY <1>3 DEF SessionInit, Good
<1>5. QED
  BY <1>2, <1>3, <1>4 DEF SessionIInv, SessionTypeOK

\* A step that changes one tab, and keeps it in order, keeps the invariant.
LEMMA TabStep ==
  ASSUME SessionIInv, NEW b \in Tabs, NEW tab, Good(tab),
         tabs' = [tabs EXCEPT ![b] = tab],
         storage' \in MaybeToken, minted' \in 0..MaxTokens, valid' \subseteq 1..minted',
         failures' \in 0..MaxFailures
  PROVE  SessionIInv'
<1>1. tabs' \in [Tabs -> Tab]
  BY DEF SessionIInv, SessionTypeOK, Good
<1>2. \A c \in Tabs : Good(tabs'[c])
  BY DEF SessionIInv, SessionTypeOK
<1>3. QED
  BY <1>1, <1>2 DEF SessionIInv, SessionTypeOK

\* What TabStep asks of the rest holds of what a step leaves alone.
LEMMA OthersStay ==
  ASSUME SessionIInv, NEW b \in Tabs
  PROVE  /\ tabs \in [Tabs -> Tab] /\ tabs[b] \in Tab
         /\ InOrder(tabs[b]) /\ OutcomeStands(tabs[b])
         /\ storage \in MaybeToken /\ minted \in 0..MaxTokens
         /\ valid \subseteq 1..minted /\ failures \in 0..MaxFailures
         /\ 0 \in MaybeToken
BY DEF SessionIInv, SessionTypeOK, Good, MaybeToken
-----------------------------------------------------------------------------
(***************************************************************************)
(* The bootstrap.                                                          *)
(***************************************************************************)
\* The provider restores what is stored.
LEMMA RestoreStep ==
  ASSUME SessionIInv, NEW b \in Tabs, Restore(b)
  PROVE  SessionIInv'
<1> DEFINE tab == [tabs[b] EXCEPT !.ready = TRUE, !.session = storage,
                                  !.boot = Sent(storage)]
<1>1. Good(tab)
  BY OthersStay, RequestTypes DEF Restore, Good, Tab, InOrder, OutcomeStands, Idle
<1>2. tabs' = [tabs EXCEPT ![b] = tab]
  BY DEF Restore
<1>3. QED
  BY <1>1, <1>2, OthersStay, TabStep DEF Restore

\* The server answers the bootstrap.
LEMMA BootServedStep ==
  ASSUME SessionIInv, NEW b \in Tabs, BootServed(b)
  PROVE  SessionIInv'
<1>1. PICK answer \in {"actor", "unauthenticated"} :
        tabs' = [tabs EXCEPT ![b].boot = Answered(@, answer)]
  BY DEF BootServed
<1> DEFINE tab == [tabs[b] EXCEPT !.boot = Answered(@, answer)]
<1>2. Good(tab)
  BY OthersStay, RequestTypes DEF BootServed, Good, Tab, InOrder, OutcomeStands
<1>3. tabs' = [tabs EXCEPT ![b] = tab]
  BY <1>1
<1>4. QED
  BY <1>2, <1>3, OthersStay, TabStep DEF BootServed

\* The answer of a bootstrap sets a session only where it overlapped what the user did.
LEMMA BootReturnsStep ==
  ASSUME SessionIInv, NEW b \in Tabs, BootReturns(b)
  PROVE  SessionIInv'
<1>1. PICK token \in MaybeToken, issue \in BOOLEAN, kept \in BOOLEAN :
        /\ kept => token = tabs[b].session
        /\ tabs' = [tabs EXCEPT ![b] = [tabs[b] EXCEPT !.boot = Idle, !.session = token,
                                                      !.issue = issue]]
        /\ storage' \in MaybeToken
  <2>1. CASE tabs[b].boot.answer = "actor"
    <3>1. tabs[b].boot.token \in MaybeToken
      BY OthersStay DEF Tab, Requests
    <3>2. QED
      BY <2>1, <3>1, OthersStay DEF BootReturns, SetSession, Tab
  <2>2. CASE tabs[b].boot.answer = "unauthenticated"
    BY <2>2, OthersStay DEF BootReturns, Tab
  <2>3. CASE tabs[b].boot.answer = "failed"
    <3>1. tabs' = [tabs EXCEPT ![b] = [tabs[b] EXCEPT !.boot = Idle, !.issue = TRUE]]
      BY <2>3 DEF BootReturns
    <3>2. [tabs[b] EXCEPT !.boot = Idle, !.issue = TRUE]
            = [tabs[b] EXCEPT !.boot = Idle, !.session = tabs[b].session, !.issue = TRUE]
      BY OthersStay DEF Tab
    <3>3. tabs[b].session \in MaybeToken
      BY OthersStay DEF Tab
    <3>4. QED
      BY <2>3, <3>1, <3>2, <3>3, OthersStay DEF BootReturns
  <2>4. QED
    BY <2>1, <2>2, <2>3 DEF BootReturns
<1> DEFINE tab == [tabs[b] EXCEPT !.boot = Idle, !.session = token, !.issue = issue]
<1>2. tabs[b].boot.stage = "answered"
  BY DEF BootReturns
<1>3. tab \in Tab /\ tab.boot.stage = "idle" /\ tab.session = token
        /\ tab.acted = tabs[b].acted /\ tab.overlapped = tabs[b].overlapped
        /\ tab.outcome = tabs[b].outcome /\ tab.ready = tabs[b].ready
  <2>1. tabs[b] \in Tab /\ Idle \in Requests
    BY OthersStay, RequestTypes
  <2>2. tab \in Tab
    BY <2>1 DEF Tab
  <2>3. tab.boot = Idle
    BY <2>1 DEF Tab
  <2>4. /\ tab.session = token
        /\ tab.acted = tabs[b].acted /\ tab.overlapped = tabs[b].overlapped
        /\ tab.outcome = tabs[b].outcome /\ tab.ready = tabs[b].ready
    BY <2>1 DEF Tab
  <2>5. QED
    BY <2>2, <2>3, <2>4 DEF Idle
<1>4. tab.ready
  BY <1>2, <1>3, OthersStay DEF InOrder
<1>5. tab.acted => tab.overlapped
  BY <1>2, <1>3, OthersStay DEF InOrder
<1>6. Good(tab)
  BY <1>3, <1>4, <1>5 DEF Good, InOrder, OutcomeStands
<1>7. QED
  BY <1>1, <1>6, OthersStay, TabStep DEF BootReturns
-----------------------------------------------------------------------------
(***************************************************************************)
(* The user.                                                               *)
(***************************************************************************)
\* Who signs in or out on a ready page has the session that says so, and the tab
\* remembers whether the bootstrap was still out.
LEMMA ActsIsGood ==
  ASSUME NEW tab \in Tab, InOrder(tab), tab.ready, NEW token \in MaybeToken,
         NEW cleared \in Tab, cleared.ready, cleared.boot = tab.boot,
         cleared.overlapped = tab.overlapped
  PROVE  Good([Acts(cleared, token) EXCEPT !.session = token, !.issue = FALSE])
BY DEF Acts, Overlaps, Good, Tab, InOrder, OutcomeStands

\* A login is sent.
LEMMA OnSubmitStep ==
  ASSUME SessionIInv, NEW b \in Tabs, OnSubmit(b)
  PROVE  SessionIInv'
<1> DEFINE tab == [tabs[b] EXCEPT !.login = Sent(0)]
<1>1. Good(tab)
  BY OthersStay, RequestTypes DEF OnSubmit, Good, Tab, InOrder, OutcomeStands
<1>2. tabs' = [tabs EXCEPT ![b] = tab]
  BY DEF OnSubmit
<1>3. QED
  BY <1>1, <1>2, OthersStay, TabStep DEF OnSubmit

\* The server starts a session.
LEMMA LoginServedStep ==
  ASSUME SessionIInv, NEW b \in Tabs, LoginServed(b)
  PROVE  SessionIInv'
<1> DEFINE request == [Answered(tabs[b].login, "actor") EXCEPT !.token = minted']
           tab == [tabs[b] EXCEPT !.login = request]
<1>1. minted' \in 0..MaxTokens /\ minted' \in MaybeToken /\ valid' \subseteq 1..minted'
  BY OthersStay, WebSessionAssumption DEF LoginServed, MaybeToken, Tokens
<1>2. request \in Requests /\ tabs[b].login.stage = "sent"
  <2>1. tabs[b].login \in Requests /\ tabs[b].login.stage = "sent"
    BY OthersStay DEF LoginServed, Tab
  <2>2. Answered(tabs[b].login, "actor") \in Requests
    BY <2>1, RequestTypes
  <2>3. QED
    BY <1>1, <2>1, <2>2 DEF Requests
<1>3. Good(tab)
  BY <1>2, OthersStay DEF Good, Tab, InOrder, OutcomeStands
<1>4. tabs' = [tabs EXCEPT ![b] = tab]
  BY DEF LoginServed
<1>5. QED
  BY <1>1, <1>3, <1>4, OthersStay, TabStep DEF LoginServed

\* A sign-in sets the session it was answered with.
LEMMA LoginReturnsStep ==
  ASSUME SessionIInv, NEW b \in Tabs, LoginReturns(b)
  PROVE  SessionIInv'
<1> DEFINE tab == [tabs[b] EXCEPT !.login = Idle]
           token == tabs[b].login.token
<1>1. tab \in Tab /\ tab.ready /\ tab.boot = tabs[b].boot
        /\ tab.overlapped = tabs[b].overlapped /\ tabs[b].ready
  BY OthersStay, RequestTypes DEF LoginReturns, Tab, InOrder
<1>2. token \in MaybeToken
  BY OthersStay DEF Tab, Requests
<1>3. CASE tabs[b].login.answer = "actor"
  <2> DEFINE acts == [Acts(tab, token) EXCEPT !.session = token, !.issue = FALSE]
  <2>1. Good(acts)
    BY <1>1, <1>2, OthersStay, ActsIsGood
  <2>2. tabs' = [tabs EXCEPT ![b] = acts] /\ storage' = token
    BY <1>3 DEF LoginReturns, SetSession
  <2>3. QED
    BY <1>2, <2>1, <2>2, OthersStay, TabStep DEF LoginReturns
<1>4. CASE tabs[b].login.answer # "actor"
  <2>1. Good(tab)
    BY <1>1, OthersStay DEF Good, Tab, InOrder, OutcomeStands, Idle
  <2>2. tabs' = [tabs EXCEPT ![b] = tab] /\ storage' = storage
    BY <1>4 DEF LoginReturns
  <2>3. QED
    BY <2>1, <2>2, OthersStay, TabStep DEF LoginReturns
<1>5. QED
  BY <1>3, <1>4

\* A logout is sent, from a page that has restored its session.
LEMMA OnSignOutStep ==
  ASSUME SessionIInv, NEW b \in Tabs, OnSignOut(b)
  PROVE  SessionIInv'
<1> DEFINE tab == [tabs[b] EXCEPT !.logout = Sent(tabs[b].session)]
<1>1. tabs[b].ready /\ tabs[b].session \in MaybeToken
  BY OthersStay DEF OnSignOut, IsAuthenticated, Tab, InOrder
<1>2. Good(tab)
  BY <1>1, OthersStay, RequestTypes DEF OnSignOut, Good, Tab, InOrder, OutcomeStands
<1>3. tabs' = [tabs EXCEPT ![b] = tab]
  BY DEF OnSignOut
<1>4. QED
  BY <1>2, <1>3, OthersStay, TabStep DEF OnSignOut

\* The server answers a logout.
LEMMA LogoutServedStep ==
  ASSUME SessionIInv, NEW b \in Tabs, LogoutServed(b)
  PROVE  SessionIInv'
<1> DEFINE tab == [tabs[b] EXCEPT !.logout = Answered(@, "done")]
<1>1. Good(tab)
  BY OthersStay, RequestTypes DEF LogoutServed, Good, Tab, InOrder, OutcomeStands
<1>2. tabs' = [tabs EXCEPT ![b] = tab]
  BY DEF LogoutServed
<1>3. QED
  BY <1>1, <1>2, OthersStay, TabStep DEF LogoutServed

\* A sign-out clears the session whatever the answer is.
LEMMA LogoutReturnsStep ==
  ASSUME SessionIInv, NEW b \in Tabs, LogoutReturns(b)
  PROVE  SessionIInv'
<1> DEFINE tab == [tabs[b] EXCEPT !.logout = Idle]
           acts == [Acts(tab, 0) EXCEPT !.session = 0, !.issue = FALSE]
<1>1. tab \in Tab /\ tab.ready /\ tab.boot = tabs[b].boot
        /\ tab.overlapped = tabs[b].overlapped /\ tabs[b].ready
  BY OthersStay, RequestTypes DEF LogoutReturns, Tab, InOrder
<1>2. Good(acts)
  BY <1>1, OthersStay, ActsIsGood
<1>3. tabs' = [tabs EXCEPT ![b] = acts] /\ storage' = 0
  BY DEF LogoutReturns, SetSession
<1>4. QED
  BY <1>2, <1>3, OthersStay, TabStep DEF LogoutReturns

\* A request that fails leaves the tab in order, whichever it is.
LEMMA RequestFailsStep ==
  ASSUME SessionIInv, NEW b \in Tabs, NEW which \in {"boot", "login", "logout"},
         RequestFails(b, which)
  PROVE  SessionIInv'
<1>1. failures' \in 0..MaxFailures
  BY OthersStay, WebSessionAssumption DEF RequestFails
<1>2. CASE which = "boot"
  <2> DEFINE tab == [tabs[b] EXCEPT !.boot = Answered(@, "failed")]
  <2>1. Good(tab)
    BY <1>2, OthersStay, RequestTypes DEF RequestFails, Good, Tab, InOrder, OutcomeStands
  <2>2. tabs' = [tabs EXCEPT ![b] = tab]
    BY <1>2, OthersStay DEF RequestFails, Tab
  <2>3. QED
    BY <1>1, <2>1, <2>2, OthersStay, TabStep DEF RequestFails
<1>3. CASE which = "login"
  <2> DEFINE tab == [tabs[b] EXCEPT !.login = Answered(@, "failed")]
  <2>1. Good(tab)
    BY <1>3, OthersStay, RequestTypes DEF RequestFails, Good, Tab, InOrder, OutcomeStands
  <2>2. tabs' = [tabs EXCEPT ![b] = tab]
    BY <1>3, OthersStay DEF RequestFails, Tab
  <2>3. QED
    BY <1>1, <2>1, <2>2, OthersStay, TabStep DEF RequestFails
<1>4. CASE which = "logout"
  <2> DEFINE tab == [tabs[b] EXCEPT !.logout = Answered(@, "failed")]
  <2>1. Good(tab)
    BY <1>4, OthersStay, RequestTypes DEF RequestFails, Good, Tab, InOrder, OutcomeStands
  <2>2. tabs' = [tabs EXCEPT ![b] = tab]
    BY <1>4, OthersStay DEF RequestFails, Tab
  <2>3. QED
    BY <1>1, <2>1, <2>2, OthersStay, TabStep DEF RequestFails
<1>5. QED
  BY <1>2, <1>3, <1>4

\* A page load forgets everything but the storage.
LEMMA LoadStep ==
  ASSUME SessionIInv, NEW b \in Tabs, NEW route \in {"sign-in", "app"}, Load(b, route)
  PROVE  SessionIInv'
<1>1. tabs[b].loads + 1 \in 0..MaxLoads
  BY OthersStay, WebSessionAssumption DEF Load, Tab
<1>2. Good(Loaded(route, tabs[b].loads + 1))
  BY <1>1, LoadedIsGood
<1>3. tabs' = [tabs EXCEPT ![b] = Loaded(route, tabs[b].loads + 1)]
  BY DEF Load
<1>4. QED
  BY <1>2, <1>3, OthersStay, TabStep DEF Load
-----------------------------------------------------------------------------
\* Every action keeps the inductive invariant.
THEOREM SessionNextIInv == SessionIInv /\ [SessionNext]_sessionVars => SessionIInv'
<1> SUFFICES ASSUME SessionIInv, [SessionNext]_sessionVars PROVE SessionIInv'
  OBVIOUS
<1>1. CASE UNCHANGED sessionVars
  BY <1>1 DEF sessionVars, SessionIInv, SessionTypeOK
<1>2. CASE SessionNext
  <2>1. PICK b \in Tabs :
          \/ Restore(b) \/ BootServed(b) \/ BootReturns(b)
          \/ OnSubmit(b) \/ LoginServed(b) \/ LoginReturns(b)
          \/ OnSignOut(b) \/ LogoutServed(b) \/ LogoutReturns(b)
          \/ \E which \in {"boot", "login", "logout"} : RequestFails(b, which)
          \/ Redirect(b) \/ Reload(b)
    BY <1>2 DEF SessionNext
  <2>2. /\ Redirect(b) => Load(b, Other(tabs[b].route))
        /\ Reload(b) => Load(b, tabs[b].route)
        /\ tabs[b].route \in {"sign-in", "app"}
        /\ Other(tabs[b].route) \in {"sign-in", "app"}
    BY OthersStay DEF Redirect, Reload, Other, Tab
  <2>3. QED
    BY <2>1, <2>2, RestoreStep, BootServedStep, BootReturnsStep, OnSubmitStep,
       LoginServedStep, LoginReturnsStep, OnSignOutStep, LogoutServedStep,
       LogoutReturnsStep, RequestFailsStep, LoadStep
<1>3. QED
  BY <1>1, <1>2

\* The inductive invariant holds in every state of the browser.
THEOREM SessionInvariance == SessionSpec => []SessionIInv
<1>1. SessionInit => SessionIInv
  BY SessionInitIInv
<1>2. SessionIInv /\ [SessionNext]_sessionVars => SessionIInv'
  BY SessionNextIInv
<1>3. QED
  BY <1>1, <1>2, PTL DEF SessionSpec

\* The provider, the storage and the requests keep their types.
THEOREM SessionTypeCorrect == SessionSpec => []SessionTypeOK
<1>1. SessionIInv => SessionTypeOK
  BY DEF SessionIInv
<1>2. QED
  BY <1>1, SessionInvariance, PTL

\* The last sign-in or sign-out of a page stands, unless the bootstrap of the same load
\* was still out (session-bootstrap.tsx, app-shell.tsx onSignOut, sign-in onSubmit).
THEOREM LastActCorrect == SessionSpec => []LastActStands
<1>1. SessionIInv => LastActStands
  BY DEF SessionIInv, Good, OutcomeStands, LastActStands
<1>2. QED
  BY <1>1, SessionInvariance, PTL
=============================================================================
