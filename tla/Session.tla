-------------------------------- MODULE Session --------------------------------
(***************************************************************************)
(* The browser's side (frontend: services/api.js, hooks/useAuth.js) on top *)
(* of AuthTokens.  The tabs of one user share localStorage, and with it    *)
(* the tokens; every tab has its own calls, its own single-flight refresh  *)
(* and its own idea of being signed in.  A step is what one tab does       *)
(* between two awaits.                                                     *)
(***************************************************************************)
EXTENDS AuthTokens, FiniteSets

CONSTANTS
    Tabs,
    Calls,          \* API calls a tab can have in flight
    Me,             \* the call of /auth/me that useAuth makes on start
    User,           \* the address the user signs in with
    FirstToken,     \* the refresh token of the session that is open at first
    NoHandler,
    Patient,        \* does the user sign in only once the tab's calls have settled
    BrowserFaults   \* subset of BrowserFaultKinds

BrowserFaultKinds ==
    {"blip",        \* fetch of an API call rejects, or its answer is a 5xx
     "reply_lost",  \* fetch rejects although the request reaches the API
     "reload"}      \* a tab is loaded again

ASSUME SessionAssumption ==
    /\ Me \in Calls /\ User \in Emails /\ FirstToken \in Tokens
    /\ NoHandler \notin Handlers /\ Patient \in BOOLEAN
    /\ BrowserFaults \subseteq BrowserFaultKinds

VARIABLES
    refresh,    \* localStorage: the refresh token
    access,     \* localStorage: no access token, one that works, an expired one
    ui,         \* what the tab shows; user # null in "in" and "leaving"
    call,       \* call[t][c]: where the call is
    bearer,     \* bearer[t][c]: the access token it was sent with
    waits,      \* waits[t][c]: the refresh it waits for
    flight,     \* flight[t]: the tab's refreshPromise
    form,       \* form[t]: the tab's login or logout request
    denied      \* tabs whose last call found no session at all

store == <<refresh, access>>
callVars == <<call, bearer, waits>>
tabVars == <<ui, flight, form, denied>>
sessionVars == <<authVars, store, callVars, tabVars>>

SessionTypeOK ==
    /\ refresh \in Tokens \cup {NoToken}
    /\ access \in {"none", "good", "stale"}
    /\ ui \in [Tabs -> {"starting", "in", "entering", "leaving", "out"}]
    /\ call \in [Tabs -> [Calls -> {"idle", "sent", "waiting", "resent"}]]
    /\ bearer \in [Tabs -> [Calls -> {"none", "good", "stale"}]]
    /\ waits \in [Tabs -> [Calls -> Handlers \cup {NoHandler}]]
    /\ flight \in [Tabs -> Handlers \cup {NoHandler}]
    /\ form \in [Tabs -> Handlers \cup {NoHandler}]
    /\ denied \subseteq Tabs
    /\ (refresh = NoToken) = (access = "none")
    /\ \A t \in Tabs, c \in Calls :
          (call[t][c] = "waiting") = (waits[t][c] # NoHandler)

\* The user is signed in and has its tabs open.
SessionInit ==
    /\ rows = [e \in Emails |-> IF e = User THEN 1 ELSE 0]
    /\ tok = [t \in Tokens |-> IF t = FirstToken THEN "live" ELSE "new"]
    /\ parent = [t \in Tokens |-> NoToken]
    /\ holder = [t \in Tokens |-> IF t = FirstToken THEN User ELSE NoHolder]
    /\ expired = {}
    /\ step = [h \in Handlers |-> "idle"]
    /\ mail = [h \in Handlers |-> NoHolder]
    /\ arg = [h \in Handlers |-> NoToken]
    /\ code = [h \in Handlers |-> 0]
    /\ got = [h \in Handlers |-> NoToken]
    /\ void = {}
    /\ refresh = FirstToken /\ access = "good"
    /\ ui = [t \in Tabs |-> "in"]
    /\ call = [t \in Tabs |-> [c \in Calls |-> "idle"]]
    /\ bearer = [t \in Tabs |-> [c \in Calls |-> "none"]]
    /\ waits = [t \in Tabs |-> [c \in Calls |-> NoHandler]]
    /\ flight = [t \in Tabs |-> NoHandler]
    /\ form = [t \in Tabs |-> NoHandler]
    /\ denied = {}

Show(t, what) == ui' = [ui EXCEPT ![t] = what]
SetTokens(h) == refresh' = got[h] /\ access' = "good"
FaultyClearTokens == refresh' = NoToken /\ UNCHANGED access     \* one key forgotten
ClearTokens == refresh' = NoToken /\ access' = "none"

-----------------------------------------------------------------------------
(* request *)

Send(t, c) ==
    /\ ui[t] \in {"in", "leaving"} /\ c # Me
    /\ call[t][c] = "idle"
    /\ call' = [call EXCEPT ![t][c] = "sent"]
    /\ bearer' = [bearer EXCEPT ![t][c] = access]
    /\ UNCHANGED <<authVars, store, waits, tabVars>>

\* The calls cs of tab t fail.  useAuth answers any failure of its own call by
\* clearing the tokens.
Fail(t, cs) ==
    /\ call' = [call EXCEPT ![t] = [c \in Calls |-> IF c \in cs THEN "idle" ELSE @[c]]]
    /\ waits' = [waits EXCEPT ![t] = [c \in Calls |-> IF c \in cs THEN NoHandler ELSE @[c]]]
    /\ UNCHANGED bearer

FailAndSignOut(t, cs) ==
    /\ Fail(t, cs)
    /\ IF Me \in cs THEN ClearTokens /\ Show(t, "out") ELSE UNCHANGED <<store, ui>>

Succeed(t, c) ==
    /\ call[t][c] \in {"sent", "resent"} /\ bearer[t][c] = "good"
    /\ call' = [call EXCEPT ![t][c] = "idle"]
    /\ IF c = Me THEN Show(t, "in") ELSE UNCHANGED ui
    /\ denied' = denied \ {t}
    /\ UNCHANGED <<authVars, store, bearer, waits, flight, form>>

Blip(t, c) ==
    /\ "blip" \in BrowserFaults
    /\ call[t][c] \in {"sent", "resent"}
    /\ FailAndSignOut(t, {c})
    /\ UNCHANGED <<authVars, flight, form, denied>>

Unauthorized(t, c) == call[t][c] \in {"sent", "resent"} /\ bearer[t][c] # "good"

\* 401 with nothing to refresh, or for the second time.
GiveUp(t, c) ==
    /\ Unauthorized(t, c)
    /\ call[t][c] = "resent" \/ refresh = NoToken
    /\ FailAndSignOut(t, {c})
    /\ denied' = IF refresh = NoToken THEN denied \cup {t} ELSE denied
    /\ UNCHANGED <<authVars, flight, form>>

-----------------------------------------------------------------------------
(* refreshAccessToken, doRefresh *)

FaultyInFlight(t) == FALSE                              \* refreshPromise is not shared
InFlight(t) == flight[t] # NoHandler

\* 401: wait for the refresh in flight, or start one.
AwaitRefresh(t, c) ==
    /\ Unauthorized(t, c)
    /\ call[t][c] = "sent" /\ refresh # NoToken
    /\ call' = [call EXCEPT ![t][c] = "waiting"]
    /\ \/ /\ InFlight(t)
          /\ waits' = [waits EXCEPT ![t][c] = flight[t]]
          /\ UNCHANGED <<authVars, flight>>
       \/ /\ ~InFlight(t)
          /\ \E h \in Handlers :
                /\ Refresh(h, refresh)
                /\ flight' = [flight EXCEPT ![t] = h]
                /\ waits' = [waits EXCEPT ![t][c] = h]
    /\ UNCHANGED <<store, bearer, ui, form, denied>>

Waiting(t, h) == {c \in Calls : waits[t][c] = h}
FaultyLanded(t, h) == UNCHANGED flight                  \* the promise is kept
Landed(t, h) == flight' = [flight EXCEPT ![t] = IF @ = h THEN NoHandler ELSE @]

\* A new pair: the tokens are stored, and the waiting calls are sent again.
Refreshed(t, h) ==
    /\ Waiting(t, h) # {}
    /\ Finish(h) /\ code[h] = 200
    /\ SetTokens(h)
    /\ call' = [call EXCEPT ![t] = [c \in Calls |-> IF c \in Waiting(t, h) THEN "resent" ELSE @[c]]]
    /\ bearer' = [bearer EXCEPT ![t] = [c \in Calls |-> IF c \in Waiting(t, h) THEN "good" ELSE @[c]]]
    /\ waits' = [waits EXCEPT ![t] = [c \in Calls |-> IF c \in Waiting(t, h) THEN NoHandler ELSE @[c]]]
    /\ Landed(t, h)
    /\ UNCHANGED <<ui, form, denied>>

FaultyEndsSession(h) == code[h] # 200                   \* any failure ends the session
EndsSession(h) == code[h] = 401

\* onSessionExpired is setUser(null), which matters where a user is shown.
FaultyShownAfterEnd(t) == ui[t]                         \* no handler was registered
ShownAfterEnd(t) == IF ui[t] \in {"entering", "leaving"} THEN ui[t] ELSE "out"

\* endSession clears the tokens and takes the user off the screen.
SessionEnded(t, h) ==
    /\ Waiting(t, h) # {}
    /\ Finish(h) /\ EndsSession(h)
    /\ ClearTokens
    /\ Show(t, ShownAfterEnd(t))
    /\ Fail(t, Waiting(t, h))
    /\ Landed(t, h)
    /\ UNCHANGED <<form, denied>>

IsTransient(h) == step[h] = "answered" /\ code[h] \in {0, 500}

FaultyFailForNow(t, cs) == Fail(t, cs) /\ ClearTokens /\ Show(t, "out")  \* the catch ends the session
FailForNow(t, cs) == FailAndSignOut(t, cs)

\* No connection, no answer or a 5xx: the tokens stay and the calls fail with their own error.
RefreshFailed(t, h) ==
    /\ Waiting(t, h) # {}
    /\ \/ IsTransient(h) /\ Finish(h)
       \/ Refused(h)
       \/ "reply_lost" \in BrowserFaults /\ UNCHANGED authVars
    /\ FailForNow(t, Waiting(t, h))
    /\ Landed(t, h)
    /\ UNCHANGED <<form, denied>>

-----------------------------------------------------------------------------
(* useAuth *)

TokensLeft == Cardinality({k \in Tokens : tok[k] = "new"})

\* Bound: sign in only while there are tokens for it and for later refreshes.
SignIn(t) ==
    /\ ui[t] = "out" /\ TokensLeft > 1
    /\ Patient => \A c \in Calls : call[t][c] = "idle"
    /\ \E h \in Handlers : Login(h, User) /\ form' = [form EXCEPT ![t] = h]
    /\ Show(t, "entering")
    /\ denied' = denied \ {t}
    /\ UNCHANGED <<store, callVars, flight>>

SignedIn(t) ==
    /\ ui[t] = "entering"
    /\ \/ /\ Finish(form[t]) /\ code[form[t]] = 200
          /\ SetTokens(form[t]) /\ Show(t, "in")
       \/ /\ \/ Finish(form[t]) /\ code[form[t]] # 200
             \/ Refused(form[t])
             \/ "reply_lost" \in BrowserFaults /\ UNCHANGED authVars
          /\ Show(t, "out") /\ UNCHANGED store
    /\ form' = [form EXCEPT ![t] = NoHandler]
    /\ UNCHANGED <<callVars, flight, denied>>

SignOut(t) ==
    /\ ui[t] = "in"
    /\ IF refresh = NoToken
       THEN ClearTokens /\ Show(t, "out") /\ UNCHANGED <<authVars, form>>
       ELSE /\ \E h \in Handlers : Logout(h, refresh) /\ form' = [form EXCEPT ![t] = h]
            /\ Show(t, "leaving")
            /\ UNCHANGED store
    /\ UNCHANGED <<callVars, flight, denied>>

SignedOut(t) ==
    /\ ui[t] = "leaving"
    /\ \/ Finish(form[t]) \/ Refused(form[t])
       \/ "reply_lost" \in BrowserFaults /\ UNCHANGED authVars
    /\ ClearTokens /\ Show(t, "out")
    /\ form' = [form EXCEPT ![t] = NoHandler]
    /\ UNCHANGED <<callVars, flight, denied>>

\* The page is loaded: what the tab was doing is forgotten, the tokens are not.
Reload(t) ==
    /\ "reload" \in BrowserFaults
    /\ Show(t, IF access = "none" THEN "out" ELSE "starting")
    /\ call' = [call EXCEPT ![t] = [c \in Calls |-> IF c = Me /\ access # "none" THEN "sent" ELSE "idle"]]
    /\ bearer' = [bearer EXCEPT ![t][Me] = access]
    /\ waits' = [waits EXCEPT ![t] = [c \in Calls |-> NoHandler]]
    /\ flight' = [flight EXCEPT ![t] = NoHandler]
    /\ form' = [form EXCEPT ![t] = NoHandler]
    /\ denied' = denied \ {t}
    /\ UNCHANGED <<authVars, store>>

-----------------------------------------------------------------------------
(* The API and the clock *)

\* A request nobody waits for any more runs to its end.
Abandoned(h) ==
    /\ \A t \in Tabs : form[t] # h /\ Waiting(t, h) = {}
    /\ Finish(h)
    /\ UNCHANGED <<store, callVars, tabVars>>

ApiStep(h) ==
    /\ DbStep(h)
    /\ UNCHANGED <<store, callVars, tabVars>>

ApiFault ==
    /\ \/ \E h \in Handlers : Crash(h)
       \/ \E k \in Tokens : Expire(k)
    /\ UNCHANGED <<store, callVars, tabVars>>

\* Access tokens live for minutes.  Bound: while tokens are left to refresh and to sign in.
AccessExpires ==
    /\ access = "good" /\ TokensLeft > 1
    /\ access' = "stale"
    /\ bearer' = [t \in Tabs |-> [c \in Calls |-> IF bearer[t][c] = "good" THEN "stale"
                                                  ELSE bearer[t][c]]]
    /\ UNCHANGED <<authVars, refresh, call, waits, tabVars>>

CallStep(t, c) == Succeed(t, c) \/ GiveUp(t, c) \/ AwaitRefresh(t, c)
RefreshDone(t, h) == Refreshed(t, h) \/ SessionEnded(t, h) \/ RefreshFailed(t, h)
FormDone(t) == SignedIn(t) \/ SignedOut(t)

SessionNext ==
    \/ \E t \in Tabs, c \in Calls : Send(t, c) \/ CallStep(t, c) \/ Blip(t, c)
    \/ \E t \in Tabs, h \in Handlers : RefreshDone(t, h)
    \/ \E t \in Tabs : SignIn(t) \/ SignOut(t) \/ FormDone(t) \/ Reload(t)
    \/ \E h \in Handlers : ApiStep(h) \/ Abandoned(h)
    \/ ApiFault
    \/ AccessExpires

SessionSpec == SessionInit /\ [][SessionNext]_sessionVars

\* The API finishes what it started and the browser runs the continuations of
\* requests that were answered; nobody has to click.  Strong fairness: that all of
\* Handlers are busy at times is a bound of the model, not of the API.
SessionFairSpec ==
    /\ SessionSpec
    /\ \A h \in Handlers : WF_sessionVars(ApiStep(h)) /\ WF_sessionVars(Abandoned(h))
    /\ \A t \in Tabs : /\ \A c \in Calls : SF_sessionVars(CallStep(t, c))
                       /\ \A h \in Handlers : WF_sessionVars(RefreshDone(t, h))
                       /\ WF_sessionVars(FormDone(t))

-----------------------------------------------------------------------------
(* Properties *)

Forgotten == refresh # NoToken /\ refresh' = NoToken
SomeTab(what) == \E t \in Tabs : ui[t] = what

\* Behind a page that has started, the tokens are only thrown away by a logout, or
\* when the stored refresh token does not work any more (api.js:59, 67-68: 5xx and
\* network errors keep them), also when earlier pages left requests under way.
ForgottenIsUnusable ==
    [][Forgotten => SomeTab("leaving") \/ SomeTab("starting") \/ ~IsUsable(refresh)]_sessionVars

\* A call that fails for a network error or a 5xx never costs a usable token, not
\* even while a page starts (api.js:116, "A transient (network/5xx) failure must NOT
\* log the user out").
TransientKeepsTokens ==
    [][Forgotten => SomeTab("leaving") \/ ~IsUsable(refresh)]_sessionVars

\* A session ends by logout or by the expiry of its token, not by a refresh that gets no
\* connection to the API (SECURITY-FIXES.md:30, api.js:47-54).  The answer of a refresh
\* that was carried out is not among these network errors: losing it costs the session.
SessionSurvivesBlips == [][Forgotten => SomeTab("leaving") \/ refresh \in expired]_sessionVars

\* The screen agrees with the session: a tab that shows the user as signed in has tokens
\* to act with, and no call of its page was denied (api.js:23-25).
SignedInHasTokens == \A t \in Tabs : ui[t] = "in" => refresh # NoToken /\ t \notin denied

\* Every call of a page that is not loaded again settles, whatever refresh it
\* waits for, and the page gets past every sign-in and sign-out.
EverythingSettles ==
    /\ \A t \in Tabs, c \in Calls : call[t][c] # "idle" ~> call[t][c] = "idle"
    /\ \A t \in Tabs : ui[t] \in {"starting", "entering", "leaving"} ~> ui[t] \in {"in", "out"}
=============================================================================
