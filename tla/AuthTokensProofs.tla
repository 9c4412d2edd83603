--------------------------- MODULE AuthTokensProofs ---------------------------
(***************************************************************************)
(* Theorems about AuthTokens, for any number of accounts, tokens and       *)
(* requests in flight, and about Session, the browser that makes the       *)
(* requests: first for any number of tabs, then for one.                   *)
(***************************************************************************)
EXTENDS Session, TLAPS

\* A request without a token is one that signs up or logs in.
NewLogins ==
    \A h \in Handlers : step[h] \in {"signup", "create", "login"} => arg[h] = NoToken

\* Once a token is revoked no step makes it usable again, and a handler that was
\* called with one is refused by FindRefreshToken.
VoidIsRefused ==
    \A h \in void : /\ h \in Handlers
                    /\ arg[h] \in Tokens /\ tok[arg[h]] = "revoked"
                    /\ step[h] \in {"idle", "refresh", "logout", "answered"}
                    /\ got[h] = NoToken

\* A token on its way to being exchanged was usable when it was looked up, and is
\* revoked by the time its successor is issued.
ExchangeInOrder ==
    \A h \in Handlers :
        /\ step[h] \in {"user", "revoke"} => tok[arg[h]] \in {"live", "revoked"}
        /\ step[h] = "issue" /\ arg[h] # NoToken => tok[arg[h]] = "revoked"

-----------------------------------------------------------------------------
(* Type correctness *)

LEMMA CallTypes ==
    ASSUME TypeOK, NEW h \in Handlers, NEW e \in Emails, NEW t \in Tokens \cup {NoToken},
           NEW s \in {"signup", "login", "refresh", "logout"}, Call(h, s, e, t),
           s \in {"refresh", "logout"} => t \in Tokens
    PROVE  TypeOK'
BY DEF Call, TypeOK, Steps, Codes, tokenVars

LEMMA AnswerTypes ==
    ASSUME TypeOK, NEW h \in Handlers, step[h] # "idle", NEW c \in Codes, Answer(h, c),
           UNCHANGED <<tokenVars, expired>>, rows' \in [Emails -> Nat]
    PROVE  TypeOK'
BY DEF Answer, TypeOK, Steps, tokenVars

LEMMA GotoTypes ==
    ASSUME TypeOK, NEW h \in Handlers, step[h] # "idle",
           NEW s \in {"idle", "create", "issue", "answered"}, Goto(h, s),
           UNCHANGED <<tokenVars, expired>>, rows' \in [Emails -> Nat]
    PROVE  TypeOK'
BY DEF Goto, TypeOK, Steps, tokenVars

\* What every handler step needs to know about the request it works on.
LEMMA Working ==
    ASSUME TypeOK, NEW h \in Handlers, step[h] # "idle"
    PROVE  mail[h] \in Emails /\ rows[mail[h]] \in Nat
BY DEF TypeOK

\* An issued token has a holder with an account's address.
HoldersAreEmails == \A t \in Tokens : Issued(t) => holder[t] \in Emails

LEMMA InitTypes == AuthInit => TypeOK /\ HoldersAreEmails
BY DEF AuthInit, TypeOK, HoldersAreEmails, Issued, Steps, Codes

LEMMA StepTypes == TypeOK /\ HoldersAreEmails /\ [AuthNext]_authVars => TypeOK'
<1> SUFFICES ASSUME TypeOK, HoldersAreEmails, [AuthNext]_authVars PROVE TypeOK'
    OBVIOUS
<1>1. ASSUME NEW h \in Handlers, Request(h) PROVE TypeOK'
  <2>1. ASSUME NEW e \in Emails, Signup(h, e) \/ Login(h, e) PROVE TypeOK'
    BY <2>1, CallTypes DEF Signup, Login
  <2>2. ASSUME NEW t \in Tokens, Refresh(h, t) \/ Logout(h, t) PROVE TypeOK'
    <3>1. holder[t] \in Emails
      BY <2>2 DEF Refresh, Logout, HoldersAreEmails
    <3> QED BY <2>2, <3>1, CallTypes DEF Refresh, Logout
  <2> QED BY <1>1, <2>1, <2>2 DEF Request
<1>2. ASSUME NEW h \in Handlers, DbStep(h) PROVE TypeOK'
  <2>1. CASE FindByEmail(h)
    <3>1. step[h] # "idle" /\ UNCHANGED <<tokenVars, expired>> /\ rows' \in [Emails -> Nat]
      BY <2>1 DEF FindByEmail, TypeOK
    <3>2. Answer(h, 409) \/ Goto(h, "create")
      BY <2>1 DEF FindByEmail
    <3> QED BY <3>1, <3>2, AnswerTypes, GotoTypes DEF Codes
  <2>2. CASE CreateUser(h)
    <3>1. step[h] # "idle" /\ UNCHANGED <<tokenVars, expired>>
      BY <2>2 DEF CreateUser
    <3>2. rows' \in [Emails -> Nat]
      BY <2>2, <3>1, Working DEF CreateUser, TypeOK
    <3>3. Answer(h, 500) \/ Goto(h, "issue")
      BY <2>2 DEF CreateUser
    <3> QED BY <3>1, <3>2, <3>3, AnswerTypes, GotoTypes DEF Codes
  <2>3. CASE CheckLogin(h)
    <3>1. step[h] # "idle" /\ UNCHANGED <<tokenVars, expired>> /\ rows' \in [Emails -> Nat]
      BY <2>3 DEF CheckLogin, TypeOK
    <3>2. Answer(h, 401) \/ Goto(h, "issue")
      BY <2>3 DEF CheckLogin
    <3> QED BY <3>1, <3>2, AnswerTypes, GotoTypes DEF Codes
  <2>4. CASE FindRefreshToken(h) \/ FindById(h)
    BY <2>4 DEF FindRefreshToken, FindById, Answer, Goto, TypeOK, Steps, Codes, tokenVars
  <2>5. CASE RevokeToken(h)
    <3>1. tok' \in [Tokens -> {"new", "live", "revoked", "unstored"}]
      BY <2>5 DEF RevokeToken, Revoked, TypeOK
    <3> QED BY <2>5, <3>1 DEF RevokeToken, Answer, Goto, TypeOK, Steps, Codes
  <2>6. CASE IssueTokens(h)
    BY <2>6 DEF IssueTokens, TypeOK, Steps, Codes
  <2>7. CASE QueryFails(h)
    <3>1. step[h] # "idle" /\ UNCHANGED <<tokenVars, expired>> /\ rows' \in [Emails -> Nat]
      BY <2>7 DEF QueryFails, TypeOK
    <3> QED BY <2>7, <3>1, AnswerTypes DEF QueryFails, Codes
  <2> QED BY <1>2, <2>1, <2>2, <2>3, <2>4, <2>5, <2>6, <2>7 DEF DbStep
<1>3. ASSUME NEW h \in Handlers, Crash(h) PROVE TypeOK'
  BY <1>3, AnswerTypes DEF Crash, TypeOK, Codes
<1>4. ASSUME NEW h \in Handlers, Finish(h) \/ Refused(h) PROVE TypeOK'
  BY <1>4, GotoTypes DEF Finish, Refused, TypeOK
<1>5. ASSUME NEW t \in Tokens, Expire(t) PROVE TypeOK'
  BY <1>5 DEF Expire, TypeOK, tokenVars, handlerVars
<1>6. CASE UNCHANGED authVars
  BY <1>6 DEF authVars, tokenVars, handlerVars, TypeOK
<1> QED BY <1>1, <1>2, <1>3, <1>4, <1>5, <1>6 DEF AuthNext

LEMMA StepHolders == TypeOK /\ HoldersAreEmails /\ [AuthNext]_authVars => HoldersAreEmails'
<1> SUFFICES ASSUME TypeOK, HoldersAreEmails, [AuthNext]_authVars PROVE HoldersAreEmails'
    OBVIOUS
<1> USE DEF HoldersAreEmails, Issued
<1>1. ASSUME NEW h \in Handlers, IssueTokens(h) PROVE HoldersAreEmails'
  BY <1>1, Working DEF IssueTokens, TypeOK
<1>2. ASSUME NEW h \in Handlers, RevokeToken(h) PROVE HoldersAreEmails'
  BY <1>2 DEF RevokeToken, Revoked, TypeOK
<1>3. CASE UNCHANGED tokenVars
  BY <1>3 DEF tokenVars
<1> QED BY <1>1, <1>2, <1>3
        DEF AuthNext, Request, DbStep, Signup, Login, Refresh, Logout, Call, FindByEmail,
            CreateUser, CheckLogin, FindRefreshToken, FindById, QueryFails, Finish, Refused, Crash,
            Expire, authVars

\* Every variable keeps its type; a handler past its request has an address to work
\* for, and one that exchanges or revokes a token has that token.
THEOREM TokenTypes == AuthSpec => []TypeOK
BY InitTypes, StepTypes, StepHolders, PTL DEF AuthSpec

-----------------------------------------------------------------------------
(* One account per address *)

\* However many signups for one address run side by side, and whatever queries
\* fail, the address has at most one users row.
THEOREM OneAccount == AuthSpec => []OneAccountPerEmail
<1>1. AuthInit => OneAccountPerEmail
  <2> SUFFICES ASSUME AuthInit, NEW e \in Emails PROVE rows[e] <= 1
      BY DEF OneAccountPerEmail
  <2>1. rows[e] = 0
    BY DEF AuthInit
  <2> QED BY <2>1
<1>2. TypeOK /\ OneAccountPerEmail /\ [AuthNext]_authVars => OneAccountPerEmail'
  <2> SUFFICES ASSUME TypeOK, OneAccountPerEmail, [AuthNext]_authVars PROVE OneAccountPerEmail'
      OBVIOUS
  <2>1. ASSUME NEW h \in Handlers, CreateUser(h) PROVE OneAccountPerEmail'
    BY <2>1, Working DEF CreateUser, EmailIsFree, OneAccountPerEmail, TypeOK
  <2>2. CASE UNCHANGED rows
    BY <2>2 DEF OneAccountPerEmail
  <2> QED BY <2>1, <2>2
          DEF AuthNext, Request, DbStep, Signup, Login, Refresh, Logout, Call, FindByEmail,
              CheckLogin, FindRefreshToken, FindById, RevokeToken, IssueTokens, QueryFails,
              Finish, Refused, Crash, Expire, authVars
<1> QED BY <1>1, <1>2, TokenTypes, PTL DEF AuthSpec

-----------------------------------------------------------------------------
(* Revoked tokens *)

\* No step makes a revoked token anything else.
LEMMA RevokedForGood ==
    ASSUME TypeOK, [AuthNext]_authVars, NEW t \in Tokens, tok[t] = "revoked"
    PROVE  tok'[t] = "revoked"
<1>1. ASSUME NEW h \in Handlers, RevokeToken(h) PROVE tok'[t] = "revoked"
  BY <1>1 DEF RevokeToken, Revoked, TypeOK
<1>2. ASSUME NEW h \in Handlers, IssueTokens(h) PROVE tok'[t] = "revoked"
  BY <1>2 DEF IssueTokens, TypeOK
<1>3. CASE UNCHANGED tok
  BY <1>3
<1> QED BY <1>1, <1>2, <1>3
        DEF AuthNext, Request, DbStep, Signup, Login, Refresh, Logout, Call, FindByEmail,
            CreateUser, CheckLogin, FindRefreshToken, FindById, QueryFails, Finish, Refused, Crash,
            Expire, authVars, tokenVars

LEMMA StepVoid == TypeOK /\ VoidIsRefused /\ [AuthNext]_authVars => VoidIsRefused'
<1> SUFFICES ASSUME TypeOK, VoidIsRefused, [AuthNext]_authVars PROVE VoidIsRefused'
    OBVIOUS
<1>1. \A t \in Tokens : tok[t] = "revoked" => tok'[t] = "revoked"
  BY RevokedForGood
<1>2. ASSUME NEW h \in Handlers, Request(h) PROVE VoidIsRefused'
  <2>1. ASSUME NEW e, NEW t \in Tokens \cup {NoToken}, NEW s, Call(h, s, e, t),
               t = NoToken \/ s \in {"refresh", "logout"}
        PROVE  VoidIsRefused'
    BY <1>1, <2>1, NoTokenAssumption DEF Call, VoidIsRefused, TypeOK, tokenVars
  <2> QED BY <1>2, <2>1 DEF Request, Signup, Login, Refresh, Logout
<1>3. ASSUME NEW h \in Handlers, FindRefreshToken(h) PROVE VoidIsRefused'
  BY <1>3 DEF FindRefreshToken, IsUsable, Goto, Answer, VoidIsRefused, TypeOK, tokenVars
<1>4. ASSUME NEW h \in Handlers, RevokeToken(h) PROVE VoidIsRefused'
  BY <1>1, <1>4 DEF RevokeToken, Goto, Answer, VoidIsRefused, TypeOK
<1>5. ASSUME NEW h \in Handlers, IssueTokens(h) PROVE VoidIsRefused'
  <2>1. h \notin void
    BY <1>5 DEF IssueTokens, VoidIsRefused
  <2> QED BY <1>1, <1>5, <2>1 DEF IssueTokens, VoidIsRefused, TypeOK
<1>6. ASSUME NEW h \in Handlers, FindByEmail(h) \/ CreateUser(h) \/ CheckLogin(h) \/ FindById(h)
      PROVE  VoidIsRefused'
  BY <1>6 DEF FindByEmail, CreateUser, CheckLogin, FindById, Goto, Answer, VoidIsRefused,
              TypeOK, tokenVars
<1>7. ASSUME NEW h \in Handlers, QueryFails(h) \/ Finish(h) \/ Refused(h) \/ Crash(h) PROVE VoidIsRefused'
  BY <1>7 DEF QueryFails, Finish, Refused, Crash, Goto, Answer, VoidIsRefused, TypeOK, tokenVars
<1>8. ASSUME NEW t \in Tokens, Expire(t) PROVE VoidIsRefused'
  BY <1>8 DEF Expire, VoidIsRefused, tokenVars, handlerVars
<1>9. CASE UNCHANGED authVars
  BY <1>9 DEF authVars, tokenVars, handlerVars, VoidIsRefused
<1> QED BY <1>2, <1>3, <1>4, <1>5, <1>6, <1>7, <1>8, <1>9 DEF AuthNext, DbStep

\* A request that presents a token revoked before it came in is never answered
\* with a new pair, through failing queries, crashes and concurrent requests.
THEOREM RevokedRefused == AuthSpec => []RevokedIsRefused
<1>1. AuthInit => VoidIsRefused
  BY DEF AuthInit, VoidIsRefused
<1>2. VoidIsRefused => RevokedIsRefused
  BY DEF VoidIsRefused, RevokedIsRefused
<1> QED BY <1>1, <1>2, StepVoid, TokenTypes, PTL DEF AuthSpec

-----------------------------------------------------------------------------
(* Exchanged tokens *)

LEMMA StepExchange ==
    TypeOK /\ NewLogins /\ ExchangeInOrder /\ [AuthNext]_authVars /\ ~DbError
        => NewLogins' /\ ExchangeInOrder'
<1> SUFFICES ASSUME TypeOK, NewLogins, ExchangeInOrder, [AuthNext]_authVars, ~DbError
             PROVE  NewLogins' /\ ExchangeInOrder'
    OBVIOUS
<1> DEFINE Kept == NewLogins' /\ ExchangeInOrder'
<1> USE DEF NewLogins, ExchangeInOrder
<1>1. \A t \in Tokens : tok[t] = "revoked" => tok'[t] = "revoked"
  BY RevokedForGood
<1>2. ASSUME NEW h \in Handlers, Request(h) PROVE Kept
  <2>1. ASSUME NEW e, NEW t, Call(h, "signup", e, t) \/ Call(h, "login", e, t), t = NoToken
        PROVE  Kept
    BY <2>1 DEF Call, TypeOK, tokenVars
  <2>2. ASSUME NEW e, NEW t, Call(h, "refresh", e, t) \/ Call(h, "logout", e, t) PROVE Kept
    BY <2>2 DEF Call, TypeOK, tokenVars
  <2> QED BY <1>2, <2>1, <2>2 DEF Request, Signup, Login, Refresh, Logout
<1>3. ASSUME NEW h \in Handlers, FindByEmail(h) \/ CreateUser(h) \/ CheckLogin(h) PROVE Kept
  BY <1>3 DEF FindByEmail, CreateUser, CheckLogin, Goto, Answer, TypeOK, tokenVars
<1>4. ASSUME NEW h \in Handlers, FindRefreshToken(h) \/ FindById(h) PROVE Kept
  BY <1>4 DEF FindRefreshToken, FindById, IsUsable, Goto, Answer, TypeOK, tokenVars
<1>5. ASSUME NEW h \in Handlers, RevokeToken(h) PROVE Kept
  <2>1. tok' = Revoked(arg[h]) /\ UNCHANGED arg /\ arg[h] \in Tokens
    BY <1>5 DEF RevokeToken, Goto, Answer, TypeOK
  <2>2. \A t \in Tokens : tok[t] = "live" => tok'[t] \in {"live", "revoked"}
    BY <2>1 DEF Revoked, TypeOK
  <2>3. step[h] = "revoke" => tok'[arg[h]] = "revoked"
    BY <2>1 DEF Revoked, TypeOK
  <2>4. \/ step' = [step EXCEPT ![h] = "issue"] /\ step[h] = "revoke"
        \/ step' = [step EXCEPT ![h] = "answered"]
    BY <1>5 DEF RevokeToken, Goto, Answer
  <2> QED BY <1>1, <2>1, <2>2, <2>3, <2>4 DEF TypeOK
<1>6. ASSUME NEW h \in Handlers, IssueTokens(h) PROVE Kept
  <2>1. \A t \in Tokens : tok[t] \in {"live", "revoked"} => tok'[t] = tok[t]
    BY <1>6 DEF IssueTokens, TypeOK
  <2>2. step' = [step EXCEPT ![h] = "answered"] /\ UNCHANGED arg
    BY <1>6 DEF IssueTokens
  <2> QED BY <2>1, <2>2 DEF TypeOK
<1>7. ASSUME NEW h \in Handlers, QueryFails(h) \/ Finish(h) \/ Refused(h) \/ Crash(h) PROVE Kept
  BY <1>7 DEF QueryFails, Finish, Refused, Crash, Goto, Answer, TypeOK, tokenVars
<1>8. ASSUME NEW t \in Tokens, Expire(t) PROVE Kept
  BY <1>8 DEF Expire, tokenVars, handlerVars
<1>9. CASE UNCHANGED authVars
  BY <1>9 DEF authVars, tokenVars, handlerVars
<1> QED BY <1>2, <1>3, <1>4, <1>5, <1>6, <1>7, <1>8, <1>9 DEF AuthNext, DbStep

LEMMA StepReplaced ==
    TypeOK /\ ExchangeInOrder /\ ReplacedIsRevoked /\ [AuthNext]_authVars
        => ReplacedIsRevoked'
<1> SUFFICES ASSUME TypeOK, ExchangeInOrder, ReplacedIsRevoked, [AuthNext]_authVars
             PROVE  ReplacedIsRevoked'
    OBVIOUS
<1> USE DEF ReplacedIsRevoked
<1>1. \A t \in Tokens : tok[t] = "revoked" => tok'[t] = "revoked"
  BY RevokedForGood
<1>2. ASSUME NEW h \in Handlers, IssueTokens(h) PROVE ReplacedIsRevoked'
  BY <1>1, <1>2 DEF IssueTokens, ExchangeInOrder, TypeOK
<1>3. CASE UNCHANGED parent
  BY <1>1, <1>3 DEF TypeOK
<1> QED BY <1>2, <1>3
        DEF AuthNext, Request, DbStep, Signup, Login, Refresh, Logout, Call, FindByEmail,
            CreateUser, CheckLogin, FindRefreshToken, FindById, RevokeToken, QueryFails,
            Finish, Refused, Crash, Expire, authVars, tokenVars

\* While database calls do not fail, a token that was exchanged is revoked, through
\* crashes between the revocation and the new pair and through concurrent requests.
THEOREM ReplacedRevoked == AuthSpec => [](DbError \/ ReplacedIsRevoked)
<1> DEFINE ExchangeInv == DbError \/ (NewLogins /\ ExchangeInOrder /\ ReplacedIsRevoked)
<1>1. AuthInit => ExchangeInv
  BY DEF AuthInit, NewLogins, ExchangeInOrder, ReplacedIsRevoked
<1>2. TypeOK /\ ExchangeInv /\ [AuthNext]_authVars => ExchangeInv'
  BY StepExchange, StepReplaced DEF DbError
<1>3. ExchangeInv => DbError \/ ReplacedIsRevoked
  OBVIOUS
<1> QED BY <1>1, <1>2, <1>3, TokenTypes, PTL DEF AuthSpec

-----------------------------------------------------------------------------
(* The browser: who waits for which request *)

RefreshSteps == {"refresh", "user", "revoke", "issue", "answered"}
LoginSteps == {"login", "issue", "answered"}
LogoutSteps == {"logout", "answered"}

Issues(h) == step[h] = "answered" /\ code[h] = 200

\* Whoever waits for a request waits for one that is still there and of its kind.
RefreshHeld(t) ==
    /\ \A c \in Calls : waits[t][c] \in {NoHandler, flight[t]}
    /\ flight[t] # NoHandler =>
          /\ \E c \in Calls : waits[t][c] = flight[t]
          /\ step[flight[t]] \in RefreshSteps /\ arg[flight[t]] \in Tokens
          /\ Issues(flight[t]) => got[flight[t]] \in Tokens

FormHeld(t) ==
    /\ form[t] = NoHandler <=> ui[t] \notin {"entering", "leaving"}
    /\ ui[t] = "leaving" => step[form[t]] \in LogoutSteps
    /\ ui[t] = "entering" => /\ step[form[t]] \in LoginSteps
                             /\ Issues(form[t]) => got[form[t]] \in Tokens

Held(t) == {flight[t], form[t]} \ {NoHandler}

\* No two pages, nor the refresh and the form of one, wait for the same request.
Hands ==
    /\ \A t \in Tabs : RefreshHeld(t) /\ FormHeld(t)
    /\ \A t \in Tabs : flight[t] = NoHandler \/ flight[t] # form[t]
    /\ \A t, u \in Tabs : t # u => Held(t) \cap Held(u) = {}

\* While a page starts it makes the one call that tells whether it is signed in.
Starting ==
    \A t \in Tabs :
        /\ call[t][Me] # "idle" <=> ui[t] = "starting"
        /\ ui[t] = "starting" => \A c \in Calls \ {Me} : call[t][c] = "idle"

TokensKnown ==
    /\ refresh # NoToken => Issued(refresh)
    /\ \A h \in Handlers : arg[h] # NoToken => Issued(arg[h])
    /\ \A h \in Handlers : got[h] # NoToken => Issued(got[h])

HandsInv == SessionTypeOK /\ TypeOK /\ HoldersAreEmails /\ Hands /\ Starting /\ TokensKnown

\* What a step of a request, its end and a new request do to the requests.
Besides(h) ==
    \A k \in Handlers \ {h} :
        step'[k] = step[k] /\ code'[k] = code[k] /\ got'[k] = got[k] /\ arg'[k] = arg[k]

LEMMA StepMoves ==
    ASSUME TypeOK, NEW h \in Handlers, DbStep(h) \/ Crash(h)
    PROVE  /\ step[h] \notin {"idle", "answered"} /\ Besides(h) /\ arg' = arg /\ mail' = mail
           /\ step[h] \in RefreshSteps => step'[h] \in RefreshSteps
           /\ step[h] \in LoginSteps => step'[h] \in LoginSteps
           /\ step[h] \in LogoutSteps => step'[h] \in LogoutSteps
           /\ step[h] # "logout" /\ step'[h] = "answered" /\ code'[h] = 200 => got'[h] \in Tokens
<1> USE DEF Besides, RefreshSteps, LoginSteps, LogoutSteps
<1>1. CASE FindByEmail(h)
  BY <1>1 DEF FindByEmail, Goto, Answer, TypeOK
<1>2. CASE CreateUser(h)
  BY <1>2 DEF CreateUser, Goto, Answer, TypeOK
<1>3. CASE CheckLogin(h)
  BY <1>3 DEF CheckLogin, Goto, Answer, TypeOK
<1>4. CASE FindRefreshToken(h)
  BY <1>4 DEF FindRefreshToken, Goto, Answer, TypeOK
<1>5. CASE FindById(h)
  BY <1>5 DEF FindById, Goto, Answer, TypeOK
<1>6. CASE RevokeToken(h)
  BY <1>6 DEF RevokeToken, Goto, Answer, TypeOK
<1>7. CASE IssueTokens(h)
  BY <1>7 DEF IssueTokens, TypeOK
<1>8. CASE QueryFails(h)
  BY <1>8 DEF QueryFails, Answer, TypeOK
<1>9. CASE Crash(h)
  BY <1>9 DEF Crash, Answer, TypeOK
<1> QED BY <1>1, <1>2, <1>3, <1>4, <1>5, <1>6, <1>7, <1>8, <1>9 DEF DbStep

LEMMA FinishMoves ==
    ASSUME TypeOK, NEW h \in Handlers, Finish(h)
    PROVE  /\ step[h] = "answered" /\ step' = [step EXCEPT ![h] = "idle"]
           /\ Besides(h)
           /\ UNCHANGED <<rows, tok, parent, holder, expired, mail, arg, code, got, void>>
BY DEF Finish, Goto, Besides, TypeOK, tokenVars

LEMMA RefusedMoves ==
    ASSUME TypeOK, NEW h \in Handlers, Refused(h)
    PROVE  /\ step[h] \in {"signup", "login", "refresh", "logout"}
           /\ step' = [step EXCEPT ![h] = "idle"]
           /\ Besides(h)
           /\ UNCHANGED <<rows, tok, parent, holder, expired, mail, arg, code, got, void>>
BY DEF Refused, Goto, Besides, TypeOK, tokenVars

LEMMA CallMoves ==
    ASSUME TypeOK, NEW h \in Handlers, NEW s, NEW e, NEW k, Call(h, s, e, k)
    PROVE  /\ step[h] = "idle" /\ Besides(h)
           /\ step'[h] = s /\ mail'[h] = e /\ arg'[h] = k /\ code'[h] = 0 /\ got'[h] = NoToken
           /\ UNCHANGED <<rows, tok, parent, holder, expired>>
BY DEF Call, Besides, TypeOK, tokenVars

-----------------------------------------------------------------------------

\* A request that a page waits for is under way, and no other page waits for it.
LEMMA HeldOnes ==
    ASSUME SessionTypeOK, Hands, NEW t \in Tabs, NEW h \in Held(t)
    PROVE  /\ h \in Handlers /\ step[h] # "idle"
           /\ \A u \in Tabs \ {t} : h \notin Held(u)
<1>1. flight[t] \in Handlers \cup {NoHandler} /\ form[t] \in Handlers \cup {NoHandler}
  BY DEF SessionTypeOK
<1>2. RefreshHeld(t) /\ FormHeld(t)
  BY DEF Hands
<1>3. h \in Handlers
  BY <1>1 DEF Held
<1>4. h # NoHandler
  BY DEF Held
<1>5. CASE h = flight[t]
  BY <1>2, <1>3, <1>4, <1>5 DEF RefreshHeld, RefreshSteps, Hands
<1>6. CASE h = form[t]
  BY <1>2, <1>3, <1>4, <1>6 DEF FormHeld, LoginSteps, LogoutSteps, Hands
<1> QED BY <1>5, <1>6 DEF Held

\* A page that a step leaves alone, with its requests.
LEMMA SameTab ==
    ASSUME SessionTypeOK, Hands, NEW t \in Tabs, waits'[t] = waits[t], flight'[t] = flight[t],
           form'[t] = form[t], ui'[t] = ui[t],
           \A k \in Held(t) : step'[k] = step[k] /\ code'[k] = code[k] /\ got'[k] = got[k]
                              /\ arg'[k] = arg[k]
    PROVE  RefreshHeld(t)' /\ FormHeld(t)'
<1>1. RefreshHeld(t) /\ FormHeld(t)
  BY DEF Hands
<1>2. RefreshHeld(t)'
  BY <1>1 DEF RefreshHeld, Held, Issues
<1>3. FormHeld(t)'
  BY <1>1 DEF FormHeld, Held, Issues
<1> QED BY <1>2, <1>3

\* Only tab t acts, and of the requests only h changes, which no other tab holds.
LEMMA HandsAgain ==
    ASSUME SessionTypeOK, Hands, NEW t \in Tabs, NEW h, Besides(h),
           \A u \in Tabs \ {t} : /\ waits'[u] = waits[u] /\ flight'[u] = flight[u]
                                 /\ form'[u] = form[u] /\ ui'[u] = ui[u]
                                 /\ h \notin Held(u),
           RefreshHeld(t)', FormHeld(t)', flight'[t] = NoHandler \/ flight'[t] # form'[t],
           {flight'[t], form'[t]} \ {NoHandler} \subseteq Held(t) \cup {h}
    PROVE  Hands'
<1>1. ASSUME NEW u \in Tabs \ {t} PROVE RefreshHeld(u)' /\ FormHeld(u)'
  <2>1. \A k \in Held(u) : step'[k] = step[k] /\ code'[k] = code[k] /\ got'[k] = got[k]
                           /\ arg'[k] = arg[k]
    BY HeldOnes DEF Besides
  <2> QED BY <2>1, SameTab
<1>2. \A u \in Tabs \ {t} : Held(u)' = Held(u)
  BY DEF Held
<1>3. Held(t)' \subseteq Held(t) \cup {h}
  BY DEF Held
<1>4. \A u \in Tabs \ {t} : Held(t)' \cap Held(u)' = {}
  BY <1>2, <1>3 DEF Hands
<1>5. \A u, v \in Tabs : u # v => Held(u)' \cap Held(v)' = {}
  BY <1>2, <1>4 DEF Hands
<1>6. \A u \in Tabs : flight'[u] = NoHandler \/ flight'[u] # form'[u]
  BY DEF Hands
<1> QED BY <1>1, <1>5, <1>6 DEF Hands

\* Steps of a page alone.
LEMMA AloneHands ==
    ASSUME HandsInv, NEW t \in Tabs, UNCHANGED authVars,
           \A u \in Tabs \ {t} : /\ waits'[u] = waits[u] /\ flight'[u] = flight[u]
                                 /\ form'[u] = form[u] /\ ui'[u] = ui[u],
           RefreshHeld(t)', FormHeld(t)',
           flight'[t] \in {flight[t], NoHandler}, form'[t] \in {form[t], NoHandler}
    PROVE  Hands'
<1>1. Besides(NoHandler) /\ \A u \in Tabs : NoHandler \notin Held(u)
  BY DEF Besides, Held, authVars, handlerVars
<1>2. {flight'[t], form'[t]} \ {NoHandler} \subseteq Held(t) \cup {NoHandler}
  BY DEF Held
<1>3. flight'[t] = NoHandler \/ flight'[t] # form'[t]
  BY DEF HandsInv, Hands
<1> QED BY <1>1, <1>2, <1>3, HandsAgain DEF HandsInv

\* What is typed, put together.
TypedCalls ==
    /\ call \in [Tabs -> [Calls -> {"idle", "sent", "waiting", "resent"}]]
    /\ bearer \in [Tabs -> [Calls -> {"none", "good", "stale"}]]
    /\ waits \in [Tabs -> [Calls -> Handlers \cup {NoHandler}]]
    /\ \A t \in Tabs, c \in Calls : call[t][c] = "waiting" <=> waits[t][c] # NoHandler

TypedTabs ==
    /\ refresh \in Tokens \cup {NoToken} /\ access \in {"none", "good", "stale"}
    /\ refresh = NoToken <=> access = "none"
    /\ ui \in [Tabs -> {"starting", "in", "entering", "leaving", "out"}]
    /\ flight \in [Tabs -> Handlers \cup {NoHandler}]
    /\ form \in [Tabs -> Handlers \cup {NoHandler}]
    /\ denied \subseteq Tabs

LEMMA TypeParts == SessionTypeOK <=> TypedCalls /\ TypedTabs
<1>1. (refresh = NoToken) = (access = "none") <=> (refresh = NoToken <=> access = "none")
  OBVIOUS
<1>2. \A t \in Tabs, c \in Calls :
          (call[t][c] = "waiting") = (waits[t][c] # NoHandler)
              <=> (call[t][c] = "waiting" <=> waits[t][c] # NoHandler)
  OBVIOUS
<1> QED BY <1>1, <1>2 DEF SessionTypeOK, TypedCalls, TypedTabs

LEMMA TypePartsNext == TypedCalls' /\ TypedTabs' => SessionTypeOK'
BY TypeParts, PTL

\* Calls cs of tab t fail.
LEMMA FailTypes ==
    ASSUME TypedCalls, NEW t \in Tabs, NEW cs \in SUBSET Calls, Fail(t, cs)
    PROVE  /\ TypedCalls'
           /\ \A u \in Tabs \ {t} : call'[u] = call[u] /\ waits'[u] = waits[u]
           /\ \A c \in Calls : /\ c \in cs => call'[t][c] = "idle" /\ waits'[t][c] = NoHandler
                               /\ c \notin cs => call'[t][c] = call[t][c] /\ waits'[t][c] = waits[t][c]
<1>1. /\ call' \in [Tabs -> [Calls -> {"idle", "sent", "waiting", "resent"}]]
      /\ waits' \in [Tabs -> [Calls -> Handlers \cup {NoHandler}]]
      /\ \A u \in Tabs \ {t} : call'[u] = call[u] /\ waits'[u] = waits[u]
      /\ \A c \in Calls : /\ call'[t][c] = (IF c \in cs THEN "idle" ELSE call[t][c])
                          /\ waits'[t][c] = (IF c \in cs THEN NoHandler ELSE waits[t][c])
  BY DEF Fail, TypedCalls
<1>2. ASSUME NEW u \in Tabs, NEW c \in Calls
      PROVE  call'[u][c] = "waiting" <=> waits'[u][c] # NoHandler
  BY <1>1 DEF TypedCalls
<1> QED BY <1>1, <1>2 DEF Fail, TypedCalls

\* The page shows the user out exactly if its own call failed, and then only.
LEMMA SignOutTypes ==
    ASSUME TypedTabs, NEW t \in Tabs, NEW cs, FailAndSignOut(t, cs)
    PROVE  /\ refresh' \in {refresh, NoToken} /\ refresh' \in Tokens \cup {NoToken}
           /\ access' \in {"none", "good", "stale"} /\ (refresh' = NoToken <=> access' = "none")
           /\ ui' \in [Tabs -> {"starting", "in", "entering", "leaving", "out"}]
           /\ \A u \in Tabs \ {t} : ui'[u] = ui[u]
           /\ ui'[t] = IF Me \in cs THEN "out" ELSE ui[t]
           /\ Me \notin cs => refresh' = refresh
BY DEF FailAndSignOut, ClearTokens, Show, TypedTabs, store

\* Calls cs of tab t fail, with them the refresh that they wait for, and besides only
\* request h changes.
LEMMA FailedRefresh ==
    ASSUME SessionTypeOK, Hands, NEW t \in Tabs, NEW cs \in SUBSET Calls, Fail(t, cs),
           NEW h, Besides(h),
           \/ flight' = flight /\ (h = NoHandler \/ h # flight[t]) /\ \A c \in cs : waits[t][c] = NoHandler
           \/ flight' = [flight EXCEPT ![t] = NoHandler] /\ Waiting(t, flight[t]) \subseteq cs
    PROVE  /\ RefreshHeld(t)' /\ flight' \in [Tabs -> Handlers \cup {NoHandler}]
           /\ flight'[t] \in {flight[t], NoHandler}
           /\ \A u \in Tabs \ {t} : flight'[u] = flight[u] /\ waits'[u] = waits[u]
<1>1. TypedCalls /\ TypedTabs
  BY TypeParts
<1>2. /\ \A u \in Tabs \ {t} : call'[u] = call[u] /\ waits'[u] = waits[u]
      /\ \A c \in Calls : /\ c \in cs => waits'[t][c] = NoHandler
                          /\ c \notin cs => waits'[t][c] = waits[t][c]
  BY <1>1, FailTypes
<1>3. /\ flight' \in [Tabs -> Handlers \cup {NoHandler}] /\ flight'[t] \in {flight[t], NoHandler}
      /\ \A u \in Tabs \ {t} : flight'[u] = flight[u]
  BY <1>1 DEF TypedTabs
<1>4. RefreshHeld(t)'
  <2>1. RefreshHeld(t)
    BY DEF Hands
  <2>2. CASE flight' = flight /\ (h = NoHandler \/ h # flight[t]) /\ \A c \in cs : waits[t][c] = NoHandler
    <3>1. \A c \in Calls : waits'[t][c] = waits[t][c]
      BY <1>2, <2>2
    <3>2. CASE flight[t] = NoHandler
      BY <2>1, <2>2, <3>1, <3>2 DEF RefreshHeld
    <3>3. CASE flight[t] # NoHandler
      <4>1. flight[t] \in Handlers \ {h}
        BY <1>1, <2>2, <3>3 DEF TypedTabs
      <4> QED BY <2>1, <2>2, <3>1, <4>1 DEF RefreshHeld, Issues, Besides
    <3> QED BY <3>2, <3>3
  <2>3. CASE flight' = [flight EXCEPT ![t] = NoHandler] /\ Waiting(t, flight[t]) \subseteq cs
    <3>1. flight'[t] = NoHandler
      BY <1>1, <2>3 DEF TypedTabs
    <3>2. \A c \in Calls : waits'[t][c] = NoHandler
      BY <1>2, <2>1, <2>3 DEF RefreshHeld, Waiting
    <3> QED BY <3>1, <3>2 DEF RefreshHeld
  <2> QED BY <2>2, <2>3
<1> QED BY <1>2, <1>3, <1>4

\* A form that no step has touched.
LEMMA SameForm ==
    ASSUME SessionTypeOK, NEW t \in Tabs, FormHeld(t), NEW h, Besides(h), h = NoHandler \/ h # form[t],
           form'[t] = form[t],
           ui'[t] = ui[t] \/ {ui[t], ui'[t]} \cap {"entering", "leaving"} = {}
    PROVE  FormHeld(t)'
<1>1. CASE form[t] = NoHandler
  BY <1>1 DEF FormHeld
<1>2. CASE form[t] # NoHandler
  <2>1. form[t] \in Handlers \ {h}
    BY <1>2 DEF SessionTypeOK
  <2>2. ui'[t] = ui[t]
    BY <1>2 DEF FormHeld
  <2>3. /\ step'[form[t]] = step[form[t]] /\ code'[form[t]] = code[form[t]]
        /\ got'[form[t]] = got[form[t]]
    BY <2>1 DEF Besides
  <2>4. Issues(form[t])' <=> step'[form'[t]] = "answered" /\ code'[form'[t]] = 200
    BY DEF Issues
  <2> QED BY <2>2, <2>3, <2>4 DEF FormHeld, Issues
<1> QED BY <1>1, <1>2

\* The ends of Blip, GiveUp and RefreshFailed.
LEMMA FailedHands ==
    ASSUME HandsInv, NEW t \in Tabs, NEW cs \in SUBSET Calls, FailAndSignOut(t, cs),
           \A c \in cs : call[t][c] # "idle",
           NEW h, Besides(h), h = NoHandler \/ h # form[t], \A u \in Tabs \ {t} : h \notin Held(u),
           \/ flight' = flight /\ (h = NoHandler \/ h # flight[t]) /\ \A c \in cs : waits[t][c] = NoHandler
           \/ flight' = [flight EXCEPT ![t] = NoHandler] /\ Waiting(t, flight[t]) \subseteq cs,
           UNCHANGED form, denied' \subseteq Tabs
    PROVE  SessionTypeOK' /\ Hands' /\ Starting'
<1>1. TypedCalls /\ TypedTabs /\ Me \in Calls /\ SessionTypeOK /\ Hands /\ FormHeld(t)
  BY TypeParts, SessionAssumption DEF HandsInv, Hands
<1>2. /\ TypedCalls'
      /\ \A u \in Tabs \ {t} : call'[u] = call[u] /\ waits'[u] = waits[u]
      /\ \A c \in Calls : /\ c \in cs => call'[t][c] = "idle" /\ waits'[t][c] = NoHandler
                          /\ c \notin cs => call'[t][c] = call[t][c] /\ waits'[t][c] = waits[t][c]
  BY <1>1, FailTypes DEF FailAndSignOut
<1>3. /\ refresh' \in {refresh, NoToken} /\ refresh' \in Tokens \cup {NoToken}
      /\ access' \in {"none", "good", "stale"} /\ (refresh' = NoToken <=> access' = "none")
      /\ ui' \in [Tabs -> {"starting", "in", "entering", "leaving", "out"}]
      /\ \A u \in Tabs \ {t} : ui'[u] = ui[u]
      /\ ui'[t] = IF Me \in cs THEN "out" ELSE ui[t]
  BY <1>1, SignOutTypes
<1>4. /\ RefreshHeld(t)' /\ flight' \in [Tabs -> Handlers \cup {NoHandler}]
      /\ flight'[t] \in {flight[t], NoHandler}
      /\ \A u \in Tabs \ {t} : flight'[u] = flight[u] /\ waits'[u] = waits[u]
  BY <1>1, FailedRefresh DEF FailAndSignOut
<1>5. SessionTypeOK'
  <2>1. TypedTabs'
    BY <1>1, <1>3, <1>4 DEF TypedTabs
  <2> QED BY <1>2, <2>1, TypePartsNext
<1>6. Me \in cs => ui[t] = "starting"
  BY <1>1 DEF HandsInv, Starting
<1>7. Starting'
  BY <1>1, <1>2, <1>3, <1>6 DEF HandsInv, Starting
<1>8. FormHeld(t)'
  BY <1>1, <1>3, <1>6, SameForm
<1>9. flight'[t] = NoHandler \/ flight'[t] # form'[t]
  BY <1>1, <1>4 DEF Hands
<1>10. {flight'[t], form'[t]} \ {NoHandler} \subseteq Held(t) \cup {h}
  BY <1>4 DEF Held
<1>11. \A u \in Tabs \ {t} : /\ waits'[u] = waits[u] /\ flight'[u] = flight[u]
                             /\ form'[u] = form[u] /\ ui'[u] = ui[u] /\ h \notin Held(u)
  BY <1>3, <1>4
<1>12. Hands'
  BY <1>1, <1>4, <1>8, <1>9, <1>10, <1>11, HandsAgain
<1> QED BY <1>5, <1>7, <1>12

\* Calls that wait for h make it the page's refresh.
LEMMA WaitingOnes ==
    ASSUME HandsInv, NEW t \in Tabs, NEW h \in Handlers, Waiting(t, h) # {}
    PROVE  /\ flight[t] = h /\ h # NoHandler /\ h # form[t] /\ \A u \in Tabs \ {t} : h \notin Held(u)
           /\ Waiting(t, h) \in SUBSET Calls
           /\ \A c \in Waiting(t, h) : call[t][c] = "waiting"
<1>1. RefreshHeld(t) /\ h # NoHandler /\ TypedCalls /\ SessionTypeOK /\ Hands
  BY TypeParts, SessionAssumption DEF HandsInv, Hands
<1>2. flight[t] = h
  BY <1>1 DEF RefreshHeld, Waiting
<1>3. h \in Held(t) /\ h # form[t]
  BY <1>1, <1>2 DEF Held, Hands
<1>4. \A u \in Tabs \ {t} : h \notin Held(u)
  BY <1>1, <1>3, HeldOnes
<1>5. \A c \in Waiting(t, h) : call[t][c] = "waiting"
  BY <1>1 DEF Waiting, TypedCalls
<1> QED BY <1>1, <1>2, <1>3, <1>4, <1>5 DEF Waiting

LEMMA NobodyMoves ==
    ASSUME UNCHANGED authVars
    PROVE  \A h : Besides(h)
BY DEF authVars, handlerVars, Besides

\* NoHandler stands for no request where nothing changes.
LEMMA NoOne == \A t \in Tabs : NoHandler \notin Held(t)
BY DEF Held

LEMMA BlipHands ==
    ASSUME HandsInv, NEW t \in Tabs, NEW c \in Calls, Blip(t, c) \/ GiveUp(t, c)
    PROVE  SessionTypeOK' /\ Hands' /\ Starting'
<1>1. /\ FailAndSignOut(t, {c}) /\ call[t][c] \in {"sent", "resent"}
      /\ UNCHANGED <<authVars, flight, form>> /\ denied' \subseteq Tabs
  BY DEF Blip, GiveUp, Unauthorized, HandsInv, SessionTypeOK
<1>2. waits[t][c] = NoHandler /\ SessionTypeOK /\ Hands
  <2>1. TypedCalls
    BY TypeParts DEF HandsInv
  <2> QED BY <1>1, <2>1 DEF TypedCalls, HandsInv
<1>5. Besides(NoHandler) /\ \A u \in Tabs \ {t} : NoHandler \notin Held(u)
  BY <1>1, NobodyMoves, NoOne
<1>6. {c} \in SUBSET Calls
  OBVIOUS
<1> QED BY <1>1, <1>2, <1>5, <1>6, FailedHands

LEMMA RefreshFailedHands ==
    ASSUME HandsInv, NEW t \in Tabs, NEW h \in Handlers, RefreshFailed(t, h)
    PROVE  SessionTypeOK' /\ Hands' /\ Starting'
<1>1. /\ flight[t] = h /\ h # form[t] /\ \A u \in Tabs \ {t} : h \notin Held(u)
      /\ Waiting(t, h) \in SUBSET Calls
      /\ \A c \in Waiting(t, h) : call[t][c] = "waiting"
  BY WaitingOnes DEF RefreshFailed
<1>2. Besides(h)
  <2>1. CASE Finish(h)
    BY <2>1, FinishMoves DEF HandsInv
  <2>2. CASE Refused(h)
    BY <2>2, RefusedMoves DEF HandsInv
  <2>3. CASE UNCHANGED authVars
    BY <2>3, NobodyMoves
  <2> QED BY <2>1, <2>2, <2>3 DEF RefreshFailed
<1>3. flight' = [flight EXCEPT ![t] = NoHandler]
  <2>1. flight' = [flight EXCEPT ![t] = IF flight[t] = h THEN NoHandler ELSE flight[t]]
    BY DEF RefreshFailed, Landed
  <2> QED BY <1>1, <2>1
<1>4. FailAndSignOut(t, Waiting(t, h)) /\ UNCHANGED form /\ denied' \subseteq Tabs
  BY DEF RefreshFailed, FailForNow, HandsInv, SessionTypeOK
<1>5. \A c \in Waiting(t, h) : call[t][c] # "idle"
  BY <1>1
<1>6. Waiting(t, flight[t]) \subseteq Waiting(t, h)
  BY <1>1
<1> QED BY <1>1, <1>2, <1>3, <1>4, <1>5, <1>6, FailedHands

LEMMA SendHands ==
    ASSUME HandsInv, NEW t \in Tabs, NEW c \in Calls, Send(t, c)
    PROVE  SessionTypeOK' /\ Hands' /\ Starting'
<1>1. TypedCalls /\ TypedTabs /\ Hands /\ Starting /\ Me \in Calls
  BY TypeParts, SessionAssumption DEF HandsInv
<1>2. /\ call' \in [Tabs -> [Calls -> {"idle", "sent", "waiting", "resent"}]]
      /\ call'[t][c] = "sent" /\ \A u \in Tabs \ {t} : call'[u] = call[u]
      /\ \A d \in Calls \ {c} : call'[t][d] = call[t][d]
  BY <1>1 DEF Send, TypedCalls
<1>3. bearer' \in [Tabs -> [Calls -> {"none", "good", "stale"}]]
  BY <1>1 DEF Send, TypedCalls, TypedTabs
<1>4. UNCHANGED <<authVars, store, waits, tabVars>> /\ call[t][c] = "idle" /\ c # Me
      /\ ui[t] # "starting"
  BY DEF Send
<1>5. TypedCalls'
  <2>1. ASSUME NEW u \in Tabs, NEW d \in Calls
        PROVE  call'[u][d] = "waiting" <=> waits'[u][d] # NoHandler
    <3>1. waits'[u][d] = waits[u][d] /\ (call[u][d] = "waiting" <=> waits[u][d] # NoHandler)
      BY <1>1, <1>4 DEF TypedCalls
    <3> QED BY <1>2, <1>4, <3>1
  <2>2. waits' \in [Tabs -> [Calls -> Handlers \cup {NoHandler}]]
    BY <1>1, <1>4 DEF TypedCalls
  <2> QED BY <1>2, <1>3, <2>1, <2>2 DEF TypedCalls
<1>6. TypedTabs'
  BY <1>1, <1>4 DEF TypedTabs, store, tabVars
<1>7. Hands'
  BY <1>1, <1>4 DEF Hands, RefreshHeld, FormHeld, Held, Issues, authVars, handlerVars, tabVars
<1>8. Starting'
  BY <1>1, <1>2, <1>4 DEF Starting, tabVars
<1> QED BY <1>5, <1>6, <1>7, <1>8, TypePartsNext

LEMMA SucceedHands ==
    ASSUME HandsInv, NEW t \in Tabs, NEW c \in Calls, Succeed(t, c)
    PROVE  SessionTypeOK' /\ Hands' /\ Starting'
<1>1. TypedCalls /\ TypedTabs /\ Hands /\ Starting /\ Me \in Calls /\ FormHeld(t) /\ RefreshHeld(t)
  BY TypeParts, SessionAssumption DEF HandsInv, Hands
<1>2. /\ call' \in [Tabs -> [Calls -> {"idle", "sent", "waiting", "resent"}]]
      /\ call'[t][c] = "idle" /\ \A u \in Tabs \ {t} : call'[u] = call[u]
      /\ \A d \in Calls \ {c} : call'[t][d] = call[t][d]
  BY <1>1 DEF Succeed, TypedCalls
<1>3. UNCHANGED <<authVars, store, bearer, waits, flight, form>>
      /\ call[t][c] \in {"sent", "resent"} /\ denied' = denied \ {t}
  BY DEF Succeed
<1>4. /\ ui' \in [Tabs -> {"starting", "in", "entering", "leaving", "out"}]
      /\ \A u \in Tabs \ {t} : ui'[u] = ui[u]
      /\ ui'[t] = IF c = Me THEN "in" ELSE ui[t]
  BY <1>1 DEF Succeed, Show, TypedTabs
<1>5. TypedCalls'
  <2>1. ASSUME NEW u \in Tabs, NEW d \in Calls
        PROVE  call'[u][d] = "waiting" <=> waits'[u][d] # NoHandler
    <3>1. waits'[u][d] = waits[u][d] /\ (call[u][d] = "waiting" <=> waits[u][d] # NoHandler)
      BY <1>1, <1>3 DEF TypedCalls
    <3> QED BY <1>2, <1>3, <3>1
  <2> QED BY <1>1, <1>2, <1>3, <2>1 DEF TypedCalls
<1>6. TypedTabs'
  BY <1>1, <1>3, <1>4 DEF TypedTabs, store
<1>7. c = Me => ui[t] = "starting"
  BY <1>1, <1>3 DEF Starting
<1>8. Hands'
  <2>1. FormHeld(t)'
    BY <1>1, <1>3, <1>4, <1>7 DEF FormHeld, Issues, authVars, handlerVars
  <2>2. RefreshHeld(t)'
    BY <1>1, <1>3 DEF RefreshHeld, Issues, authVars, handlerVars
  <2>3. \A u \in Tabs \ {t} : /\ waits'[u] = waits[u] /\ flight'[u] = flight[u]
                              /\ form'[u] = form[u] /\ ui'[u] = ui[u]
    BY <1>3, <1>4
  <2> QED BY <1>3, <2>1, <2>2, <2>3, AloneHands
<1>9. Starting'
  BY <1>1, <1>2, <1>4, <1>7 DEF Starting
<1> QED BY <1>5, <1>6, <1>8, <1>9, TypePartsNext

\* A request that comes in is nobody's yet.
LEMMA FreeOnes ==
    ASSUME HandsInv, NEW h \in Handlers, step[h] = "idle"
    PROVE  h # NoHandler /\ \A t \in Tabs : h \notin Held(t) /\ h # flight[t] /\ h # form[t]
<1>1. h # NoHandler /\ SessionTypeOK /\ Hands
  BY SessionAssumption DEF HandsInv
<1>2. \A t \in Tabs : h \notin Held(t)
  BY <1>1, HeldOnes
<1> QED BY <1>1, <1>2 DEF Held

LEMMA AwaitHands ==
    ASSUME HandsInv, NEW t \in Tabs, NEW c \in Calls, AwaitRefresh(t, c)
    PROVE  SessionTypeOK' /\ Hands' /\ Starting'
<1>1. /\ TypedCalls /\ TypedTabs /\ Hands /\ Starting /\ Me \in Calls /\ SessionTypeOK
      /\ FormHeld(t) /\ RefreshHeld(t) /\ TypeOK /\ NoHandler \notin Handlers
  BY TypeParts, SessionAssumption DEF HandsInv, Hands
<1>2. /\ call' \in [Tabs -> [Calls -> {"idle", "sent", "waiting", "resent"}]]
      /\ call'[t][c] = "waiting" /\ \A u \in Tabs \ {t} : call'[u] = call[u]
      /\ \A d \in Calls \ {c} : call'[t][d] = call[t][d]
  BY <1>1 DEF AwaitRefresh, TypedCalls
<1>3. UNCHANGED <<store, bearer, ui, form, denied>> /\ call[t][c] = "sent" /\ refresh # NoToken
  BY DEF AwaitRefresh
<1>4. \E h \in Handlers \cup {NoHandler}, f \in Handlers :
          /\ Besides(h) /\ \A u \in Tabs : h \notin Held(u)
          /\ waits' = [waits EXCEPT ![t][c] = f] /\ flight' = [flight EXCEPT ![t] = f]
          /\ h = NoHandler => f = flight[t] /\ UNCHANGED authVars
          /\ h # NoHandler => /\ f = h /\ flight[t] = NoHandler /\ step'[h] = "refresh"
                              /\ arg'[h] = refresh
  <2>1. CASE InFlight(t) /\ waits' = [waits EXCEPT ![t][c] = flight[t]] /\ UNCHANGED <<authVars, flight>>
    <3>1. Besides(NoHandler) /\ \A u \in Tabs : NoHandler \notin Held(u)
      BY <2>1, NobodyMoves, NoOne
    <3>2. flight[t] \in Handlers /\ flight' = [flight EXCEPT ![t] = flight[t]]
      BY <1>1, <2>1 DEF InFlight, TypedTabs
    <3> QED BY <2>1, <3>1, <3>2
  <2>2. ASSUME NEW h \in Handlers, ~InFlight(t), Refresh(h, refresh),
               flight' = [flight EXCEPT ![t] = h], waits' = [waits EXCEPT ![t][c] = h]
        PROVE  /\ Besides(h) /\ h # NoHandler /\ flight[t] = NoHandler
               /\ \A u \in Tabs : h \notin Held(u)
               /\ step'[h] = "refresh" /\ arg'[h] = refresh
    <3>1. Call(h, "refresh", holder[refresh], refresh)
      BY <2>2 DEF Refresh
    <3>2. /\ step[h] = "idle" /\ Besides(h) /\ step'[h] = "refresh" /\ arg'[h] = refresh
      BY <1>1, <3>1, CallMoves
    <3> QED BY <2>2, <3>2, FreeOnes DEF InFlight
  <2> QED BY <2>1, <2>2 DEF AwaitRefresh
<1>5. PICK h \in Handlers \cup {NoHandler}, f \in Handlers :
          /\ Besides(h) /\ \A u \in Tabs : h \notin Held(u)
          /\ waits' = [waits EXCEPT ![t][c] = f] /\ flight' = [flight EXCEPT ![t] = f]
          /\ h = NoHandler => f = flight[t] /\ UNCHANGED authVars
          /\ h # NoHandler => /\ f = h /\ flight[t] = NoHandler /\ step'[h] = "refresh"
                              /\ arg'[h] = refresh
  BY <1>4
<1>6. /\ waits' \in [Tabs -> [Calls -> Handlers \cup {NoHandler}]]
      /\ waits'[t][c] = f /\ \A u \in Tabs \ {t} : waits'[u] = waits[u]
      /\ \A d \in Calls \ {c} : waits'[t][d] = waits[t][d]
      /\ flight' \in [Tabs -> Handlers \cup {NoHandler}] /\ flight'[t] = f
      /\ \A u \in Tabs \ {t} : flight'[u] = flight[u]
  BY <1>1, <1>5 DEF TypedCalls, TypedTabs
<1>7. TypedCalls'
  <2>1. ASSUME NEW u \in Tabs, NEW d \in Calls
        PROVE  call'[u][d] = "waiting" <=> waits'[u][d] # NoHandler
    <3>1. call[u][d] = "waiting" <=> waits[u][d] # NoHandler
      BY <1>1 DEF TypedCalls
    <3>2. f # NoHandler
      BY <1>1
    <3> QED BY <1>2, <1>6, <3>1, <3>2
  <2> QED BY <1>1, <1>2, <1>3, <1>6, <2>1 DEF TypedCalls
<1>8. TypedTabs'
  BY <1>1, <1>3, <1>6 DEF TypedTabs, store
<1>9. Starting'
  BY <1>1, <1>2, <1>3 DEF Starting
<1>10. RefreshHeld(t)'
  <2>1. \A d \in Calls : waits'[t][d] \in {NoHandler, f}
    BY <1>1, <1>5, <1>6 DEF RefreshHeld
  <2>2. CASE h = NoHandler
    <3>1. f = flight[t] /\ f # NoHandler /\ UNCHANGED <<step, arg, code, got>>
      BY <1>1, <1>5, <2>2 DEF authVars, handlerVars
    <3>2. flight'[t] = flight[t] /\ (Issues(flight[t])' <=> Issues(flight[t]))
      BY <1>6, <3>1 DEF Issues
    <3> QED BY <1>1, <1>6, <2>1, <3>1, <3>2 DEF RefreshHeld, Issues
  <2>3. CASE h # NoHandler
    <3>1. f = h /\ step'[f] = "refresh" /\ arg'[f] \in Tokens
      BY <1>1, <1>3, <1>5, <2>3 DEF TypedTabs
    <3> QED BY <1>6, <2>1, <3>1 DEF RefreshHeld, RefreshSteps, Issues
  <2> QED BY <2>2, <2>3
<1>11. h = NoHandler \/ h # form[t]
  BY <1>5 DEF Held
<1>12. FormHeld(t)'
  BY <1>1, <1>3, <1>5, <1>11, SameForm
<1>13. flight'[t] = NoHandler \/ flight'[t] # form'[t]
  BY <1>1, <1>3, <1>5, <1>6, <1>11 DEF Hands
<1>14. {flight'[t], form'[t]} \ {NoHandler} \subseteq Held(t) \cup {h}
  BY <1>3, <1>5, <1>6 DEF Held
<1>15. Hands'
  BY <1>1, <1>3, <1>5, <1>6, <1>10, <1>12, <1>13, <1>14, HandsAgain
<1> QED BY <1>7, <1>8, <1>9, <1>15, TypePartsNext

\* A refresh that was answered, with the calls that waited for it.
LEMMA RefreshedHands ==
    ASSUME HandsInv, NEW t \in Tabs, NEW h \in Handlers, Refreshed(t, h)
    PROVE  SessionTypeOK' /\ Hands' /\ Starting'
<1>1. /\ TypedCalls /\ TypedTabs /\ Hands /\ Starting /\ Me \in Calls /\ SessionTypeOK
      /\ FormHeld(t) /\ RefreshHeld(t) /\ TypeOK /\ NoHandler \notin Handlers
      /\ NoToken \notin Tokens
  BY TypeParts, SessionAssumption, NoTokenAssumption DEF HandsInv, Hands
<1>2. /\ flight[t] = h /\ h # NoHandler /\ h # form[t] /\ \A u \in Tabs \ {t} : h \notin Held(u)
      /\ \A c \in Waiting(t, h) : c \in Calls /\ call[t][c] = "waiting"
  BY WaitingOnes DEF Refreshed
<1>3. Besides(h) /\ step[h] = "answered" /\ code[h] = 200
  BY <1>1, FinishMoves DEF Refreshed
<1>4. got[h] \in Tokens
  BY <1>1, <1>2, <1>3 DEF RefreshHeld, Issues
<1>5. /\ call' \in [Tabs -> [Calls -> {"idle", "sent", "waiting", "resent"}]]
      /\ \A u \in Tabs \ {t} : call'[u] = call[u]
      /\ \A c \in Calls : call'[t][c] = IF c \in Waiting(t, h) THEN "resent" ELSE call[t][c]
  BY <1>1 DEF Refreshed, TypedCalls
<1>6. bearer' \in [Tabs -> [Calls -> {"none", "good", "stale"}]]
  BY <1>1 DEF Refreshed, TypedCalls
<1>7. /\ waits' \in [Tabs -> [Calls -> Handlers \cup {NoHandler}]]
      /\ \A u \in Tabs \ {t} : waits'[u] = waits[u]
      /\ \A c \in Calls : waits'[t][c] = IF c \in Waiting(t, h) THEN NoHandler ELSE waits[t][c]
  BY <1>1 DEF Refreshed, TypedCalls
<1>8. /\ flight' \in [Tabs -> Handlers \cup {NoHandler}] /\ flight'[t] = NoHandler
      /\ \A u \in Tabs \ {t} : flight'[u] = flight[u]
  BY <1>1, <1>2 DEF Refreshed, Landed, TypedTabs
<1>9. refresh' = got[h] /\ access' = "good" /\ UNCHANGED <<ui, form, denied>>
  BY DEF Refreshed, SetTokens
<1>10. TypedCalls'
  <2>1. ASSUME NEW u \in Tabs, NEW c \in Calls
        PROVE  call'[u][c] = "waiting" <=> waits'[u][c] # NoHandler
    <3>1. call[u][c] = "waiting" <=> waits[u][c] # NoHandler
      BY <1>1 DEF TypedCalls
    <3> QED BY <1>5, <1>7, <3>1
  <2> QED BY <1>5, <1>6, <1>7, <2>1 DEF TypedCalls
<1>11. TypedTabs'
  <2>1. refresh' # NoToken /\ refresh' \in Tokens
    BY <1>1, <1>4, <1>9
  <2> QED BY <1>1, <1>8, <1>9, <2>1 DEF TypedTabs
<1>12. Starting'
  <2>1. \A u \in Tabs, c \in Calls : call'[u][c] = "idle" <=> call[u][c] = "idle"
    BY <1>2, <1>5
  <2> QED BY <1>1, <1>9, <2>1 DEF Starting
<1>13. RefreshHeld(t)'
  <2>1. \A c \in Calls : waits'[t][c] = NoHandler
    BY <1>1, <1>2, <1>7 DEF RefreshHeld, Waiting
  <2> QED BY <1>8, <2>1 DEF RefreshHeld
<1>14. FormHeld(t)'
  BY <1>1, <1>2, <1>3, <1>9, SameForm
<1>15. {flight'[t], form'[t]} \ {NoHandler} \subseteq Held(t) \cup {h}
  BY <1>8, <1>9 DEF Held
<1>16. Hands'
  BY <1>1, <1>2, <1>3, <1>7, <1>8, <1>9, <1>13, <1>14, <1>15, HandsAgain
<1> QED BY <1>10, <1>11, <1>12, <1>16, TypePartsNext

LEMMA EndedHands ==
    ASSUME HandsInv, NEW t \in Tabs, NEW h \in Handlers, SessionEnded(t, h)
    PROVE  SessionTypeOK' /\ Hands' /\ Starting'
<1>1. /\ TypedCalls /\ TypedTabs /\ Hands /\ Starting /\ Me \in Calls /\ SessionTypeOK
      /\ FormHeld(t) /\ RefreshHeld(t) /\ TypeOK
  BY TypeParts, SessionAssumption DEF HandsInv, Hands
<1>2. /\ flight[t] = h /\ h # NoHandler /\ h # form[t] /\ \A u \in Tabs \ {t} : h \notin Held(u)
      /\ Waiting(t, h) \in SUBSET Calls
      /\ \A c \in Waiting(t, h) : call[t][c] = "waiting"
  BY WaitingOnes DEF SessionEnded
<1>3. Besides(h)
  BY <1>1, FinishMoves DEF SessionEnded
<1>4. /\ refresh' = NoToken /\ access' = "none" /\ UNCHANGED <<form, denied>>
      /\ Fail(t, Waiting(t, h)) /\ Waiting(t, h) # {}
  BY DEF SessionEnded, ClearTokens
<1>5. /\ ui' \in [Tabs -> {"starting", "in", "entering", "leaving", "out"}]
      /\ \A u \in Tabs \ {t} : ui'[u] = ui[u]
      /\ ui'[t] = ShownAfterEnd(t)
  BY <1>1 DEF SessionEnded, Show, ShownAfterEnd, TypedTabs
<1>6. flight' = [flight EXCEPT ![t] = NoHandler]
  <2>1. flight' = [flight EXCEPT ![t] = IF flight[t] = h THEN NoHandler ELSE flight[t]]
    BY DEF SessionEnded, Landed
  <2> QED BY <1>2, <2>1
<1>7. /\ RefreshHeld(t)' /\ flight' \in [Tabs -> Handlers \cup {NoHandler}]
      /\ flight'[t] \in {flight[t], NoHandler}
      /\ \A u \in Tabs \ {t} : flight'[u] = flight[u] /\ waits'[u] = waits[u]
  BY <1>1, <1>2, <1>3, <1>4, <1>6, FailedRefresh
<1>8. /\ TypedCalls'
      /\ \A u \in Tabs \ {t} : call'[u] = call[u]
      /\ \A c \in Calls : /\ c \in Waiting(t, h) => call'[t][c] = "idle"
                          /\ c \notin Waiting(t, h) => call'[t][c] = call[t][c]
  BY <1>1, <1>2, <1>4, FailTypes
<1>9. TypedTabs'
  BY <1>1, <1>4, <1>5, <1>7 DEF TypedTabs
<1>10. Starting'
  <2>1. ui'[t] # "starting"
    BY <1>5 DEF ShownAfterEnd
  <2>2. CASE ui[t] = "starting"
    <3>1. Waiting(t, h) = {Me}
      BY <1>1, <1>2, <1>4, <2>2 DEF Starting
    <3> QED BY <1>1, <1>5, <1>8, <2>1, <3>1 DEF Starting
  <2>3. CASE ui[t] # "starting"
    <3>1. call[t][Me] = "idle" /\ call'[t][Me] = "idle"
      BY <1>1, <1>8, <2>3 DEF Starting
    <3> QED BY <1>1, <1>5, <1>8, <2>1, <3>1 DEF Starting
  <2> QED BY <2>2, <2>3
<1>11. FormHeld(t)'
  <2>1. ui'[t] = ui[t] \/ {ui[t], ui'[t]} \cap {"entering", "leaving"} = {}
    BY <1>5 DEF ShownAfterEnd
  <2> QED BY <1>1, <1>2, <1>3, <1>4, <2>1, SameForm
<1>12. flight'[t] = NoHandler
  BY <1>1, <1>6 DEF TypedTabs
<1>13. {flight'[t], form'[t]} \ {NoHandler} \subseteq Held(t) \cup {h}
  BY <1>4, <1>12 DEF Held
<1>14. Hands'
  BY <1>1, <1>2, <1>3, <1>4, <1>5, <1>7, <1>11, <1>12, <1>13, HandsAgain
<1> QED BY <1>8, <1>9, <1>10, <1>14, TypePartsNext

\* The login or the logout comes in: the page's form holds h.
LEMMA FormOpens ==
    ASSUME HandsInv, NEW t \in Tabs, NEW h \in Handlers, Besides(h), step[h] = "idle",
           form' = [form EXCEPT ![t] = h], NEW s \in {"entering", "leaving"}, Show(t, s),
           step'[h] = (IF s = "entering" THEN "login" ELSE "logout"),
           ui[t] # "starting", UNCHANGED <<store, callVars, flight>>, denied' \subseteq Tabs
    PROVE  SessionTypeOK' /\ Hands' /\ Starting'
<1>1. /\ TypedCalls /\ TypedTabs /\ Hands /\ Starting /\ SessionTypeOK
      /\ FormHeld(t) /\ RefreshHeld(t) /\ NoHandler \notin Handlers
  BY TypeParts, SessionAssumption DEF HandsInv, Hands
<1>2. h # flight[t] /\ \A u \in Tabs : h \notin Held(u)
  BY FreeOnes
<1>3. /\ form' \in [Tabs -> Handlers \cup {NoHandler}] /\ form'[t] = h
      /\ ui' \in [Tabs -> {"starting", "in", "entering", "leaving", "out"}] /\ ui'[t] = s
      /\ \A u \in Tabs \ {t} : form'[u] = form[u] /\ ui'[u] = ui[u]
  BY <1>1 DEF Show, TypedTabs
<1>4. TypedCalls' /\ TypedTabs'
  BY <1>1, <1>3 DEF TypedCalls, TypedTabs, callVars, store
<1>5. Starting'
  BY <1>1, <1>3 DEF Starting, callVars
<1>6. RefreshHeld(t)'
  <2>1. CASE flight[t] = NoHandler
    BY <1>1, <2>1 DEF RefreshHeld, callVars
  <2>2. CASE flight[t] # NoHandler
    <3>1. flight[t] \in Handlers \ {h}
      BY <1>1, <1>2, <2>2 DEF TypedTabs
    <3> QED BY <1>1, <3>1 DEF RefreshHeld, Issues, Besides, callVars
  <2> QED BY <2>1, <2>2
<1>7. FormHeld(t)'
  <2>1. ~Issues(h)' /\ h # NoHandler
    BY <1>1 DEF Issues
  <2> QED BY <1>3, <2>1 DEF FormHeld, LoginSteps, LogoutSteps, Issues
<1>8. flight'[t] = NoHandler \/ flight'[t] # form'[t]
  BY <1>2, <1>3
<1>9. {flight'[t], form'[t]} \ {NoHandler} \subseteq Held(t) \cup {h}
  BY <1>3 DEF Held
<1>10. \A u \in Tabs \ {t} : /\ waits'[u] = waits[u] /\ flight'[u] = flight[u]
                             /\ form'[u] = form[u] /\ ui'[u] = ui[u] /\ h \notin Held(u)
  BY <1>2, <1>3 DEF callVars
<1>11. Hands'
  BY <1>1, <1>6, <1>7, <1>8, <1>9, <1>10, HandsAgain
<1> QED BY <1>4, <1>5, <1>11, TypePartsNext

\* The page has no form any more.
LEMMA FormCloses ==
    ASSUME HandsInv, NEW t \in Tabs, NEW h, Besides(h),
           h = NoHandler \/ h = form[t],
           form' = [form EXCEPT ![t] = NoHandler], NEW s \in {"in", "out"}, Show(t, s),
           ui[t] # "starting", UNCHANGED <<callVars, flight, denied>>,
           refresh' \in Tokens \cup {NoToken}, access' \in {"none", "good", "stale"},
           refresh' = NoToken <=> access' = "none"
    PROVE  SessionTypeOK' /\ Hands' /\ Starting'
<1>1. /\ TypedCalls /\ TypedTabs /\ Hands /\ Starting /\ SessionTypeOK
      /\ FormHeld(t) /\ RefreshHeld(t)
  BY TypeParts DEF HandsInv, Hands
<1>2. \A u \in Tabs \ {t} : h \notin Held(u)
  BY <1>1, NoOne DEF Hands, Held
<1>3. /\ form' \in [Tabs -> Handlers \cup {NoHandler}] /\ form'[t] = NoHandler
      /\ ui' \in [Tabs -> {"starting", "in", "entering", "leaving", "out"}] /\ ui'[t] = s
      /\ \A u \in Tabs \ {t} : form'[u] = form[u] /\ ui'[u] = ui[u]
  BY <1>1 DEF Show, TypedTabs
<1>4. TypedCalls' /\ TypedTabs'
  BY <1>1, <1>3 DEF TypedCalls, TypedTabs, callVars
<1>5. Starting'
  BY <1>1, <1>3 DEF Starting, callVars
<1>6. RefreshHeld(t)'
  <2>1. CASE flight[t] = NoHandler
    BY <1>1, <2>1 DEF RefreshHeld, callVars
  <2>2. CASE flight[t] # NoHandler
    <3>1. flight[t] \in Handlers \ {h}
      BY <1>1, <2>2 DEF TypedTabs, Hands
    <3> QED BY <1>1, <3>1 DEF RefreshHeld, Issues, Besides, callVars
  <2> QED BY <2>1, <2>2
<1>7. FormHeld(t)'
  BY <1>3 DEF FormHeld
<1>8. flight'[t] = NoHandler \/ flight'[t] # form'[t]
  BY <1>3
<1>9. {flight'[t], form'[t]} \ {NoHandler} \subseteq Held(t) \cup {h}
  BY <1>3 DEF Held
<1>10. \A u \in Tabs \ {t} : /\ waits'[u] = waits[u] /\ flight'[u] = flight[u]
                             /\ form'[u] = form[u] /\ ui'[u] = ui[u] /\ h \notin Held(u)
  BY <1>2, <1>3 DEF callVars
<1>11. Hands'
  BY <1>1, <1>6, <1>7, <1>8, <1>9, <1>10, HandsAgain
<1> QED BY <1>4, <1>5, <1>11, TypePartsNext

LEMMA SignInHands ==
    ASSUME HandsInv, NEW t \in Tabs, SignIn(t)
    PROVE  SessionTypeOK' /\ Hands' /\ Starting'
<1>1. PICK h \in Handlers : Login(h, User) /\ form' = [form EXCEPT ![t] = h]
  BY DEF SignIn
<1>2. Besides(h) /\ step[h] = "idle" /\ step'[h] = "login"
  BY <1>1, CallMoves DEF HandsInv, Login
<1>3. /\ ui[t] = "out" /\ Show(t, "entering") /\ denied' \subseteq Tabs
      /\ UNCHANGED <<store, callVars, flight>>
  BY DEF SignIn, HandsInv, SessionTypeOK
<1> QED BY <1>1, <1>2, <1>3, FormOpens

LEMMA SignOutHands ==
    ASSUME HandsInv, NEW t \in Tabs, SignOut(t)
    PROVE  SessionTypeOK' /\ Hands' /\ Starting'
<1>1. UNCHANGED <<callVars, flight, denied>> /\ ui[t] = "in" /\ denied \subseteq Tabs
  BY DEF SignOut, HandsInv, SessionTypeOK
<1>2. CASE refresh = NoToken
  <2>1. ClearTokens /\ Show(t, "out") /\ UNCHANGED <<authVars, form>>
    BY <1>2 DEF SignOut
  <2>2. FormHeld(t) /\ TypedTabs
    BY TypeParts DEF HandsInv, Hands
  <2>3. form[t] = NoHandler /\ form' = [form EXCEPT ![t] = NoHandler]
    BY <1>1, <2>1, <2>2 DEF FormHeld, TypedTabs
  <2>4. Besides(NoHandler)
    BY <2>1, NobodyMoves
  <2> QED BY <1>1, <2>1, <2>3, <2>4, FormCloses DEF ClearTokens
<1>3. CASE refresh # NoToken
  <2>1. PICK h \in Handlers : Logout(h, refresh) /\ form' = [form EXCEPT ![t] = h]
    BY <1>3 DEF SignOut
  <2>2. Besides(h) /\ step[h] = "idle" /\ step'[h] = "logout"
    BY <2>1, CallMoves DEF HandsInv, Logout
  <2>3. Show(t, "leaving") /\ UNCHANGED store
    BY <1>3 DEF SignOut
  <2> QED BY <1>1, <2>1, <2>2, <2>3, FormOpens
<1> QED BY <1>2, <1>3

LEMMA FormDoneHands ==
    ASSUME HandsInv, NEW t \in Tabs, FormDone(t)
    PROVE  SessionTypeOK' /\ Hands' /\ Starting'
<1>1. /\ TypedTabs /\ FormHeld(t) /\ TypeOK /\ NoToken \notin Tokens
  BY TypeParts, NoTokenAssumption DEF HandsInv, Hands
<1>2. /\ form' = [form EXCEPT ![t] = NoHandler] /\ UNCHANGED <<callVars, flight, denied>>
      /\ ui[t] \in {"entering", "leaving"}
  BY DEF FormDone, SignedIn, SignedOut
<1>3. form[t] \in Handlers
  BY <1>1, <1>2 DEF FormHeld, TypedTabs
<1>4. Besides(form[t])
  <2>1. CASE Finish(form[t])
    BY <1>1, <1>3, <2>1, FinishMoves
  <2>2. CASE Refused(form[t])
    BY <1>1, <1>3, <2>2, RefusedMoves
  <2>3. CASE UNCHANGED authVars
    BY <2>3, NobodyMoves
  <2> QED BY <2>1, <2>2, <2>3 DEF FormDone, SignedIn, SignedOut
<1>5. CASE SignedIn(t)
  <2>1. ASSUME Finish(form[t]), code[form[t]] = 200, SetTokens(form[t]), Show(t, "in")
        PROVE  SessionTypeOK' /\ Hands' /\ Starting'
    <3>1. refresh' = got[form[t]] /\ access' = "good" /\ Show(t, "in")
      BY <2>1 DEF SetTokens
    <3>2. got[form[t]] \in Tokens
      <4>1. step[form[t]] = "answered" /\ ui[t] = "entering"
        BY <1>5, <2>1 DEF SignedIn, Finish
      <4> QED BY <1>1, <2>1, <4>1 DEF FormHeld, Issues
    <3> QED BY <1>1, <1>2, <1>4, <3>1, <3>2, FormCloses
  <2>2. ASSUME Show(t, "out"), UNCHANGED store PROVE SessionTypeOK' /\ Hands' /\ Starting'
    <3>1. refresh' = refresh /\ access' = access
      BY <2>2 DEF store
    <3> QED BY <1>1, <1>2, <1>4, <2>2, <3>1, FormCloses DEF TypedTabs
  <2> QED BY <1>5, <2>1, <2>2 DEF SignedIn
<1>6. CASE SignedOut(t)
  <2>1. refresh' = NoToken /\ access' = "none" /\ Show(t, "out")
    BY <1>6 DEF SignedOut, ClearTokens
  <2> QED BY <1>2, <1>4, <2>1, FormCloses
<1> QED BY <1>5, <1>6 DEF FormDone

LEMMA ReloadHands ==
    ASSUME HandsInv, NEW t \in Tabs, Reload(t)
    PROVE  SessionTypeOK' /\ Hands' /\ Starting'
<1>1. /\ TypedCalls /\ TypedTabs /\ Hands /\ Starting /\ Me \in Calls
  BY TypeParts, SessionAssumption DEF HandsInv
<1>2. /\ call' \in [Tabs -> [Calls -> {"idle", "sent", "waiting", "resent"}]]
      /\ waits' \in [Tabs -> [Calls -> Handlers \cup {NoHandler}]]
      /\ \A u \in Tabs \ {t} : call'[u] = call[u] /\ waits'[u] = waits[u]
      /\ \A c \in Calls : /\ waits'[t][c] = NoHandler
                          /\ call'[t][c] = IF c = Me /\ access # "none" THEN "sent" ELSE "idle"
  BY <1>1 DEF Reload, TypedCalls
<1>3. bearer' \in [Tabs -> [Calls -> {"none", "good", "stale"}]]
  BY <1>1 DEF Reload, TypedCalls, TypedTabs
<1>4. /\ flight' \in [Tabs -> Handlers \cup {NoHandler}] /\ flight'[t] = NoHandler
      /\ form' \in [Tabs -> Handlers \cup {NoHandler}] /\ form'[t] = NoHandler
      /\ \A u \in Tabs \ {t} : flight'[u] = flight[u] /\ form'[u] = form[u]
  BY <1>1 DEF Reload, TypedTabs
<1>5. /\ ui' \in [Tabs -> {"starting", "in", "entering", "leaving", "out"}]
      /\ ui'[t] = IF access = "none" THEN "out" ELSE "starting"
      /\ \A u \in Tabs \ {t} : ui'[u] = ui[u]
  BY <1>1 DEF Reload, Show, TypedTabs
<1>6. UNCHANGED <<authVars, store>> /\ denied' \subseteq Tabs
  BY <1>1 DEF Reload, TypedTabs
<1>7. TypedCalls'
  <2>1. ASSUME NEW u \in Tabs, NEW d \in Calls
        PROVE  call'[u][d] = "waiting" <=> waits'[u][d] # NoHandler
    BY <1>1, <1>2 DEF TypedCalls
  <2> QED BY <1>2, <1>3, <2>1 DEF TypedCalls
<1>8. TypedTabs'
  BY <1>1, <1>4, <1>5, <1>6 DEF TypedTabs, store
<1>9. Starting'
  BY <1>1, <1>2, <1>5 DEF Starting
<1>10. RefreshHeld(t)' /\ FormHeld(t)'
  BY <1>2, <1>4, <1>5 DEF RefreshHeld, FormHeld
<1>11. Hands'
  BY <1>2, <1>4, <1>5, <1>6, <1>10, AloneHands
<1> QED BY <1>7, <1>8, <1>9, <1>11, TypePartsNext

\* Steps of the API on request h, of which it keeps the kind.
LEMMA ApiHands ==
    ASSUME HandsInv, NEW h \in Handlers, DbStep(h) \/ Crash(h),
           UNCHANGED <<store, callVars, tabVars>>
    PROVE  SessionTypeOK' /\ Hands' /\ Starting'
<1>1. /\ TypedCalls /\ TypedTabs /\ Hands /\ Starting /\ SessionTypeOK
  BY TypeParts DEF HandsInv
<1>2. /\ step[h] \notin {"idle", "answered"} /\ Besides(h) /\ arg' = arg
      /\ step[h] \in RefreshSteps => step'[h] \in RefreshSteps
      /\ step[h] \in LoginSteps => step'[h] \in LoginSteps
      /\ step[h] \in LogoutSteps => step'[h] \in LogoutSteps
      /\ step[h] # "logout" /\ step'[h] = "answered" /\ code'[h] = 200 => got'[h] \in Tokens
  BY StepMoves DEF HandsInv
<1>3. TypedCalls' /\ TypedTabs' /\ Starting'
  BY <1>1 DEF TypedCalls, TypedTabs, Starting, store, callVars, tabVars
<1>4. ASSUME NEW t \in Tabs PROVE RefreshHeld(t)'
  <2>1. RefreshHeld(t) /\ UNCHANGED <<waits, flight>> /\ flight[t] \in Handlers \cup {NoHandler}
    BY <1>1 DEF Hands, callVars, tabVars, TypedTabs
  <2>2. CASE flight[t] = h
    <3>1. h # NoHandler => /\ step'[h] \in RefreshSteps /\ arg'[h] \in Tokens
                           /\ Issues(h)' => got'[h] \in Tokens
      BY <1>2, <2>1, <2>2 DEF RefreshHeld, Issues, RefreshSteps
    <3> QED BY <2>1, <2>2, <3>1 DEF RefreshHeld, Issues
  <2>3. CASE flight[t] # h
    BY <1>2, <2>1, <2>3 DEF RefreshHeld, Besides, Issues
  <2> QED BY <2>2, <2>3
<1>5. ASSUME NEW t \in Tabs PROVE FormHeld(t)'
  <2>1. FormHeld(t) /\ UNCHANGED <<ui, form>> /\ form[t] \in Handlers \cup {NoHandler}
    BY <1>1 DEF Hands, tabVars, TypedTabs
  <2>2. CASE form[t] = h
    <3>1. ui[t] = "leaving" => step'[h] \in LogoutSteps
      BY <1>2, <2>1, <2>2 DEF FormHeld
    <3>2. ui[t] = "entering" => /\ step'[h] \in LoginSteps
                                /\ Issues(h)' => got'[h] \in Tokens
      BY <1>2, <2>1, <2>2 DEF FormHeld, Issues, LoginSteps
    <3> QED BY <2>1, <2>2, <3>1, <3>2 DEF FormHeld, Issues
  <2>3. CASE form[t] # h
    BY <1>2, <1>1, <2>1, <2>3, SameForm
  <2> QED BY <2>2, <2>3
<1>6. Hands'
  BY <1>1, <1>4, <1>5 DEF Hands, Held, tabVars
<1> QED BY <1>3, <1>6, TypePartsNext

LEMMA AbandonedHands ==
    ASSUME HandsInv, NEW h \in Handlers, Abandoned(h)
    PROVE  SessionTypeOK' /\ Hands' /\ Starting'
<1>1. /\ TypedCalls /\ TypedTabs /\ Hands /\ Starting /\ SessionTypeOK
  BY TypeParts DEF HandsInv
<1>2. Besides(h) /\ UNCHANGED <<store, callVars, tabVars>>
  BY FinishMoves DEF Abandoned, HandsInv
<1>3. TypedCalls' /\ TypedTabs' /\ Starting'
  BY <1>1, <1>2 DEF TypedCalls, TypedTabs, Starting, store, callVars, tabVars
<1>4. ASSUME NEW t \in Tabs PROVE RefreshHeld(t)' /\ FormHeld(t)'
  <2>1. h \notin Held(t)
    <3>1. RefreshHeld(t) /\ form[t] # h /\ Waiting(t, h) = {}
      BY <1>1 DEF Hands, Abandoned
    <3> QED BY <3>1 DEF RefreshHeld, Waiting, Held
  <2>2. \A k \in Held(t) : step'[k] = step[k] /\ code'[k] = code[k] /\ got'[k] = got[k]
                           /\ arg'[k] = arg[k]
    BY <1>1, <1>2, <2>1, HeldOnes DEF Besides
  <2> QED BY <1>1, <1>2, <2>2, SameTab DEF callVars, tabVars
<1>5. Hands'
  BY <1>1, <1>2, <1>4 DEF Hands, Held, tabVars
<1> QED BY <1>3, <1>5, TypePartsNext

\* Clocks move nobody's request.
LEMMA ClockHands ==
    ASSUME HandsInv, UNCHANGED <<handlerVars, refresh, call, waits, tabVars>>,
           \/ UNCHANGED <<access, bearer>>
           \/ AccessExpires
    PROVE  SessionTypeOK' /\ Hands' /\ Starting'
<1>1. /\ TypedCalls /\ TypedTabs /\ Hands /\ Starting
  BY TypeParts DEF HandsInv
<1>2. bearer' \in [Tabs -> [Calls -> {"none", "good", "stale"}]]
  BY <1>1 DEF AccessExpires, TypedCalls
<1>3. access' \in {"none", "good", "stale"} /\ (access' = "none" <=> access = "none")
  BY <1>1 DEF AccessExpires, TypedTabs
<1>4. TypedCalls'
  BY <1>1, <1>2 DEF TypedCalls
<1>5. TypedTabs'
  BY <1>1, <1>3 DEF TypedTabs, tabVars
<1>6. Starting'
  BY <1>1 DEF Starting, tabVars
<1>7. Hands'
  BY <1>1 DEF Hands, RefreshHeld, FormHeld, Held, Issues, handlerVars, tabVars
<1> QED BY <1>4, <1>5, <1>6, <1>7, TypePartsNext

\* What pages do is, for the API, one of its own steps or none.
LEMMA StepsOfTheApi == SessionTypeOK /\ Hands /\ [SessionNext]_sessionVars => [AuthNext]_authVars
<1> SUFFICES ASSUME SessionTypeOK, Hands, [SessionNext]_sessionVars PROVE [AuthNext]_authVars
    OBVIOUS
<1>1. ASSUME NEW t \in Tabs, NEW c \in Calls, Send(t, c) \/ CallStep(t, c) \/ Blip(t, c)
      PROVE  [AuthNext]_authVars
  <2>1. CASE AwaitRefresh(t, c)
    <3>1. refresh \in Tokens
      BY <2>1 DEF AwaitRefresh, SessionTypeOK
    <3> QED BY <2>1, <3>1 DEF AwaitRefresh, AuthNext, Request
  <2>2. CASE Send(t, c) \/ Succeed(t, c) \/ GiveUp(t, c) \/ Blip(t, c)
    BY <2>2 DEF Send, Succeed, GiveUp, Blip
  <2> QED BY <1>1, <2>1, <2>2 DEF CallStep
<1>2. ASSUME NEW t \in Tabs, NEW h \in Handlers, RefreshDone(t, h)
      PROVE  [AuthNext]_authVars
  BY <1>2 DEF RefreshDone, Refreshed, SessionEnded, RefreshFailed, AuthNext
<1>3. ASSUME NEW t \in Tabs, SignIn(t) \/ SignOut(t) \/ Reload(t)
      PROVE  [AuthNext]_authVars
  <2>1. CASE SignIn(t)
    <3>1. User \in Emails
      BY SessionAssumption
    <3> QED BY <2>1, <3>1 DEF SignIn, AuthNext, Request
  <2>2. CASE SignOut(t)
    <3>1. refresh # NoToken => refresh \in Tokens
      BY DEF SessionTypeOK
    <3> QED BY <2>2, <3>1 DEF SignOut, AuthNext, Request
  <2>3. CASE Reload(t)
    BY <2>3 DEF Reload
  <2> QED BY <1>3, <2>1, <2>2, <2>3
<1>4. ASSUME NEW t \in Tabs, FormDone(t) PROVE [AuthNext]_authVars
  <2>1. form[t] \in Handlers
    BY <1>4 DEF Hands, FormHeld, FormDone, SignedIn, SignedOut, SessionTypeOK
  <2> QED BY <1>4, <2>1 DEF FormDone, SignedIn, SignedOut, AuthNext
<1>5. ASSUME NEW h \in Handlers, ApiStep(h) \/ Abandoned(h) PROVE [AuthNext]_authVars
  BY <1>5 DEF ApiStep, Abandoned, AuthNext
<1>6. CASE ApiFault
  BY <1>6 DEF ApiFault, AuthNext
<1>7. CASE AccessExpires \/ UNCHANGED sessionVars
  BY <1>7 DEF AccessExpires, sessionVars
<1> QED BY <1>1, <1>2, <1>3, <1>4, <1>5, <1>6, <1>7 DEF SessionNext

\* No step forgets that a token was issued, or makes one up.
LEMMA StepKnown ==
    ASSUME TypeOK, TokensKnown, [AuthNext]_authVars, refresh \in Tokens \cup {NoToken},
           refresh' \in {refresh, NoToken} \/ \E h \in Handlers : refresh' = got[h]
    PROVE  TokensKnown'
<1>1. ASSUME NEW k \in Tokens, tok[k] # "new" PROVE tok'[k] # "new"
  <2>1. ASSUME NEW h \in Handlers, RevokeToken(h) PROVE tok'[k] # "new"
    BY <1>1, <2>1 DEF RevokeToken, Revoked, TypeOK
  <2>2. ASSUME NEW h \in Handlers, IssueTokens(h) PROVE tok'[k] # "new"
    BY <1>1, <2>2 DEF IssueTokens, TypeOK
  <2>3. CASE UNCHANGED tok
    BY <1>1, <2>3
  <2> QED BY <2>1, <2>2, <2>3
          DEF AuthNext, Request, DbStep, Signup, Login, Refresh, Logout, Call, FindByEmail,
              CreateUser, CheckLogin, FindRefreshToken, FindById, QueryFails, Finish, Refused, Crash,
              Expire, authVars, tokenVars
<1>2. /\ \A h \in Handlers : arg[h] \in Tokens \cup {NoToken} /\ got[h] \in Tokens \cup {NoToken}
      /\ refresh # NoToken => tok[refresh] # "new"
      /\ \A h \in Handlers : arg[h] # NoToken => tok[arg[h]] # "new"
      /\ \A h \in Handlers : got[h] # NoToken => tok[got[h]] # "new"
  BY DEF TypeOK, TokensKnown, Issued
<1>3. refresh' # NoToken => tok'[refresh'] # "new"
  BY <1>1, <1>2
<1>4. ASSUME NEW h \in Handlers
      PROVE  /\ arg'[h] # NoToken => tok'[arg'[h]] # "new"
             /\ got'[h] # NoToken => tok'[got'[h]] # "new"
  <2>1. ASSUME NEW k \in Handlers, NEW s, NEW e, NEW t, Call(k, s, e, t),
               t = NoToken \/ (t \in Tokens /\ tok[t] # "new")
        PROVE  /\ arg'[h] # NoToken => tok'[arg'[h]] # "new"
               /\ got'[h] # NoToken => tok'[got'[h]] # "new"
    <3>1. /\ arg'[k] = t /\ got'[k] = NoToken /\ tok' = tok
          /\ \A j \in Handlers \ {k} : arg'[j] = arg[j] /\ got'[j] = got[j]
      BY <2>1, CallMoves DEF Besides
    <3> QED BY <1>2, <2>1, <3>1
  <2>2. ASSUME NEW k \in Handlers, Request(k)
        PROVE  /\ arg'[h] # NoToken => tok'[arg'[h]] # "new"
               /\ got'[h] # NoToken => tok'[got'[h]] # "new"
    <3>1. CASE \E e \in Emails : Call(k, "signup", e, NoToken) \/ Call(k, "login", e, NoToken)
      BY <2>1, <3>1
    <3>2. CASE \E t \in Tokens : /\ tok[t] # "new"
                                 /\ \/ Call(k, "refresh", holder[t], t)
                                    \/ Call(k, "logout", holder[t], t)
      BY <2>1, <3>2
    <3> QED BY <2>2, <3>1, <3>2 DEF Request, Signup, Login, Refresh, Logout, Issued
  <2>3. ASSUME NEW k \in Handlers, IssueTokens(k)
        PROVE  /\ arg'[h] # NoToken => tok'[arg'[h]] # "new"
               /\ got'[h] # NoToken => tok'[got'[h]] # "new"
    <3>1. PICK t \in Tokens : /\ tok' = [tok EXCEPT ![t] = "live"] \/ tok' = [tok EXCEPT ![t] = "unstored"]
                              /\ got' = [got EXCEPT ![k] = t]
      BY <2>3 DEF IssueTokens
    <3>2. arg' = arg /\ tok'[t] # "new" /\ got'[h] \in {got[h], t}
      BY <2>3, <3>1 DEF IssueTokens, TypeOK
    <3> QED BY <1>1, <1>2, <3>2
  <2>4. CASE UNCHANGED <<arg, got>>
    BY <1>1, <1>2, <2>4
  <2> QED BY <2>2, <2>3, <2>4
          DEF AuthNext, DbStep, FindByEmail, CreateUser, CheckLogin, FindRefreshToken, FindById,
              RevokeToken, QueryFails, Finish, Refused, Crash, Expire, Goto, Answer, authVars, handlerVars
<1> QED BY <1>3, <1>4 DEF TokensKnown, Issued

\* The stored refresh token changes for a new pair, or goes.
LEMMA StoreMoves ==
    ASSUME [SessionNext]_sessionVars
    PROVE  \/ refresh' \in {refresh, NoToken}
           \/ \E t \in Tabs, h \in Handlers : Refreshed(t, h)
           \/ \E t \in Tabs : SignedIn(t)
<1>1. ASSUME NEW t \in Tabs, NEW h \in Handlers, SessionEnded(t, h) \/ RefreshFailed(t, h)
      PROVE  refresh' \in {refresh, NoToken}
  BY <1>1 DEF SessionEnded, RefreshFailed, FailForNow, FailAndSignOut, ClearTokens, store
<1>2. ASSUME NEW t \in Tabs, NEW c \in Calls, Send(t, c) \/ CallStep(t, c) \/ Blip(t, c)
      PROVE  refresh' \in {refresh, NoToken}
  BY <1>2 DEF Send, CallStep, Succeed, GiveUp, AwaitRefresh, Blip, FailAndSignOut,
              ClearTokens, store
<1>3. ASSUME NEW t \in Tabs, SignIn(t) \/ SignOut(t) \/ SignedOut(t) \/ Reload(t)
      PROVE  refresh' \in {refresh, NoToken}
  BY <1>3 DEF SignIn, SignOut, SignedOut, Reload, ClearTokens, store
<1>4. ASSUME \/ \E h \in Handlers : ApiStep(h) \/ Abandoned(h)
             \/ ApiFault \/ AccessExpires \/ UNCHANGED sessionVars
      PROVE  refresh' = refresh
  BY <1>4 DEF ApiStep, Abandoned, ApiFault, AccessExpires, sessionVars, store
<1> QED BY <1>1, <1>2, <1>3, <1>4 DEF SessionNext, RefreshDone, FormDone

\* The invariant of any number of tabs: who waits for which request is kept by every step.
LEMMA StepHands == HandsInv /\ [SessionNext]_sessionVars => HandsInv'
<1> SUFFICES ASSUME HandsInv, [SessionNext]_sessionVars PROVE HandsInv'
    OBVIOUS
<1> DEFINE Kept == SessionTypeOK' /\ Hands' /\ Starting'
<1>1. [AuthNext]_authVars
  BY StepsOfTheApi DEF HandsInv
<1>2. TypeOK' /\ HoldersAreEmails'
  BY <1>1, StepTypes, StepHolders DEF HandsInv
<1>3. TokensKnown'
  <2>1. ASSUME NEW t \in Tabs PROVE ui[t] \in {"entering", "leaving"} => form[t] \in Handlers
    BY DEF HandsInv, SessionTypeOK, Hands, FormHeld
  <2>2. refresh' \in {refresh, NoToken} \/ \E h \in Handlers : refresh' = got[h]
    <3>1. ASSUME NEW t \in Tabs, SignedIn(t)
          PROVE  refresh' \in {refresh, NoToken} \/ \E h \in Handlers : refresh' = got[h]
      BY <2>1, <3>1 DEF SignedIn, SetTokens, store
    <3>2. ASSUME NEW t \in Tabs, NEW h \in Handlers, Refreshed(t, h) PROVE refresh' = got[h]
      BY <3>2 DEF Refreshed, SetTokens
    <3> QED BY <3>1, <3>2, StoreMoves
  <2> QED BY <1>1, <2>2, StepKnown DEF HandsInv, SessionTypeOK
<1>4. ASSUME NEW t \in Tabs, NEW c \in Calls, Send(t, c) \/ CallStep(t, c) \/ Blip(t, c)
      PROVE  Kept
  BY <1>4, SendHands, SucceedHands, BlipHands, AwaitHands DEF CallStep
<1>5. ASSUME NEW t \in Tabs, NEW h \in Handlers, RefreshDone(t, h) PROVE Kept
  BY <1>5, RefreshedHands, EndedHands, RefreshFailedHands DEF RefreshDone
<1>6. ASSUME NEW t \in Tabs, SignIn(t) \/ SignOut(t) \/ FormDone(t) \/ Reload(t) PROVE Kept
  BY <1>6, SignInHands, SignOutHands, FormDoneHands, ReloadHands
<1>7. ASSUME NEW h \in Handlers, ApiStep(h) \/ Abandoned(h) PROVE Kept
  BY <1>7, ApiHands, AbandonedHands DEF ApiStep
<1>8. ASSUME ApiFault PROVE Kept
  <2>1. ASSUME NEW h \in Handlers, Crash(h) PROVE Kept
    BY <1>8, <2>1, ApiHands DEF ApiFault
  <2>2. ASSUME NEW k \in Tokens, Expire(k) PROVE Kept
    <3>1. /\ UNCHANGED <<handlerVars, refresh, call, waits, tabVars>> /\ UNCHANGED <<access, bearer>>
      BY <1>8, <2>2 DEF ApiFault, Expire, store, callVars
    <3> QED BY <3>1, ClockHands
  <2>3. (\E h \in Handlers : Crash(h)) \/ (\E k \in Tokens : Expire(k))
    BY <1>8 DEF ApiFault
  <2> HIDE DEF Kept
  <2> QED BY <2>1, <2>2, <2>3
<1>9. ASSUME AccessExpires PROVE Kept
  <2>1. UNCHANGED <<handlerVars, refresh, call, waits, tabVars>>
    BY <1>9 DEF AccessExpires, authVars
  <2> QED BY <1>9, <2>1, ClockHands
<1>10. ASSUME UNCHANGED sessionVars PROVE Kept
  <2>1. UNCHANGED <<handlerVars, refresh, call, waits, tabVars>> /\ UNCHANGED <<access, bearer>>
    BY <1>10 DEF sessionVars, authVars, store, callVars
  <2> QED BY <2>1, ClockHands
<1> HIDE DEF Kept
<1>11. Kept
  BY <1>4, <1>5, <1>6, <1>7, <1>8, <1>9, <1>10 DEF SessionNext
<1> QED BY <1>2, <1>3, <1>11 DEF HandsInv, Kept

LEMMA SessionStarts == SessionInit => HandsInv
<1> SUFFICES ASSUME SessionInit PROVE HandsInv
    OBVIOUS
<1>1. /\ Me \in Calls /\ User \in Emails /\ FirstToken \in Tokens
      /\ NoHandler \notin Handlers /\ NoToken \notin Tokens
  BY SessionAssumption, NoTokenAssumption
<1>2. TypeOK
  BY <1>1 DEF SessionInit, TypeOK, Steps, Codes
<1>3. HoldersAreEmails /\ TokensKnown
  BY <1>1 DEF SessionInit, HoldersAreEmails, TokensKnown, Issued
<1>4. TypedCalls /\ TypedTabs
  BY <1>1 DEF SessionInit, TypedCalls, TypedTabs
<1>5. Hands /\ Starting
  BY <1>1 DEF SessionInit, Hands, RefreshHeld, FormHeld, Held, Starting
<1> QED BY <1>2, <1>3, <1>4, <1>5, TypeParts DEF HandsInv

LEMMA HandsHold == SessionSpec => []HandsInv
BY SessionStarts, StepHands, PTL DEF SessionSpec

\* In every tab, whatever reloads, blips and crashes do: a call waits exactly while it has
\* a refresh to wait for, and the two keys of localStorage are there or missing together.
THEOREM SessionTypes == SessionSpec => []SessionTypeOK
BY HandsHold, PTL DEF HandsInv

\* What AuthTokens promises of the exchange also holds of the browser's requests, which
\* start from a session that is open.
THEOREM SessionReplacedRevoked == SessionSpec => [](DbError \/ ReplacedIsRevoked)
<1> DEFINE ExchangeInv == DbError \/ (NewLogins /\ ExchangeInOrder /\ ReplacedIsRevoked)
<1>1. SessionInit => ExchangeInv
  BY DEF SessionInit, NewLogins, ExchangeInOrder, ReplacedIsRevoked
<1>2. HandsInv /\ ExchangeInv /\ [SessionNext]_sessionVars => ExchangeInv'
  BY StepsOfTheApi, StepExchange, StepReplaced DEF DbError, HandsInv
<1>3. ExchangeInv => DbError \/ ReplacedIsRevoked
  OBVIOUS
<1> QED BY <1>1, <1>2, <1>3, HandsHold, PTL DEF SessionSpec

-----------------------------------------------------------------------------
(* One tab, whose user signs in only once its calls have settled *)

\* The order of things in a page.
PagesInOrder ==
    \A t \in Tabs :
        /\ ui[t] \in {"starting", "in"} => refresh # NoToken
        /\ ui[t] \in {"in", "entering"} => t \notin denied
        /\ ui[t] = "entering" => \A c \in Calls : call[t][c] = "idle"

\* With one tab the tokens go only together with the user on the screen, and a user who is
\* patient enters with no call under way that could take them away.
LEMMA StepOrder ==
    ASSUME NEW tab, Tabs = {tab}, Patient, HandsInv, PagesInOrder, [SessionNext]_sessionVars
    PROVE  PagesInOrder'
<1> DEFINE InOrder ==
        /\ ui[tab] \in {"starting", "in"} => refresh # NoToken
        /\ ui[tab] \in {"in", "entering"} => tab \notin denied
        /\ ui[tab] = "entering" => \A c \in Calls : call[tab][c] = "idle"
<1>1. PagesInOrder <=> InOrder
  BY DEF PagesInOrder
<1>2. PagesInOrder' <=> InOrder'
  BY DEF PagesInOrder
<1>3. /\ TypedCalls /\ TypedTabs /\ Me \in Calls /\ tab \in Tabs /\ TypeOK /\ Starting
      /\ InOrder /\ FormHeld(tab) /\ RefreshHeld(tab) /\ NoToken \notin Tokens
  BY <1>1, TypeParts, SessionAssumption, NoTokenAssumption DEF HandsInv, Hands
<1>4. ASSUME NEW c \in Calls, Send(tab, c) PROVE InOrder'
  BY <1>3, <1>4 DEF Send, TypedCalls, store, tabVars
<1>5. ASSUME NEW c \in Calls, Succeed(tab, c) PROVE InOrder'
  <2>1. /\ call[tab][c] \in {"sent", "resent"} /\ denied' = denied \ {tab} /\ refresh' = refresh
        /\ ui'[tab] = IF c = Me THEN "in" ELSE ui[tab]
    BY <1>3, <1>5 DEF Succeed, Show, TypedTabs, store
  <2>2. c = Me => ui[tab] = "starting"
    BY <1>3, <2>1 DEF Starting
  <2>3. ui[tab] # "entering"
    BY <1>3, <2>1
  <2> QED BY <1>3, <2>1, <2>2, <2>3
\* What a call that fails does to the page.
<1>6. ASSUME NEW cs \in SUBSET Calls, FailAndSignOut(tab, cs), \A c \in cs : call[tab][c] # "idle",
             NEW c \in cs, denied' = denied \/ (refresh = NoToken /\ denied' = denied \cup {tab})
      PROVE  InOrder'
  <2>1. /\ Me \notin cs => refresh' = refresh
        /\ ui'[tab] = IF Me \in cs THEN "out" ELSE ui[tab]
    BY <1>3, <1>6, SignOutTypes
  <2>2. ui[tab] # "entering"
    BY <1>3, <1>6
  <2>3. CASE Me \in cs
    BY <2>1, <2>3
  <2>4. CASE Me \notin cs
    BY <1>3, <1>6, <2>1, <2>2, <2>4
  <2> QED BY <2>3, <2>4
<1>7. ASSUME NEW c \in Calls, Blip(tab, c) \/ GiveUp(tab, c) PROVE InOrder'
  <2>1. /\ FailAndSignOut(tab, {c}) /\ \A d \in {c} : call[tab][d] # "idle"
        /\ denied' = denied \/ (refresh = NoToken /\ denied' = denied \cup {tab})
    BY <1>7 DEF Blip, GiveUp, Unauthorized
  <2> QED BY <1>6, <2>1
<1>8. ASSUME NEW c \in Calls, AwaitRefresh(tab, c) PROVE InOrder'
  BY <1>3, <1>8 DEF AwaitRefresh, TypedCalls, store
<1>9. ASSUME NEW h \in Handlers, Waiting(tab, h) # {}
      PROVE  /\ Waiting(tab, h) \in SUBSET Calls /\ ui[tab] # "entering"
             /\ \A c \in Waiting(tab, h) : call[tab][c] = "waiting"
  BY <1>3, <1>9, WaitingOnes
<1>10. ASSUME NEW h \in Handlers, Refreshed(tab, h) PROVE InOrder'
  <2>1. got[h] \in Tokens
    <3>1. flight[tab] = h /\ h # NoHandler /\ step[h] = "answered" /\ code[h] = 200
      BY <1>3, <1>10, WaitingOnes DEF Refreshed, Finish
    <3> QED BY <1>3, <3>1 DEF RefreshHeld, Issues
  <2>2. UNCHANGED <<ui, denied>> /\ refresh' = got[h] /\ ui[tab] # "entering"
    BY <1>9, <1>10 DEF Refreshed, SetTokens
  <2> QED BY <1>3, <2>1, <2>2
<1>11. ASSUME NEW h \in Handlers, SessionEnded(tab, h) PROVE InOrder'
  <2>1. ui'[tab] = ShownAfterEnd(tab)
    BY <1>3, <1>11 DEF SessionEnded, Show, ShownAfterEnd, TypedTabs
  <2>2. ui'[tab] \notin {"in", "entering", "starting"}
    BY <1>9, <1>11, <2>1 DEF SessionEnded, ShownAfterEnd
  <2> QED BY <2>2
<1>12. ASSUME NEW h \in Handlers, RefreshFailed(tab, h) PROVE InOrder'
  <2>1. /\ FailAndSignOut(tab, Waiting(tab, h)) /\ denied' = denied
        /\ Waiting(tab, h) # {}
    BY <1>12 DEF RefreshFailed, FailForNow
  <2>2. PICK c : c \in Waiting(tab, h)
    BY <2>1
  <2>3. Waiting(tab, h) \in SUBSET Calls /\ \A d \in Waiting(tab, h) : call[tab][d] # "idle"
    BY <1>9, <2>1
  <2> QED BY <1>6, <2>1, <2>2, <2>3
<1>13. ASSUME SignIn(tab) PROVE InOrder'
  BY <1>3, <1>13 DEF SignIn, Show, TypedTabs, callVars
<1>14. ASSUME SignOut(tab) PROVE InOrder'
  BY <1>3, <1>14 DEF SignOut, Show, TypedTabs, callVars
<1>15. ASSUME SignedIn(tab) PROVE InOrder'
  <2>1. Finish(form[tab]) /\ code[form[tab]] = 200 => got[form[tab]] \in Tokens
    BY <1>3, <1>15 DEF SignedIn, Finish, FormHeld, Issues
  <2>2. tab \notin denied'
    BY <1>3, <1>15 DEF SignedIn
  <2> QED BY <1>3, <1>15, <2>1, <2>2 DEF SignedIn, SetTokens, Show, TypedTabs
<1>16. ASSUME SignedOut(tab) PROVE InOrder'
  BY <1>3, <1>16 DEF SignedOut, Show, TypedTabs
<1>17. ASSUME Reload(tab) PROVE InOrder'
  BY <1>3, <1>17 DEF Reload, Show, TypedTabs, store
<1>18. ASSUME UNCHANGED <<refresh, call, tabVars>> PROVE InOrder'
  BY <1>3, <1>18 DEF tabVars
<1> HIDE DEF InOrder
<1>19. \/ \E c \in Calls : Send(tab, c) \/ CallStep(tab, c) \/ Blip(tab, c)
       \/ \E h \in Handlers : RefreshDone(tab, h)
       \/ SignIn(tab) \/ SignOut(tab) \/ FormDone(tab) \/ Reload(tab)
       \/ UNCHANGED <<refresh, call, tabVars>>
  BY DEF SessionNext, ApiStep, Abandoned, ApiFault, AccessExpires, sessionVars, store, callVars
<1>20. InOrder'
  BY <1>4, <1>5, <1>7, <1>8, <1>10, <1>11, <1>12, <1>13, <1>14, <1>15, <1>16, <1>17, <1>18, <1>19
     DEF CallStep, RefreshDone, FormDone
<1> QED BY <1>2, <1>20

LEMMA OrderHolds ==
    ASSUME NEW tab, Tabs = {tab}, Patient
    PROVE  SessionSpec => [](HandsInv /\ PagesInOrder)
<1>1. SessionInit => PagesInOrder
  BY SessionAssumption, NoTokenAssumption DEF SessionInit, PagesInOrder
<1>2. HandsInv /\ PagesInOrder /\ [SessionNext]_sessionVars => PagesInOrder'
  BY StepOrder
<1> QED BY <1>1, <1>2, HandsHold, PTL DEF SessionSpec

\* While one tab is open, and its user signs in again only once its calls are answered, a
\* page that shows the user has a refresh token to go on with.
THEOREM SignedInTokens ==
    ASSUME NEW tab, Tabs = {tab}, Patient
    PROVE  SessionSpec => []SignedInHasTokens
<1>1. PagesInOrder => SignedInHasTokens
  BY DEF PagesInOrder, SignedInHasTokens
<1> QED BY <1>1, OrderHolds, PTL

-----------------------------------------------------------------------------
(* What the API is asked, and what it answers a page *)

\* Every request is made for the user, with a token of the user's.
OnlyUser ==
    /\ rows[User] = 1
    /\ \A h \in Handlers : step[h] # "idle" => mail[h] = User /\ step[h] \notin {"signup", "create"}
    /\ \A k \in Tokens : Issued(k) => holder[k] = User

\* The calls pages make.
Asked(h) ==
    \/ Login(h, User)
    \/ refresh \in Tokens /\ (Refresh(h, refresh) \/ Logout(h, refresh))

LEMMA ApiMoves ==
    ASSUME HandsInv, SessionNext
    PROVE  \/ UNCHANGED authVars
           \/ \E h \in Handlers : Asked(h) \/ DbStep(h) \/ Crash(h) \/ Refused(h) \/ Finish(h)
           \/ \E k \in Tokens : Expire(k)
<1> DEFINE Moves == \/ UNCHANGED authVars
                    \/ \E h \in Handlers : Asked(h) \/ DbStep(h) \/ Crash(h) \/ Refused(h) \/ Finish(h)
                    \/ \E k \in Tokens : Expire(k)
<1>0. refresh \in Tokens \cup {NoToken}
  BY DEF HandsInv, SessionTypeOK
<1>1. ASSUME NEW t \in Tabs, NEW c \in Calls, AwaitRefresh(t, c) PROVE Moves
  BY <1>0, <1>1 DEF AwaitRefresh, Asked
<1>2. ASSUME NEW t \in Tabs, SignIn(t) \/ SignOut(t) PROVE Moves
  BY <1>0, <1>2 DEF SignIn, SignOut, Asked
<1>3. ASSUME NEW t \in Tabs, FormDone(t) PROVE Moves
  <2>1. form[t] \in Handlers
    BY <1>3 DEF HandsInv, Hands, FormHeld, FormDone, SignedIn, SignedOut, SessionTypeOK
  <2> QED BY <1>3, <2>1 DEF FormDone, SignedIn, SignedOut
<1>4. ASSUME NEW t \in Tabs, NEW h \in Handlers, RefreshDone(t, h) PROVE Moves
  BY <1>4 DEF RefreshDone, Refreshed, SessionEnded, RefreshFailed
<1>5. ASSUME NEW h \in Handlers, ApiStep(h) \/ Abandoned(h) PROVE Moves
  BY <1>5 DEF ApiStep, Abandoned
<1>6. ASSUME ApiFault PROVE Moves
  BY <1>6 DEF ApiFault
<1>7. ASSUME NEW t \in Tabs, NEW c \in Calls, Send(t, c) \/ Succeed(t, c) \/ GiveUp(t, c) \/ Blip(t, c)
      PROVE  Moves
  BY <1>7 DEF Send, Succeed, GiveUp, Blip
<1>8. ASSUME (\E t \in Tabs : Reload(t)) \/ AccessExpires PROVE Moves
  BY <1>8 DEF Reload, AccessExpires
<1> HIDE DEF Moves
<1>9. Moves
  BY <1>1, <1>2, <1>3, <1>4, <1>5, <1>6, <1>7, <1>8 DEF SessionNext, CallStep
<1> QED BY <1>9 DEF Moves

\* The session starts with the user's token, and login and refresh give out no others.
LEMMA StepUser ==
    ASSUME HandsInv, OnlyUser, [SessionNext]_sessionVars
    PROVE  OnlyUser'
<1>1. /\ TypeOK /\ User \in Emails /\ rows[User] = 1
      /\ \A h \in Handlers : step[h] # "idle" => mail[h] = User /\ step[h] \notin {"signup", "create"}
      /\ \A k \in Tokens : tok[k] # "new" => holder[k] = User
  BY SessionAssumption DEF HandsInv, OnlyUser, Issued
<1>2. ASSUME NEW h \in Handlers, Asked(h) PROVE OnlyUser'
  <2>1. PICK s \in {"login", "refresh", "logout"}, k \in Tokens \cup {NoToken} : Call(h, s, User, k)
    BY <1>1, <1>2 DEF Asked, Login, Refresh, Logout, Issued
  <2>2. /\ Besides(h) /\ mail'[h] = User /\ step'[h] = s /\ UNCHANGED <<rows, tok, holder>>
        /\ \A j \in Handlers \ {h} : mail'[j] = mail[j]
    BY <1>1, <2>1, CallMoves DEF Call, TypeOK
  <2> QED BY <1>1, <2>2 DEF OnlyUser, Issued, Besides
<1>3. ASSUME NEW h \in Handlers, DbStep(h) \/ Crash(h) PROVE OnlyUser'
  <2>1. step[h] \notin {"idle", "answered"} /\ Besides(h) /\ mail' = mail
    BY <1>1, <1>3, StepMoves
  <2>2. step[h] \notin {"signup", "create"} /\ mail[h] = User
    BY <1>1, <2>1
  <2>3. step'[h] \notin {"signup", "create"} /\ rows' = rows
    BY <1>1, <1>3, <2>2
       DEF DbStep, FindByEmail, CreateUser, CheckLogin, FindRefreshToken, FindById, RevokeToken,
           IssueTokens, QueryFails, Crash, Goto, Answer, TypeOK
  <2>4. ASSUME NEW k \in Tokens, tok'[k] # "new" PROVE holder'[k] = User
    <3>1. CASE IssueTokens(h)
      BY <1>1, <2>2, <2>4, <3>1 DEF IssueTokens, TypeOK
    <3>2. CASE RevokeToken(h)
      BY <1>1, <2>4, <3>2 DEF RevokeToken, Revoked, TypeOK
    <3>3. CASE UNCHANGED <<tok, holder>>
      BY <1>1, <2>4, <3>3
    <3> QED BY <1>3, <3>1, <3>2, <3>3
            DEF DbStep, FindByEmail, CreateUser, CheckLogin, FindRefreshToken, FindById,
                QueryFails, Crash, tokenVars
  <2> QED BY <1>1, <2>1, <2>3, <2>4 DEF OnlyUser, Issued, Besides
<1>4. ASSUME NEW h \in Handlers, Finish(h) \/ Refused(h) PROVE OnlyUser'
  <2>1. /\ step' = [step EXCEPT ![h] = "idle"] /\ UNCHANGED <<rows, tok, holder, mail>>
    BY <1>1, <1>4, FinishMoves, RefusedMoves
  <2> QED BY <1>1, <2>1 DEF OnlyUser, Issued, TypeOK
<1>5. ASSUME UNCHANGED <<rows, tokenVars, handlerVars>> PROVE OnlyUser'
  BY <1>1, <1>5 DEF OnlyUser, Issued, tokenVars, handlerVars
<1>6. \/ UNCHANGED authVars
      \/ \E h \in Handlers : Asked(h) \/ DbStep(h) \/ Crash(h) \/ Refused(h) \/ Finish(h)
      \/ \E k \in Tokens : Expire(k)
  BY ApiMoves DEF sessionVars
<1> QED BY <1>2, <1>3, <1>4, <1>5, <1>6 DEF Expire, authVars

\* What a step does to a request that a page waits for before and after it.
LEMMA HeldMoves ==
    ASSUME HandsInv, [SessionNext]_sessionVars, NEW t \in Tabs,
           NEW g \in Held(t), g \in {flight'[t], form'[t]}
    PROVE  /\ g \in Handlers /\ arg'[g] = arg[g]
           /\ \/ step'[g] = step[g] /\ code'[g] = code[g] /\ got'[g] = got[g]
              \/ DbStep(g) \/ Crash(g)
<1> DEFINE Same(h) == step'[h] = step[h] /\ code'[h] = code[h] /\ got'[h] = got[h] /\ arg'[h] = arg[h]
<1>1. /\ g \in Handlers /\ g # NoHandler /\ TypeOK /\ SessionTypeOK /\ Hands
      /\ step[g] # "idle" /\ TypedTabs
  BY TypeParts, HeldOnes DEF HandsInv, Held
<1>2. ASSUME NEW h, Besides(h), h # g PROVE Same(g)
  BY <1>1, <1>2 DEF Besides
<1>3. ASSUME UNCHANGED handlerVars PROVE Same(g)
  BY <1>3 DEF handlerVars
<1>4. ASSUME NEW h \in Handlers, Asked(h) PROVE Same(g)
  <2>1. Besides(h) /\ step[h] = "idle"
    BY <1>1, <1>4, CallMoves DEF Asked, Login, Logout, Refresh
  <2> QED BY <1>1, <1>2, <2>1
<1>5. ASSUME NEW h \in Handlers, DbStep(h) \/ Crash(h)
      PROVE  \/ Same(g)
             \/ (DbStep(g) \/ Crash(g)) /\ arg' = arg
  <2>1. Besides(h) /\ arg' = arg
    BY <1>1, <1>5, StepMoves
  <2>2. h = g \/ h # g
    OBVIOUS
  <2> QED BY <1>2, <1>5, <2>1, <2>2
<1>6. ASSUME NEW u \in Tabs, NEW h \in Handlers, RefreshDone(u, h) PROVE Same(g)
  <2>1. flight[u] = h /\ h # NoHandler /\ \A v \in Tabs \ {u} : h \notin Held(v)
    BY <1>6, WaitingOnes DEF RefreshDone, Refreshed, SessionEnded, RefreshFailed
  <2>2. h \notin {flight'[u], form'[u]}
    <3>1. flight'[u] = NoHandler /\ form'[u] = form[u]
      BY <1>1, <1>6, <2>1
         DEF RefreshDone, Refreshed, SessionEnded, RefreshFailed, Landed, TypedTabs
    <3>2. h # form[u]
      BY <1>1, <2>1 DEF Hands
    <3> QED BY <2>1, <3>1, <3>2
  <2>3. h # g
    BY <2>1, <2>2
  <2>4. Finish(h) \/ Refused(h) \/ UNCHANGED authVars
    BY <1>6 DEF RefreshDone, Refreshed, SessionEnded, RefreshFailed
  <2> QED BY <1>1, <1>2, <2>3, <2>4, FinishMoves, RefusedMoves, NobodyMoves
<1>7. ASSUME NEW u \in Tabs, FormDone(u) PROVE Same(g)
  <2>1. form[u] \in Handlers /\ form[u] \in Held(u)
    BY <1>1, <1>7 DEF Hands, FormHeld, FormDone, SignedIn, SignedOut, SessionTypeOK, Held
  <2>2. form[u] # g
    <3>1. form'[u] = NoHandler /\ flight'[u] = flight[u]
      BY <1>1, <1>7 DEF FormDone, SignedIn, SignedOut, TypedTabs
    <3>2. form[u] \notin {flight'[u], form'[u]}
      BY <2>1, <3>1, <1>1 DEF Hands, Held
    <3>3. u # t => form[u] \notin Held(t)
      BY <1>1, <2>1 DEF Hands
    <3> QED BY <3>2, <3>3
  <2>3. Finish(form[u]) \/ Refused(form[u]) \/ UNCHANGED authVars
    BY <1>7 DEF FormDone, SignedIn, SignedOut
  <2> QED BY <1>1, <1>2, <2>1, <2>2, <2>3, FinishMoves, RefusedMoves, NobodyMoves
<1>8. ASSUME NEW h \in Handlers, Abandoned(h) PROVE Same(g)
  <2>1. h # g
    <3>1. g = flight[t] => \E c \in Calls : waits[t][c] = g
      BY <1>1 DEF Hands, RefreshHeld
    <3>2. Waiting(t, h) = {} /\ form[t] # h
      BY <1>8 DEF Abandoned
    <3> QED BY <3>1, <3>2 DEF Waiting, Held
  <2> QED BY <1>1, <1>2, <1>8, <2>1, FinishMoves DEF Abandoned
<1>9. \/ UNCHANGED handlerVars
      \/ \E h \in Handlers : Asked(h) \/ DbStep(h) \/ Crash(h)
      \/ \E u \in Tabs, h \in Handlers : RefreshDone(u, h)
      \/ \E u \in Tabs : FormDone(u)
      \/ \E h \in Handlers : Abandoned(h)
  <2> DEFINE Moves == UNCHANGED handlerVars \/ \E h \in Handlers : Asked(h) \/ DbStep(h) \/ Crash(h)
  <2>0. refresh \in Tokens \cup {NoToken}
    BY <1>1 DEF SessionTypeOK
  <2>1. ASSUME NEW u \in Tabs, NEW c \in Calls, Send(u, c) \/ CallStep(u, c) \/ Blip(u, c) PROVE Moves
    BY <2>0, <2>1 DEF Send, CallStep, Succeed, GiveUp, AwaitRefresh, Blip, Asked, authVars
  <2>2. ASSUME NEW u \in Tabs, SignIn(u) \/ SignOut(u) \/ Reload(u) PROVE Moves
    BY <2>0, <2>2 DEF SignIn, SignOut, Reload, Asked, authVars
  <2>3. ASSUME ApiFault \/ AccessExpires \/ UNCHANGED sessionVars PROVE Moves
    BY <2>3 DEF ApiFault, Expire, AccessExpires, authVars, sessionVars
  <2>4. ASSUME NEW h \in Handlers, ApiStep(h) PROVE Moves
    BY <2>4 DEF ApiStep
  <2> HIDE DEF Moves
  <2>5. \/ Moves
        \/ \E u \in Tabs, h \in Handlers : RefreshDone(u, h)
        \/ \E u \in Tabs : FormDone(u)
        \/ \E h \in Handlers : Abandoned(h)
    BY <2>1, <2>2, <2>3, <2>4 DEF SessionNext
  <2> QED BY <2>5 DEF Moves
<1>10. \/ Same(g)
       \/ (DbStep(g) \/ Crash(g)) /\ arg' = arg
  BY <1>3, <1>4, <1>5, <1>6, <1>7, <1>8, <1>9
<1> QED BY <1>1, <1>10

-----------------------------------------------------------------------------
(* A refusal is for good *)

\* The refresh in flight was given the stored token, and it is refused only if that token
\* is of no use.
RefusedForGood ==
    \A t \in Tabs : flight[t] # NoHandler =>
        /\ refresh \in {arg[flight[t]], NoToken}
        /\ step[flight[t]] = "answered" /\ code[flight[t]] = 401 => ~IsUsable(arg[flight[t]])

\* A token that cannot be used any more stays so.
LEMMA UselessStays ==
    ASSUME TypeOK, [AuthNext]_authVars, NEW k \in Tokens, Issued(k), ~IsUsable(k)
    PROVE  ~IsUsable(k)'
<1>1. tok[k] # "new" /\ (tok[k] # "live" \/ k \in expired)
  BY DEF Issued, IsUsable
<1>2. expired \subseteq expired'
  BY DEF AuthNext, Request, DbStep, Signup, Login, Refresh, Logout, Call, FindByEmail,
         CreateUser, CheckLogin, FindRefreshToken, FindById, RevokeToken, IssueTokens,
         QueryFails, Finish, Refused, Crash, Expire, authVars
<1>3. tok'[k] = tok[k] \/ tok'[k] = "revoked"
  <2>1. ASSUME NEW h \in Handlers, RevokeToken(h) PROVE tok'[k] = tok[k] \/ tok'[k] = "revoked"
    BY <2>1 DEF RevokeToken, Revoked, TypeOK
  <2>2. ASSUME NEW h \in Handlers, IssueTokens(h) PROVE tok'[k] = tok[k]
    BY <1>1, <2>2 DEF IssueTokens, TypeOK
  <2>3. CASE UNCHANGED tok
    BY <2>3
  <2> QED BY <2>1, <2>2, <2>3
          DEF AuthNext, Request, DbStep, Signup, Login, Refresh, Logout, Call, FindByEmail,
              CreateUser, CheckLogin, FindRefreshToken, FindById, QueryFails, Finish, Refused, Crash,
              Expire, authVars, tokenVars
<1> QED BY <1>1, <1>2, <1>3 DEF IsUsable

\* Where queries do not fail, a refresh is refused by FindRefreshToken alone.
LEMMA Refusal ==
    ASSUME TypeOK, OnlyUser, ~DbError, NEW h \in Handlers, DbStep(h) \/ Crash(h),
           step[h] \in RefreshSteps, step'[h] = "answered", code'[h] = 401
    PROVE  step[h] = "refresh" /\ ~IsUsable(arg[h])
<1>1. step[h] \notin {"idle", "answered"} /\ mail[h] = User /\ rows[User] = 1
  BY StepMoves DEF OnlyUser
<1>2. CASE FindRefreshToken(h)
  BY <1>2 DEF FindRefreshToken, Goto, Answer, TypeOK
<1>3. CASE FindById(h)
  BY <1>1, <1>3 DEF FindById, Goto, TypeOK
<1>4. CASE FindByEmail(h) \/ CreateUser(h) \/ CheckLogin(h)
  BY <1>4 DEF FindByEmail, CreateUser, CheckLogin, RefreshSteps
<1>5. CASE RevokeToken(h)
  BY <1>5 DEF RevokeToken, Goto, RefreshSteps, TypeOK
<1>6. CASE IssueTokens(h)
  BY <1>6 DEF IssueTokens, TypeOK
<1>7. CASE QueryFails(h)
  BY <1>7 DEF QueryFails
<1>8. CASE Crash(h)
  BY <1>8 DEF Crash, Answer, TypeOK
<1> QED BY <1>2, <1>3, <1>4, <1>5, <1>6, <1>7, <1>8 DEF DbStep

\* The stored token changes only while no refresh is in flight, or at its end; a refusal
\* stays right because no step makes a useless token usable.
LEMMA StepRefused ==
    ASSUME NEW tab, Tabs = {tab}, ~DbError, HandsInv, PagesInOrder, OnlyUser, RefusedForGood,
           [SessionNext]_sessionVars
    PROVE  RefusedForGood'
<1>1. /\ tab \in Tabs /\ TypeOK /\ TypedTabs /\ RefreshHeld(tab) /\ NoHandler \notin Handlers
      /\ [AuthNext]_authVars
  BY TypeParts, SessionAssumption, StepsOfTheApi DEF HandsInv, Hands
<1>2. SUFFICES ASSUME flight'[tab] # NoHandler
               PROVE  /\ refresh' \in {arg'[flight'[tab]], NoToken}
                      /\ step'[flight'[tab]] = "answered" /\ code'[flight'[tab]] = 401
                            => \/ tok'[arg'[flight'[tab]]] # "live"
                               \/ arg'[flight'[tab]] \in expired'
  BY DEF RefusedForGood, IsUsable
<1>3. CASE flight'[tab] = flight[tab]
  <2> DEFINE f == flight[tab]
  <2>1. f # NoHandler
    BY <1>2, <1>3
  <2>2. /\ f \in Handlers /\ arg'[f] = arg[f]
        /\ \/ step'[f] = step[f] /\ code'[f] = code[f]
           \/ DbStep(f) \/ Crash(f)
    <3>1. f \in Held(tab) /\ f \in {flight'[tab], form'[tab]}
      BY <1>3, <2>1 DEF Held
    <3> QED BY <1>1, <3>1, HeldMoves
  <2>3. /\ refresh \in {arg[f], NoToken}
        /\ step[f] = "answered" /\ code[f] = 401 => ~IsUsable(arg[f])
    BY <1>1, <2>1 DEF RefusedForGood
  <2>4. refresh' \in {refresh, NoToken}
    <3>1. \E c \in Calls : call[tab][c] # "idle"
      BY <1>1, <2>1, TypeParts DEF RefreshHeld, HandsInv, TypedCalls
    <3>2. ui[tab] # "entering"
      BY <1>1, <3>1 DEF PagesInOrder
    <3>3. ASSUME NEW h \in Handlers PROVE ~Refreshed(tab, h)
      <4>1. SUFFICES ASSUME Refreshed(tab, h) PROVE FALSE
        OBVIOUS
      <4>2. f = h
        BY <1>1, <4>1, WaitingOnes DEF Refreshed
      <4> QED BY <1>1, <1>2, <1>3, <4>1, <4>2 DEF Refreshed, Landed, TypedTabs
    <3>4. ~SignedIn(tab)
      BY <3>2 DEF SignedIn
    <3> QED BY <1>1, <3>3, <3>4, StoreMoves
  <2>5. f \in Handlers /\ arg[f] \in Tokens /\ Issued(arg[f]) /\ step[f] \in RefreshSteps
    BY <1>1, <2>1, <2>2, NoTokenAssumption DEF RefreshHeld, HandsInv, TokensKnown
  <2>6. step'[f] = "answered" /\ code'[f] = 401 => ~IsUsable(arg[f])
    <3>1. CASE step'[f] = step[f] /\ code'[f] = code[f]
      BY <2>3, <3>1
    <3>2. CASE DbStep(f) \/ Crash(f)
      BY <1>1, <2>5, <3>2, Refusal
    <3> QED BY <2>2, <3>1, <3>2
  <2>7. ~IsUsable(arg[f]) => tok'[arg[f]] # "live" \/ arg[f] \in expired'
    <3>1. ASSUME NEW k \in Tokens, Issued(k), ~IsUsable(k) PROVE tok'[k] # "live" \/ k \in expired'
      <4>1. ~IsUsable(k)'
        BY <1>1, <3>1, UselessStays
      <4> QED BY <4>1 DEF IsUsable
    <3>2. PICK k \in Tokens : k = arg[f]
      BY <2>5
    <3> QED BY <2>5, <3>1, <3>2
  <2> QED BY <1>3, <2>2, <2>3, <2>4, <2>6, <2>7
<1>4. CASE flight'[tab] # flight[tab]
  <2>1. PICK c \in Calls : AwaitRefresh(tab, c)
    <3>1. ASSUME NEW h \in Handlers, RefreshDone(tab, h) PROVE FALSE
      BY <1>1, <1>2, <1>4, <3>1
         DEF RefreshDone, Refreshed, SessionEnded, RefreshFailed, Landed, TypedTabs
    <3>2. ~Reload(tab)
      BY <1>1, <1>2 DEF Reload, TypedTabs
    <3> QED BY <1>1, <1>4, <3>1, <3>2
            DEF SessionNext, Send, CallStep, Succeed, GiveUp, Blip, SignIn, SignOut,
                FormDone, SignedIn, SignedOut, ApiStep, Abandoned, ApiFault,
                AccessExpires, sessionVars, tabVars
  <2>2. PICK h \in Handlers : Refresh(h, refresh) /\ flight' = [flight EXCEPT ![tab] = h]
    BY <1>4, <2>1 DEF AwaitRefresh
  <2>3. flight'[tab] = h /\ step'[h] = "refresh" /\ arg'[h] = refresh /\ refresh' = refresh
    BY <1>1, <2>1, <2>2, CallMoves DEF Refresh, TypedTabs, AwaitRefresh, store
  <2> QED BY <2>3
<1> QED BY <1>3, <1>4

LEMMA UserHolds == SessionSpec => [](HandsInv /\ OnlyUser)
<1>1. SessionInit => OnlyUser
  BY SessionAssumption DEF SessionInit, OnlyUser, Issued
<1>2. HandsInv /\ OnlyUser /\ [SessionNext]_sessionVars => OnlyUser'
  BY StepUser
<1> QED BY <1>1, <1>2, HandsHold, PTL DEF SessionSpec

LEMMA RefusedHolds ==
    ASSUME NEW tab, Tabs = {tab}, Patient, ~DbError
    PROVE  SessionSpec => [](HandsInv /\ PagesInOrder /\ OnlyUser /\ RefusedForGood)
<1>1. SessionInit => RefusedForGood
  BY DEF SessionInit, RefusedForGood
<1>2. HandsInv /\ PagesInOrder /\ OnlyUser /\ RefusedForGood /\ [SessionNext]_sessionVars
          => RefusedForGood'
  BY StepRefused
<1> QED BY <1>1, <1>2, OrderHolds, UserHolds, PTL DEF SessionSpec

\* The tokens of one tab, whose user signs in only once its calls are answered and whose
\* queries do not fail, are thrown away by a logout, while a page starts, or when the
\* stored refresh token is of no use, whatever crashes and lost answers there are.
THEOREM ForgottenUnusable ==
    ASSUME NEW tab, Tabs = {tab}, Patient, ~DbError
    PROVE  SessionSpec => ForgottenIsUnusable
<1>1. ASSUME HandsInv, PagesInOrder, RefusedForGood, [SessionNext]_sessionVars, Forgotten
      PROVE  SomeTab("leaving") \/ SomeTab("starting") \/ ~IsUsable(refresh)
  <2>1. /\ tab \in Tabs /\ TypeOK /\ TypedTabs /\ RefreshHeld(tab) /\ FormHeld(tab) /\ Starting
        /\ NoHandler \notin Handlers /\ NoToken \notin Tokens
        /\ refresh # NoToken /\ refresh' = NoToken
    BY <1>1, TypeParts, SessionAssumption, NoTokenAssumption DEF HandsInv, Hands, Forgotten
  <2>2. SUFFICES ASSUME ui[tab] # "leaving", ui[tab] # "starting"
                 PROVE  ~IsUsable(refresh)
    BY <2>1 DEF SomeTab
  <2>3. call[tab][Me] = "idle"
    BY <2>1, <2>2 DEF Starting
  <2>4. ASSUME NEW cs, FailAndSignOut(tab, cs), Me \notin cs PROVE FALSE
    BY <2>1, <2>4 DEF FailAndSignOut, store
  <2>5. ASSUME NEW c \in Calls, Blip(tab, c) \/ GiveUp(tab, c) PROVE FALSE
    BY <2>3, <2>4, <2>5 DEF Blip, GiveUp, Unauthorized
  <2>6. ASSUME NEW h \in Handlers, Waiting(tab, h) # {}
        PROVE  flight[tab] = h /\ Me \notin Waiting(tab, h)
    BY <1>1, <2>1, <2>3, <2>6, WaitingOnes
  <2>7. ASSUME NEW h \in Handlers, RefreshFailed(tab, h) PROVE FALSE
    BY <2>4, <2>6, <2>7 DEF RefreshFailed, FailForNow
  <2>8. ASSUME NEW h \in Handlers, Refreshed(tab, h) PROVE FALSE
    <3>1. flight[tab] = h /\ got[h] = NoToken /\ step[h] = "answered" /\ code[h] = 200
      BY <2>1, <2>6, <2>8 DEF Refreshed, SetTokens, Finish
    <3> QED BY <2>1, <3>1 DEF RefreshHeld, Issues
  <2>9. ASSUME NEW h \in Handlers, SessionEnded(tab, h) PROVE ~IsUsable(refresh)
    <3>1. flight[tab] = h /\ step[h] = "answered" /\ code[h] = 401
      BY <2>6, <2>9 DEF SessionEnded, EndsSession, Finish
    <3> QED BY <1>1, <2>1, <3>1 DEF RefusedForGood
  <2>10. ASSUME SignedIn(tab) PROVE FALSE
    <3>1. code[form[tab]] = 200 /\ got[form[tab]] = NoToken /\ step[form[tab]] = "answered"
      BY <2>1, <2>10 DEF SignedIn, SetTokens, Finish, store
    <3> QED BY <2>1, <2>10, <3>1 DEF FormHeld, Issues, SignedIn
  <2>11. ~SignedOut(tab) /\ ~SignOut(tab)
    BY <2>1, <2>2 DEF SignedOut, SignOut, store
  <2>12. refresh' # refresh
    BY <2>1
  <2> QED BY <1>1, <2>1, <2>5, <2>7, <2>8, <2>9, <2>10, <2>11, <2>12
          DEF SessionNext, Send, CallStep, Succeed, AwaitRefresh, RefreshDone, SignIn,
              FormDone, Reload, ApiStep, Abandoned, ApiFault, AccessExpires, sessionVars, store
<1>2. HandsInv /\ PagesInOrder /\ RefusedForGood /\ [SessionNext]_sessionVars
          => [Forgotten => SomeTab("leaving") \/ SomeTab("starting") \/ ~IsUsable(refresh)]_sessionVars
  BY <1>1
<1> QED BY <1>2, RefusedHolds, PTL DEF SessionSpec, ForgottenIsUnusable

-----------------------------------------------------------------------------
(* A refusal is right, in any number of tabs *)

\* A refresh that a tab waits for is refused only if the token it presented is of no use.
\* That need not be the stored token: another tab may have stored a new pair meanwhile.
RefusalIsRight ==
    \A t \in Tabs : flight[t] # NoHandler /\ step[flight[t]] = "answered" /\ code[flight[t]] = 401
        => ~IsUsable(arg[flight[t]])

LEMMA StepRight ==
    ASSUME ~DbError, HandsInv, OnlyUser, RefusalIsRight, [SessionNext]_sessionVars
    PROVE  RefusalIsRight'
<1>1. TypeOK /\ TypedTabs /\ NoHandler \notin Handlers /\ [AuthNext]_authVars
  BY TypeParts, SessionAssumption, StepsOfTheApi DEF HandsInv
<1> SUFFICES ASSUME NEW t \in Tabs, flight'[t] # NoHandler, step'[flight'[t]] = "answered",
                    code'[flight'[t]] = 401
             PROVE  tok'[arg'[flight'[t]]] # "live" \/ arg'[flight'[t]] \in expired'
    BY DEF RefusalIsRight, IsUsable
<1> DEFINE f == flight[t]
<1>2. CASE flight'[t] = f
  <2>1. f # NoHandler /\ RefreshHeld(t)
    BY <1>2 DEF HandsInv, Hands
  <2>2. /\ f \in Handlers /\ arg'[f] = arg[f]
        /\ \/ step'[f] = step[f] /\ code'[f] = code[f]
           \/ DbStep(f) \/ Crash(f)
    <3>1. f \in Held(t) /\ f \in {flight'[t], form'[t]}
      BY <1>2, <2>1 DEF Held
    <3> QED BY <3>1, HeldMoves
  <2>3. arg[f] \in Tokens /\ Issued(arg[f]) /\ step[f] \in RefreshSteps
    BY <2>1, <2>2, NoTokenAssumption DEF RefreshHeld, HandsInv, TokensKnown
  <2>4. ~IsUsable(arg[f])
    <3>1. CASE step'[f] = step[f] /\ code'[f] = code[f]
      BY <1>2, <2>1, <3>1 DEF RefusalIsRight
    <3>2. CASE DbStep(f) \/ Crash(f)
      BY <1>1, <1>2, <2>2, <2>3, <3>2, Refusal
    <3> QED BY <2>2, <3>1, <3>2
  <2>5. ASSUME NEW k \in Tokens, Issued(k), ~IsUsable(k) PROVE tok'[k] # "live" \/ k \in expired'
    <3>1. ~IsUsable(k)'
      BY <1>1, <2>5, UselessStays
    <3> QED BY <3>1 DEF IsUsable
  <2>6. PICK k \in Tokens : k = arg[f]
    BY <2>3
  <2> QED BY <1>2, <2>2, <2>3, <2>4, <2>5, <2>6
<1>3. CASE flight'[t] # f
  <2>1. PICK c \in Calls : AwaitRefresh(t, c)
    <3>1. ASSUME NEW u \in Tabs, NEW h \in Handlers, RefreshDone(u, h) PROVE FALSE
      BY <1>1, <1>3, <3>1
         DEF RefreshDone, Refreshed, SessionEnded, RefreshFailed, Landed, TypedTabs
    <3>2. ASSUME NEW u \in Tabs, Reload(u) PROVE FALSE
      BY <1>1, <1>3, <3>2 DEF Reload, TypedTabs
    <3>3. ASSUME NEW u \in Tabs, NEW c \in Calls, AwaitRefresh(u, c) PROVE u = t
      BY <1>1, <1>3, <3>3 DEF AwaitRefresh, TypedTabs
    <3>4. ASSUME NEW u \in Tabs, NEW d \in Calls, Send(u, d) \/ CallStep(u, d) \/ Blip(u, d)
          PROVE  u = t /\ AwaitRefresh(t, d)
      BY <1>3, <3>3, <3>4 DEF Send, CallStep, Succeed, GiveUp, Blip, tabVars
    <3>5. ASSUME \/ \E u \in Tabs : SignIn(u) \/ SignOut(u) \/ FormDone(u)
                 \/ \E h \in Handlers : ApiStep(h) \/ Abandoned(h)
                 \/ ApiFault \/ AccessExpires \/ UNCHANGED sessionVars
          PROVE  FALSE
      BY <1>3, <3>5 DEF SignIn, SignOut, FormDone, SignedIn, SignedOut, ApiStep, Abandoned,
                        ApiFault, AccessExpires, sessionVars, tabVars
    <3> QED BY <3>1, <3>2, <3>4, <3>5 DEF SessionNext
  <2>2. PICK h \in Handlers : Refresh(h, refresh) /\ flight' = [flight EXCEPT ![t] = h]
    BY <1>3, <2>1 DEF AwaitRefresh
  <2>3. flight'[t] = h /\ step'[h] = "refresh"
    BY <1>1, <2>2, CallMoves DEF Refresh, TypedTabs
  <2> QED BY <2>3
<1> QED BY <1>2, <1>3

\* Whatever tabs, users and network do, a refresh ends a session only with a token that
\* was revoked, replaced or expired: with a sound database the API never turns away a
\* token that works (auth.controller.js:124-146, api.js:58-65).
OnlyUselessEndsSession ==
    [][\A t \in Tabs, h \in Handlers : SessionEnded(t, h) => ~IsUsable(arg[h])]_sessionVars

\* For any tabs, handlers, clicks and network faults, as long as database calls succeed.
THEOREM EndedIsUseless ==
    ASSUME ~DbError
    PROVE  SessionSpec => OnlyUselessEndsSession
<1>1. SessionInit => RefusalIsRight
  BY DEF SessionInit, RefusalIsRight
<1>2. HandsInv /\ OnlyUser /\ RefusalIsRight /\ [SessionNext]_sessionVars => RefusalIsRight'
  BY StepRight
<1>3. HandsInv /\ RefusalIsRight
        => [\A t \in Tabs, h \in Handlers : SessionEnded(t, h) => ~IsUsable(arg[h])]_sessionVars
  <2> SUFFICES ASSUME HandsInv, RefusalIsRight, NEW t \in Tabs, NEW h \in Handlers, SessionEnded(t, h)
               PROVE  ~IsUsable(arg[h])
      OBVIOUS
  <2>1. flight[t] = h /\ h # NoHandler
    BY TypeParts, WaitingOnes DEF SessionEnded, HandsInv, Hands
  <2> QED BY <2>1 DEF RefusalIsRight, SessionEnded, Finish, EndsSession
<1> QED BY <1>1, <1>2, <1>3, UserHolds, PTL DEF SessionSpec, OnlyUselessEndsSession

-----------------------------------------------------------------------------
(* One exchange at a time *)

\* A request between its arrival with a token and the pair it gets for it.
Exchanging(h) ==
    \/ step[h] \in {"refresh", "user", "revoke"}
    \/ step[h] = "issue" /\ arg[h] # NoToken

\* While pages are not loaded again and answers not lost, every exchange is the refresh
\* that a page waits for.
RunsAreFlights == \A h \in Handlers : Exchanging(h) => \E t \in Tabs : flight[t] = h

\* A token on its way to being exchanged has no successor yet.
Unspent ==
    \A h \in Handlers : step[h] \in {"user", "revoke", "issue"} /\ arg[h] # NoToken =>
        \A k \in Tokens : parent[k] # arg[h]

\* The API's own steps start no exchange, and an exchange is not finished.
LEMMA ExchangesGoOn ==
    ASSUME TypeOK, NewLogins, NEW k \in Handlers, DbStep(k) \/ Crash(k) \/ Refused(k) \/ Finish(k),
           NEW h \in Handlers, Exchanging(h)'
    PROVE  Exchanging(h) /\ ~Finish(h) /\ ~Refused(h)
<1> USE DEF Exchanging
<1>1. CASE h # k
  <2>1. Besides(k)
    BY StepMoves, FinishMoves, RefusedMoves
  <2>2. step'[h] = step[h] /\ arg'[h] = arg[h]
    BY <1>1, <2>1 DEF Besides
  <2> QED BY <2>2 DEF Finish, Refused, Goto, TypeOK
<1>2. CASE h = k
  <2>1. CASE FindByEmail(h) \/ CreateUser(h) \/ CheckLogin(h)
    BY <2>1 DEF FindByEmail, CreateUser, CheckLogin, NewLogins, Goto, Answer, TypeOK
  <2>2. CASE FindRefreshToken(h) \/ FindById(h)
    BY <2>2 DEF FindRefreshToken, FindById, Finish, Refused, Goto, TypeOK
  <2>3. CASE RevokeToken(h)
    BY <2>3 DEF RevokeToken, Goto, Answer, Finish, Refused, TypeOK
  <2>4. CASE IssueTokens(h)
    BY <2>4 DEF IssueTokens, TypeOK
  <2>5. CASE QueryFails(h) \/ Crash(h) \/ Refused(h) \/ Finish(h)
    BY <2>5 DEF QueryFails, Crash, Refused, Finish, Goto, Answer, TypeOK
  <2> QED BY <1>2, <2>1, <2>2, <2>3, <2>4, <2>5 DEF DbStep
<1> QED BY <1>1, <1>2

LEMMA StepRuns ==
    ASSUME HandsInv, NewLogins, RunsAreFlights, [SessionNext]_sessionVars,
           "reply_lost" \notin BrowserFaults, "reload" \notin BrowserFaults
    PROVE  RunsAreFlights'
<1>1. TypeOK /\ TypedTabs /\ Hands /\ NoHandler \notin Handlers
  BY TypeParts, SessionAssumption DEF HandsInv
<1>2. SUFFICES ASSUME NEW h \in Handlers, Exchanging(h)' PROVE \E t \in Tabs : flight'[t] = h
  BY DEF RunsAreFlights
<1>3. ASSUME NEW t \in Tabs, NEW c \in Calls, AwaitRefresh(t, c)
      PROVE  Exchanging(h) \/ \E u \in Tabs : flight'[u] = h
  <2>1. CASE UNCHANGED authVars
    BY <1>2, <2>1 DEF Exchanging, authVars, handlerVars
  <2>2. ASSUME NEW k \in Handlers, Refresh(k, refresh), flight' = [flight EXCEPT ![t] = k]
        PROVE  Exchanging(h) \/ \E u \in Tabs : flight'[u] = h
    <3>1. flight'[t] = k /\ Besides(k)
      BY <1>1, <2>2, CallMoves DEF Refresh, TypedTabs
    <3>2. h # k => step'[h] = step[h] /\ arg'[h] = arg[h]
      BY <3>1 DEF Besides
    <3> QED BY <1>2, <3>1, <3>2 DEF Exchanging
  <2> QED BY <1>3, <2>1, <2>2 DEF AwaitRefresh
<1>4. ASSUME NEW k \in Handlers, Login(k, User) \/ Logout(k, refresh) PROVE Exchanging(h)
  <2>1. PICK s \in {"login", "logout"} : step'[k] = s /\ Besides(k)
    BY <1>1, <1>4, CallMoves DEF Login, Logout
  <2>2. h # k
    BY <1>2, <2>1 DEF Exchanging
  <2>3. step'[h] = step[h] /\ arg'[h] = arg[h]
    BY <2>1, <2>2 DEF Besides
  <2> QED BY <1>2, <2>3 DEF Exchanging
<1>5. ASSUME NEW k \in Handlers, DbStep(k) \/ Crash(k) \/ Refused(k) \/ Finish(k)
      PROVE  Exchanging(h) /\ ~Finish(h) /\ ~Refused(h)
  BY <1>1, <1>2, <1>5, ExchangesGoOn
<1>6. ASSUME UNCHANGED handlerVars PROVE Exchanging(h)
  BY <1>2, <1>6 DEF Exchanging, handlerVars
<1>7. ASSUME NEW t \in Tabs PROVE FormDone(t) => form[t] \in Handlers
  BY <1>1 DEF Hands, FormHeld, FormDone, SignedIn, SignedOut, TypedTabs
<1>8. Exchanging(h) \/ \E u \in Tabs : flight'[u] = h
  <2>1. ASSUME NEW t \in Tabs, NEW c \in Calls, Send(t, c) \/ Succeed(t, c) \/ GiveUp(t, c) \/ Blip(t, c)
        PROVE  Exchanging(h)
    BY <1>6, <2>1 DEF Send, Succeed, GiveUp, Blip, authVars
  <2>2. ASSUME NEW t \in Tabs, NEW k \in Handlers, RefreshDone(t, k) PROVE Exchanging(h)
    BY <1>5, <2>2 DEF RefreshDone, Refreshed, SessionEnded, RefreshFailed
  <2>3. ASSUME NEW t \in Tabs, FormDone(t) PROVE Exchanging(h)
    BY <1>5, <1>7, <2>3 DEF FormDone, SignedIn, SignedOut
  <2>4. ASSUME NEW t \in Tabs, SignIn(t) \/ SignOut(t) PROVE Exchanging(h)
    BY <1>4, <1>6, <2>4 DEF SignIn, SignOut, authVars
  <2>5. ASSUME NEW k \in Handlers, ApiStep(k) \/ Abandoned(k) PROVE Exchanging(h)
    BY <1>5, <2>5 DEF ApiStep, Abandoned
  <2>6. ASSUME ApiFault PROVE Exchanging(h)
    BY <1>5, <1>6, <2>6 DEF ApiFault, Expire
  <2>7. ASSUME AccessExpires \/ UNCHANGED sessionVars PROVE Exchanging(h)
    BY <1>6, <2>7 DEF AccessExpires, sessionVars, authVars
  <2>8. ASSUME NEW t \in Tabs PROVE ~Reload(t)
    BY DEF Reload
  <2> QED BY <1>3, <2>1, <2>2, <2>3, <2>4, <2>5, <2>6, <2>7, <2>8 DEF SessionNext, CallStep
<1>9. ASSUME Exchanging(h) PROVE \E u \in Tabs : flight'[u] = h
  <2>1. PICK t \in Tabs : flight[t] = h
    BY <1>9 DEF RunsAreFlights
  <2>2. SUFFICES ASSUME flight'[t] # h PROVE FALSE
    BY <2>1
  <2>3. ASSUME NEW u \in Tabs, NEW c \in Calls, AwaitRefresh(u, c) PROVE FALSE
    <3>1. flight'[t] = flight[t] \/ flight[t] = NoHandler
      BY <1>1, <2>3 DEF AwaitRefresh, InFlight, TypedTabs
    <3> QED BY <1>1, <2>1, <2>2, <3>1
  <2>4. ASSUME NEW u \in Tabs, NEW k \in Handlers, RefreshDone(u, k) PROVE FALSE
    <3>1. /\ Finish(k) \/ Refused(k)
          /\ flight' = [flight EXCEPT ![u] = IF flight[u] = k THEN NoHandler ELSE flight[u]]
      BY <2>4 DEF RefreshDone, Refreshed, SessionEnded, RefreshFailed, Landed
    <3>2. k = h
      BY <1>1, <2>1, <2>2, <3>1 DEF TypedTabs
    <3> QED BY <1>5, <3>1, <3>2
  <2>5. ASSUME NEW u \in Tabs PROVE ~Reload(u)
    BY DEF Reload
  <2> QED BY <2>1, <2>2, <2>3, <2>4, <2>5
          DEF SessionNext, Send, CallStep, Succeed, GiveUp, Blip, SignIn, SignOut,
              FormDone, SignedIn, SignedOut, ApiStep, Abandoned, ApiFault,
              AccessExpires, sessionVars, tabVars
<1> QED BY <1>8, <1>9

\* The one exchange there can be found its token alive, which a token with a successor is not.
LEMMA StepUnspent ==
    ASSUME NEW tab, Tabs = {tab}, TypeOK, NewLogins, ReplacedIsRevoked, RunsAreFlights, Unspent,
           OneSuccessor, [AuthNext]_authVars
    PROVE  Unspent' /\ OneSuccessor'
<1> DEFINE Kept == Unspent' /\ OneSuccessor'
<1>1. NoToken \notin Tokens
  BY NoTokenAssumption
<1>2. ASSUME NEW h \in Handlers, IssueTokens(h) PROVE Kept
  <2>1. PICK k \in Tokens : parent' = [parent EXCEPT ![k] = arg[h]]
    BY <1>2 DEF IssueTokens
  <2>2. step[h] = "issue" /\ step' = [step EXCEPT ![h] = "answered"] /\ arg' = arg
    BY <1>2 DEF IssueTokens
  <2>3. arg[h] # NoToken => \A j \in Tokens : parent[j] # arg[h]
    BY <2>2 DEF Unspent
  <2>4. OneSuccessor'
    BY <2>1, <2>3 DEF OneSuccessor, TypeOK
  <2>5. ASSUME NEW j \in Handlers, step'[j] \in {"user", "revoke", "issue"}, arg'[j] # NoToken,
               NEW i \in Tokens
        PROVE  parent'[i] # arg'[j]
    <3>1. j # h /\ step[j] \in {"user", "revoke", "issue"} /\ arg[j] # NoToken
      BY <2>2, <2>5 DEF TypeOK
    <3>2. parent[i] # arg[j]
      BY <3>1 DEF Unspent
    <3>3. flight[tab] = j
      BY <3>1 DEF RunsAreFlights, Exchanging
    <3>4. arg[h] = NoToken
      BY <2>2, <3>1, <3>3 DEF RunsAreFlights, Exchanging
    <3> QED BY <2>1, <2>2, <3>1, <3>2, <3>4 DEF TypeOK
  <2>6. Unspent'
    BY <2>5 DEF Unspent
  <2> QED BY <2>4, <2>6
<1>3. ASSUME UNCHANGED parent,
             \A h \in Handlers : step'[h] \in {"user", "revoke", "issue"} /\ arg'[h] # NoToken =>
                 /\ arg'[h] = arg[h]
                 /\ step[h] \in {"user", "revoke", "issue"} \/ \A k \in Tokens : parent[k] # arg[h]
      PROVE  Kept
  BY <1>3 DEF Unspent, OneSuccessor
<1>4. ASSUME NEW h \in Handlers, NEW s, NEW e, NEW k, Call(h, s, e, k),
             s \in {"signup", "login", "refresh", "logout"}
      PROVE  Kept
  <2>1. Besides(h) /\ step'[h] = s /\ parent' = parent
    BY <1>4, CallMoves
  <2> QED BY <1>3, <1>4, <2>1 DEF Besides
<1>5. ASSUME NEW h \in Handlers, DbStep(h) \/ Crash(h) \/ Refused(h) \/ Finish(h), ~IssueTokens(h) PROVE Kept
  <2>1. Besides(h) /\ arg' = arg /\ parent' = parent
    <3>1. Besides(h) /\ arg' = arg
      BY <1>5, StepMoves, FinishMoves, RefusedMoves
    <3> QED BY <1>5, <3>1
            DEF DbStep, FindByEmail, CreateUser, CheckLogin, FindRefreshToken, FindById, RevokeToken,
                QueryFails, Crash, Refused, Finish, tokenVars
  <2>2. ASSUME step'[h] \in {"user", "revoke", "issue"}, arg[h] # NoToken
        PROVE  step[h] \in {"user", "revoke", "issue"} \/ \A k \in Tokens : parent[k] # arg[h]
    <3>1. CASE FindRefreshToken(h)
      <4>1. tok[arg[h]] = "live"
        BY <2>2, <3>1 DEF FindRefreshToken, IsUsable, Answer, TypeOK
      <4> QED BY <4>1, <2>2 DEF ReplacedIsRevoked, TypeOK
    <3>2. CASE FindByEmail(h) \/ CreateUser(h) \/ CheckLogin(h)
      BY <2>2, <3>2 DEF FindByEmail, CreateUser, CheckLogin, NewLogins, TypeOK
    <3>3. CASE FindById(h)
      BY <3>3 DEF FindById
    <3>4. CASE RevokeToken(h)
      BY <2>2, <3>4 DEF RevokeToken, Answer, TypeOK
    <3>5. CASE QueryFails(h) \/ Crash(h) \/ Refused(h) \/ Finish(h)
      BY <2>2, <3>5 DEF QueryFails, Crash, Refused, Finish, Answer, Goto, TypeOK
    <3> QED BY <1>5, <3>1, <3>2, <3>3, <3>4, <3>5 DEF DbStep
  <2> QED BY <1>3, <2>1, <2>2 DEF Besides
<1>6. ASSUME UNCHANGED <<tokenVars, handlerVars>> PROVE Kept
  BY <1>3, <1>6 DEF tokenVars, handlerVars
<1> HIDE DEF Kept
<1>7. ASSUME NEW h \in Handlers, Request(h) PROVE Kept
  BY <1>4, <1>7 DEF Request, Signup, Login, Refresh, Logout
<1>8. Kept
  BY <1>2, <1>5, <1>6, <1>7 DEF AuthNext, DbStep, Expire, authVars
<1> QED BY <1>8 DEF Kept

\* One tab that shares its refreshes exchanges every token once, as long as no answer is
\* lost, no query fails and the page is not loaded again in between; crashes of the API
\* and users who sign in with calls under way make no difference.
THEOREM SuccessorIsOne ==
    ASSUME NEW tab, Tabs = {tab}, ~DbError,
           "reply_lost" \notin BrowserFaults, "reload" \notin BrowserFaults
    PROVE  SessionSpec => []OneSuccessor
<1> DEFINE Exchange == NewLogins /\ ExchangeInOrder /\ ReplacedIsRevoked
<1> DEFINE Spent == RunsAreFlights /\ Unspent /\ OneSuccessor
<1>1. SessionInit => Exchange /\ Spent
  BY DEF SessionInit, NewLogins, ExchangeInOrder, ReplacedIsRevoked, RunsAreFlights, Exchanging,
         Unspent, OneSuccessor
<1>2. HandsInv /\ Exchange /\ [SessionNext]_sessionVars => Exchange'
  BY StepsOfTheApi, StepExchange, StepReplaced DEF HandsInv
<1>3. HandsInv /\ Exchange /\ Spent /\ [SessionNext]_sessionVars => Spent'
  BY StepsOfTheApi, StepRuns, StepUnspent DEF HandsInv
<1>4. Spent => OneSuccessor
  OBVIOUS
<1> QED BY <1>1, <1>2, <1>3, <1>4, HandsHold, PTL DEF SessionSpec

-----------------------------------------------------------------------------
(* A session that only blips and expires *)

\* No query fails, the API does not stop, and pages are neither loaded again nor robbed of
\* an answer.
Calm == Faults \subseteq {"expire", "refused"} /\ BrowserFaults \subseteq {"blip"}

Quiet == \A t \in Tabs : ui[t] # "starting"

LogoutsAreForms ==
    \A h \in Handlers : step[h] = "logout" => \E t \in Tabs : ui[t] = "leaving" /\ form[t] = h

\* h has a pair for the page t, which has not stored it yet.
Brings(t, h) == h \in Held(t) /\ Issues(h) /\ (h = form[t] => ui[t] = "entering")

\* A pair on its way to a page is alive and nobody has presented it.
PairsAreFresh ==
    \A t \in Tabs, h \in Handlers : Brings(t, h) =>
        /\ tok[got[h]] = "live" /\ refresh # got[h]
        /\ \A k \in Handlers : step[k] # "idle" => arg[k] # got[h]

\* Outside of a logout the stored token is alive until its successor is under way.
StoredIsLive ==
    \A t \in Tabs : refresh # NoToken /\ ui[t] # "leaving" =>
        \/ tok[refresh] = "live"
        \/ flight[t] # NoHandler /\ (step[flight[t]] = "issue" \/ Issues(flight[t]))

LEMMA StepQuiet ==
    ASSUME Calm, SessionTypeOK, Quiet, [SessionNext]_sessionVars
    PROVE  Quiet'
<1>1. \A t \in Tabs : ~Reload(t)
  BY DEF Calm, Reload
<1>2. TypedTabs
  BY TypeParts
<1>3. ASSUME NEW t \in Tabs, NEW s \in {"in", "out", "entering", "leaving"}, Show(t, s) PROVE Quiet'
  BY <1>2, <1>3 DEF Show, Quiet, TypedTabs
<1>4. ASSUME NEW t \in Tabs, Show(t, ShownAfterEnd(t)) PROVE Quiet'
  BY <1>3, <1>4 DEF ShownAfterEnd
<1>5. ASSUME UNCHANGED ui PROVE Quiet'
  BY <1>5 DEF Quiet
<1>6. ASSUME NEW t \in Tabs, NEW c \in Calls, Send(t, c) \/ CallStep(t, c) \/ Blip(t, c)
      PROVE  Quiet'
  BY <1>3, <1>5, <1>6 DEF Send, CallStep, Succeed, GiveUp, AwaitRefresh, Blip, FailAndSignOut,
                          tabVars
<1>7. ASSUME NEW t \in Tabs, NEW h \in Handlers, RefreshDone(t, h) PROVE Quiet'
  BY <1>3, <1>4, <1>5, <1>7 DEF RefreshDone, Refreshed, SessionEnded, RefreshFailed, FailForNow,
                                FailAndSignOut
<1>8. ASSUME NEW t \in Tabs, SignIn(t) \/ SignOut(t) \/ FormDone(t) PROVE Quiet'
  BY <1>3, <1>8 DEF SignIn, SignOut, FormDone, SignedIn, SignedOut
<1>9. ASSUME \/ \E h \in Handlers : ApiStep(h) \/ Abandoned(h)
             \/ ApiFault \/ AccessExpires \/ UNCHANGED sessionVars
      PROVE  Quiet'
  BY <1>5, <1>9 DEF ApiStep, Abandoned, ApiFault, AccessExpires, sessionVars, tabVars
<1> QED BY <1>1, <1>6, <1>7, <1>8, <1>9 DEF SessionNext

\* In a page that does not start, failing calls change neither tokens nor screen.
LEMMA QuietFailure ==
    ASSUME HandsInv, Quiet, NEW t \in Tabs, NEW cs, \A c \in cs : call[t][c] # "idle",
           FailAndSignOut(t, cs)
    PROVE  UNCHANGED <<refresh, access, ui>>
<1>1. Me \notin cs
  BY SessionAssumption DEF HandsInv, Starting, Quiet
<1> QED BY <1>1 DEF FailAndSignOut, store

\* The tokens and the screen of the one page in a step of a quiet session.
LEMMA QuietMoves ==
    ASSUME NEW tab, Tabs = {tab}, Calm, HandsInv, Quiet, [SessionNext]_sessionVars
    PROVE  \/ UNCHANGED <<refresh, ui, form, flight>>
           \/ \E c \in Calls : AwaitRefresh(tab, c) /\ UNCHANGED <<refresh, ui, form>>
           \/ \E h \in Handlers : Refreshed(tab, h) \/ SessionEnded(tab, h)
           \/ \E h \in Handlers : RefreshFailed(tab, h) /\ UNCHANGED <<refresh, ui, form>>
           \/ SignIn(tab) \/ SignOut(tab) \/ SignedIn(tab) \/ SignedOut(tab)
<1>1. tab \in Tabs /\ ~Reload(tab)
  BY DEF Calm, Reload
<1>2. ASSUME NEW c \in Calls, Blip(tab, c) \/ GiveUp(tab, c)
      PROVE  UNCHANGED <<refresh, ui, form, flight>>
  BY <1>1, <1>2, QuietFailure DEF Blip, GiveUp, Unauthorized
<1>3. ASSUME NEW h \in Handlers, RefreshFailed(tab, h) PROVE UNCHANGED <<refresh, ui, form>>
  <2>1. \A c \in Waiting(tab, h) : call[tab][c] # "idle"
    BY <1>1, <1>3, WaitingOnes DEF RefreshFailed
  <2> QED BY <1>1, <1>3, <2>1, QuietFailure DEF RefreshFailed, FailForNow
<1>4. ASSUME NEW c \in Calls, Succeed(tab, c) PROVE UNCHANGED <<refresh, ui, form, flight>>
  <2>1. c # Me
    BY <1>1, <1>4 DEF Succeed, HandsInv, Starting, Quiet
  <2> QED BY <1>4, <2>1 DEF Succeed, store
<1>5. ASSUME NEW c \in Calls, AwaitRefresh(tab, c) PROVE UNCHANGED <<refresh, ui, form>>
  BY <1>5 DEF AwaitRefresh, store
<1>6. ASSUME \/ \E c \in Calls : Send(tab, c)
             \/ \E h \in Handlers : ApiStep(h) \/ Abandoned(h)
             \/ ApiFault \/ AccessExpires \/ UNCHANGED sessionVars
      PROVE  UNCHANGED <<refresh, ui, form, flight>>
  BY <1>6 DEF Send, ApiStep, Abandoned, ApiFault, AccessExpires, sessionVars, store, tabVars
<1> QED BY <1>1, <1>2, <1>3, <1>4, <1>5, <1>6 DEF SessionNext, CallStep, RefreshDone, FormDone

LEMMA StepLogouts ==
    ASSUME NEW tab, Tabs = {tab}, Calm, HandsInv, Quiet, LogoutsAreForms, [SessionNext]_sessionVars
    PROVE  LogoutsAreForms'
<1>1. /\ tab \in Tabs /\ TypeOK /\ TypedTabs /\ Hands /\ RefreshHeld(tab) /\ FormHeld(tab)
      /\ NoHandler \notin Handlers
  BY TypeParts, SessionAssumption DEF HandsInv, Hands
<1>2. SUFFICES ASSUME NEW h \in Handlers, step'[h] = "logout"
               PROVE  ui'[tab] = "leaving" /\ form'[tab] = h
  BY <1>1 DEF LogoutsAreForms
<1>3. CASE SignOut(tab)
  <2>1. CASE refresh = NoToken
    <3>1. step' = step /\ ui[tab] = "in"
      BY <1>3, <2>1 DEF SignOut, authVars, handlerVars
    <3> QED BY <1>1, <1>2, <3>1 DEF LogoutsAreForms
  <2>2. CASE refresh # NoToken
    <3>1. PICK k \in Handlers : Logout(k, refresh) /\ form' = [form EXCEPT ![tab] = k]
      BY <1>3, <2>2 DEF SignOut
    <3>2. Besides(k) /\ ui[tab] = "in"
      BY <1>1, <1>3, <3>1, CallMoves DEF Logout, SignOut
    <3>3. ui'[tab] = "leaving" /\ form'[tab] = k
      BY <1>1, <1>3, <2>2, <3>1 DEF SignOut, Show, TypedTabs
    <3>4. h # k => step[h] = "logout"
      BY <1>2, <3>2 DEF Besides
    <3> QED BY <1>1, <3>2, <3>3, <3>4 DEF LogoutsAreForms
  <2> QED BY <2>1, <2>2
<1>4. CASE ~SignOut(tab)
  <2>1. step[h] = "logout"
    <3>1. ASSUME NEW k \in Handlers, DbStep(k) \/ Crash(k) PROVE step[h] = "logout"
      <4>1. Besides(k)
        BY <1>1, <3>1, StepMoves
      <4>2. h # k
        <5>1. step'[k] # "logout"
          BY <1>1, <3>1
             DEF DbStep, FindByEmail, CreateUser, CheckLogin, FindRefreshToken, FindById,
                 RevokeToken, IssueTokens, QueryFails, Crash, Goto, Answer, TypeOK
        <5> QED BY <1>2, <5>1
      <4> QED BY <1>2, <4>1, <4>2 DEF Besides
    <3>2. ASSUME NEW k \in Handlers, Finish(k) \/ Refused(k) PROVE step[h] = "logout"
      BY <1>1, <1>2, <3>2 DEF Finish, Refused, Goto, TypeOK
    <3>3. ASSUME NEW k \in Handlers, NEW e, NEW r, Call(k, "login", e, r) \/ Call(k, "refresh", e, r)
          PROVE  step[h] = "logout"
      BY <1>1, <1>2, <3>3 DEF Call, TypeOK
    <3>4. ASSUME UNCHANGED step PROVE step[h] = "logout"
      BY <1>2, <3>4
    <3>5. FormDone(tab) => form[tab] \in Handlers
      BY <1>1 DEF FormHeld, FormDone, SignedIn, SignedOut, TypedTabs
    <3>6. ASSUME NEW c \in Calls, AwaitRefresh(tab, c) PROVE step[h] = "logout"
      BY <3>3, <3>4, <3>6 DEF AwaitRefresh, Refresh, authVars, handlerVars
    <3>7. ASSUME NEW k \in Handlers, RefreshDone(tab, k) PROVE step[h] = "logout"
      BY <3>2, <3>4, <3>7
         DEF RefreshDone, Refreshed, SessionEnded, RefreshFailed, authVars, handlerVars
    <3>8. ASSUME SignIn(tab) \/ FormDone(tab) PROVE step[h] = "logout"
      BY <3>2, <3>3, <3>4, <3>5, <3>8
         DEF SignIn, Login, FormDone, SignedIn, SignedOut, authVars, handlerVars
    <3>9. ASSUME NEW k \in Handlers, ApiStep(k) \/ Abandoned(k) PROVE step[h] = "logout"
      BY <3>1, <3>2, <3>9 DEF ApiStep, Abandoned
    <3>10. ASSUME ApiFault PROVE step[h] = "logout"
      BY <3>1, <3>4, <3>10 DEF ApiFault, Expire, handlerVars
    <3>11. ASSUME NEW c \in Calls, Send(tab, c) \/ Succeed(tab, c) \/ GiveUp(tab, c) \/ Blip(tab, c)
           PROVE  step[h] = "logout"
      BY <3>4, <3>11 DEF Send, Succeed, GiveUp, Blip, authVars, handlerVars
    <3>12. ASSUME Reload(tab) \/ AccessExpires \/ UNCHANGED sessionVars PROVE step[h] = "logout"
      BY <3>4, <3>12 DEF Reload, AccessExpires, sessionVars, authVars, handlerVars
    <3> QED BY <1>1, <1>4, <3>6, <3>7, <3>8, <3>9, <3>10, <3>11, <3>12 DEF SessionNext, CallStep
  <2>2. ui[tab] = "leaving" /\ form[tab] = h
    BY <1>1, <2>1 DEF LogoutsAreForms
  <2>3. ~SignedOut(tab) /\ ~SignedIn(tab) /\ ~SignIn(tab)
    <3>1. ~Refused(h) /\ ~Finish(h)
      BY <1>1, <1>2, <2>1, RefusedMoves DEF Finish, TypeOK
    <3> QED BY <2>2, <3>1 DEF SignedOut, SignedIn, SignIn, Calm
  <2>4. ASSUME NEW k \in Handlers, SessionEnded(tab, k) PROVE ui'[tab] = "leaving" /\ form' = form
    BY <1>1, <2>2, <2>4 DEF SessionEnded, ShownAfterEnd, Show, TypedTabs
  <2>5. ASSUME NEW k \in Handlers, Refreshed(tab, k) PROVE UNCHANGED <<ui, form>>
    BY <2>5 DEF Refreshed
  <2> QED BY <1>4, <2>2, <2>3, <2>4, <2>5, QuietMoves
<1> QED BY <1>3, <1>4

\* A live token that no request and no page has stays alive and unpresented.
LEMMA FreshStays ==
    ASSUME HandsInv, [SessionNext]_sessionVars, NEW k \in Tokens, tok[k] = "live", refresh # k,
           \A h \in Handlers : step[h] # "idle" => arg[h] # k
    PROVE  tok'[k] = "live" /\ \A h \in Handlers : step'[h] # "idle" => arg'[h] # k
<1> DEFINE Kept == tok'[k] = "live" /\ \A h \in Handlers : step'[h] # "idle" => arg'[h] # k
<1>1. TypeOK /\ NoToken \notin Tokens
  BY NoTokenAssumption DEF HandsInv
<1>2. ASSUME NEW h \in Handlers, Asked(h) PROVE Kept
  <2>1. arg'[h] \in {NoToken, refresh} /\ Besides(h) /\ tok' = tok
    BY <1>1, <1>2, CallMoves DEF Asked, Login, Refresh, Logout
  <2> QED BY <1>1, <2>1 DEF Besides
<1>3. ASSUME NEW h \in Handlers, DbStep(h) \/ Crash(h) PROVE Kept
  <2>1. step[h] # "idle" /\ Besides(h) /\ arg' = arg
    BY <1>1, <1>3, StepMoves
  <2>2. tok'[k] = "live"
    <3>1. CASE RevokeToken(h)
      BY <1>1, <2>1, <3>1 DEF RevokeToken, Revoked, TypeOK
    <3>2. CASE IssueTokens(h)
      BY <1>1, <3>2 DEF IssueTokens, TypeOK
    <3>3. CASE UNCHANGED tok
      BY <3>3
    <3> QED BY <1>3, <3>1, <3>2, <3>3
            DEF DbStep, FindByEmail, CreateUser, CheckLogin, FindRefreshToken, FindById,
                QueryFails, Crash, tokenVars
  <2> QED BY <2>1, <2>2 DEF Besides
<1>4. ASSUME NEW h \in Handlers, Finish(h) \/ Refused(h) PROVE Kept
  BY <1>1, <1>4, FinishMoves, RefusedMoves DEF Besides, TypeOK
<1>5. ASSUME UNCHANGED <<tok, step, arg>> PROVE Kept
  BY <1>5
<1> HIDE DEF Kept
<1>6. \/ UNCHANGED authVars
      \/ \E h \in Handlers : Asked(h) \/ DbStep(h) \/ Crash(h) \/ Refused(h) \/ Finish(h)
      \/ \E j \in Tokens : Expire(j)
  BY ApiMoves DEF sessionVars
<1>7. Kept
  BY <1>2, <1>3, <1>4, <1>5, <1>6 DEF Expire, authVars, tokenVars, handlerVars
<1> QED BY <1>7 DEF Kept

\* The only step of the API that answers a login or a refresh with a pair.
LEMMA PairIssued ==
    ASSUME TypeOK, ~DbError, NEW h \in Handlers, DbStep(h), step[h] # "logout",
           step'[h] = "answered", code'[h] = 200
    PROVE  \E k \in Tokens : got'[h] = k /\ tok[k] = "new" /\ tok'[k] = "live"
<1>1. CASE FindByEmail(h)
  BY <1>1 DEF FindByEmail, Goto, Answer, TypeOK
<1>2. CASE CreateUser(h)
  BY <1>2 DEF CreateUser, Goto, Answer, TypeOK
<1>3. CASE CheckLogin(h)
  BY <1>3 DEF CheckLogin, Goto, Answer, TypeOK
<1>4. CASE FindRefreshToken(h)
  BY <1>4 DEF FindRefreshToken, Goto, Answer, TypeOK
<1>5. CASE FindById(h)
  BY <1>5 DEF FindById, Goto, Answer, TypeOK
<1>6. CASE RevokeToken(h)
  BY <1>6 DEF RevokeToken, Goto, TypeOK
<1>7. CASE IssueTokens(h)
  BY <1>7 DEF IssueTokens, TypeOK
<1>8. CASE QueryFails(h)
  BY <1>8 DEF QueryFails
<1> QED BY <1>1, <1>2, <1>3, <1>4, <1>5, <1>6, <1>7, <1>8 DEF DbStep

\* A page that enters has no refresh in flight.
LEMMA EntersAlone ==
    ASSUME HandsInv, NEW t \in Tabs, \A c \in Calls : call[t][c] = "idle"
    PROVE  flight[t] = NoHandler
<1>1. TypedCalls /\ RefreshHeld(t)
  BY TypeParts DEF HandsInv, Hands
<1> QED BY <1>1 DEF TypedCalls, RefreshHeld

\* Pairs reach the page that waits for them before anyone could have used them.
LEMMA StepPairs ==
    ASSUME NEW tab, Tabs = {tab}, Calm, Patient, HandsInv, PagesInOrder, Quiet, LogoutsAreForms,
           PairsAreFresh, [SessionNext]_sessionVars
    PROVE  PairsAreFresh'
<1>1. /\ tab \in Tabs /\ TypeOK /\ TypedCalls /\ TypedTabs /\ SessionTypeOK /\ Hands
      /\ RefreshHeld(tab) /\ FormHeld(tab) /\ TokensKnown
      /\ NoHandler \notin Handlers /\ NoToken \notin Tokens /\ ~DbError
  BY TypeParts, SessionAssumption, NoTokenAssumption DEF HandsInv, Hands, Calm, DbError
<1>2. SUFFICES ASSUME NEW h \in Handlers, h # NoHandler,
                      h = flight'[tab] \/ (h = form'[tab] /\ ui'[tab] = "entering"),
                      h = form'[tab] => ui'[tab] = "entering",
                      step'[h] = "answered", code'[h] = 200
               PROVE  /\ tok'[got'[h]] = "live" /\ refresh' # got'[h]
                      /\ \A k \in Handlers : step'[k] # "idle" => arg'[k] # got'[h]
  BY <1>1 DEF PairsAreFresh, Brings, Held, Issues
<1> DEFINE Fresh == /\ tok'[got'[h]] = "live" /\ refresh' # got'[h]
                    /\ \A k \in Handlers : step'[k] # "idle" => arg'[k] # got'[h]
\* A pair that was on its way before the step.
<1>3. ASSUME Brings(tab, h), got'[h] = got[h], refresh' = refresh \/ refresh' = NoToken PROVE Fresh
  <2>1. got[h] \in Tokens
    BY <1>1, <1>3 DEF Brings, Held, RefreshHeld, FormHeld
  <2>2. /\ tok[got[h]] = "live" /\ refresh # got[h]
        /\ \A k \in Handlers : step[k] # "idle" => arg[k] # got[h]
    BY <1>1, <1>3 DEF PairsAreFresh
  <2>3. tok'[got[h]] = "live" /\ \A k \in Handlers : step'[k] # "idle" => arg'[k] # got[h]
    <3>1. PICK k \in Tokens : k = got[h]
      BY <2>1
    <3> QED BY <2>2, <3>1, FreshStays
  <2> QED BY <1>1, <1>3, <2>1, <2>2, <2>3
<1>4. \A u \in Tabs, c \in Calls : ui[u] = "entering" => call[u][c] = "idle"
  BY DEF PagesInOrder
<1>5. CASE UNCHANGED <<refresh, ui, form, flight>>
  <2>1. h \in Held(tab) /\ h \in {flight'[tab], form'[tab]}
    BY <1>2, <1>5 DEF Held
  <2>2. \/ step'[h] = step[h] /\ code'[h] = code[h] /\ got'[h] = got[h]
        \/ DbStep(h) \/ Crash(h)
    BY <1>1, <2>1, HeldMoves
  <2>3. CASE step'[h] = step[h] /\ code'[h] = code[h] /\ got'[h] = got[h]
    <3>1. Brings(tab, h)
      BY <1>2, <1>5, <2>1, <2>3 DEF Brings, Issues
    <3> QED BY <1>3, <1>5, <2>3, <3>1
  <2>4. CASE DbStep(h)
    <3>1. step[h] # "logout"
      BY <1>1, <1>2, <1>5 DEF LogoutsAreForms
    <3>2. PICK k \in Tokens : got'[h] = k /\ tok[k] = "new" /\ tok'[k] = "live"
      BY <1>1, <1>2, <2>4, <3>1, PairIssued
    <3>3. refresh # k /\ \A j \in Handlers : arg[j] # k
      BY <1>1, <3>2 DEF TokensKnown, Issued
    <3>4. arg' = arg
      BY <1>1, <2>4, StepMoves
    <3> QED BY <1>5, <3>2, <3>3, <3>4
  <2>5. CASE Crash(h)
    BY <2>5 DEF Crash, Calm
  <2> QED BY <2>2, <2>3, <2>4, <2>5
<1>6. ASSUME NEW c \in Calls, AwaitRefresh(tab, c), UNCHANGED <<refresh, ui, form>> PROVE Fresh
  <2>1. ui[tab] # "entering"
    BY <1>1, <1>4, <1>6 DEF AwaitRefresh
  <2>2. h = flight'[tab] /\ h # form[tab]
    BY <1>2, <1>6, <2>1
  <2>3. UNCHANGED <<authVars, flight>>
    <3>1. ASSUME NEW k \in Handlers, Refresh(k, refresh), flight' = [flight EXCEPT ![tab] = k]
          PROVE  FALSE
      <4>1. h = k
        BY <1>1, <2>2, <3>1 DEF TypedTabs
      <4>2. step'[k] = "refresh"
        BY <1>1, <3>1, CallMoves DEF Refresh
      <4> QED BY <1>2, <4>1, <4>2
    <3> QED BY <1>6, <3>1 DEF AwaitRefresh
  <2>4. Brings(tab, h) /\ got'[h] = got[h]
    BY <1>2, <2>2, <2>3 DEF Brings, Held, Issues, authVars, handlerVars
  <2> QED BY <1>3, <1>6, <2>4
<1>7. ASSUME NEW k \in Handlers, RefreshDone(tab, k) PROVE FALSE
  <2>1. Waiting(tab, k) # {} /\ Landed(tab, k)
    BY <1>7 DEF RefreshDone, Refreshed, SessionEnded, RefreshFailed
  <2>2. flight[tab] = k /\ \A c \in Waiting(tab, k) : c \in Calls /\ call[tab][c] = "waiting"
    BY <1>1, <2>1, WaitingOnes
  <2>3. ui[tab] # "entering"
    BY <1>1, <1>4, <2>1, <2>2
  <2>4. flight'[tab] = NoHandler
    BY <1>1, <2>1, <2>2 DEF Landed, TypedTabs
  <2>5. ui'[tab] # "entering"
    <3>1. ASSUME SessionEnded(tab, k) PROVE ui'[tab] # "entering"
      BY <1>1, <2>3, <3>1 DEF SessionEnded, ShownAfterEnd, Show, TypedTabs
    <3>2. ASSUME Refreshed(tab, k) PROVE ui'[tab] # "entering"
      BY <2>3, <3>2 DEF Refreshed
    <3>3. ASSUME RefreshFailed(tab, k) PROVE ui'[tab] # "entering"
      BY <1>1, <2>3, <3>3 DEF RefreshFailed, FailForNow, FailAndSignOut, Show, TypedTabs
    <3> QED BY <1>7, <3>1, <3>2, <3>3 DEF RefreshDone
  <2> QED BY <1>2, <2>4, <2>5
<1>8. ~SignIn(tab)
  <2>1. SUFFICES ASSUME SignIn(tab) PROVE FALSE
    OBVIOUS
  <2>2. flight[tab] = NoHandler /\ flight' = flight
    BY <1>1, <2>1, EntersAlone DEF SignIn
  <2>3. PICK k \in Handlers : Login(k, User) /\ form' = [form EXCEPT ![tab] = k]
    BY <2>1 DEF SignIn
  <2>4. step'[k] = "login" /\ form'[tab] = k
    BY <1>1, <2>3, CallMoves DEF Login, TypedTabs
  <2> QED BY <1>2, <2>2, <2>4
<1>9. ASSUME SignOut(tab) PROVE Fresh
  <2>1. ui'[tab] # "entering" /\ flight' = flight /\ (refresh' = refresh \/ refresh' = NoToken)
    BY <1>1, <1>9 DEF SignOut, Show, ClearTokens, TypedTabs, store
  <2>2. h = flight[tab] /\ h \in Held(tab) /\ h # form[tab]
    BY <1>1, <1>2, <2>1 DEF Held, Hands
  <2>3. step'[h] = step[h] /\ code'[h] = code[h] /\ got'[h] = got[h]
    <3>1. CASE UNCHANGED authVars
      BY <3>1 DEF authVars, handlerVars
    <3>2. ASSUME NEW k \in Handlers, Logout(k, refresh)
          PROVE  step'[h] = step[h] /\ code'[h] = code[h] /\ got'[h] = got[h]
      <4>1. step[k] = "idle" /\ Besides(k)
        BY <1>1, <3>2, CallMoves DEF Logout
      <4>2. h # k
        BY <2>2, <4>1, FreeOnes
      <4> QED BY <4>1, <4>2 DEF Besides
    <3> QED BY <1>9, <3>1, <3>2 DEF SignOut
  <2>4. Brings(tab, h)
    BY <1>2, <2>2, <2>3 DEF Brings, Issues
  <2> QED BY <1>3, <2>1, <2>3, <2>4
<1>10. ~SignedIn(tab)
  <2>1. SUFFICES ASSUME SignedIn(tab) PROVE FALSE
    OBVIOUS
  <2>2. flight[tab] = NoHandler /\ flight' = flight
    BY <1>1, <1>4, <2>1, EntersAlone DEF SignedIn
  <2>3. form'[tab] = NoHandler
    BY <1>1, <2>1 DEF SignedIn, TypedTabs
  <2> QED BY <1>2, <2>2, <2>3
<1>11. ASSUME SignedOut(tab) PROVE Fresh
  <2>1. /\ flight' = flight /\ form'[tab] = NoHandler /\ refresh' = NoToken
        /\ Finish(form[tab]) \/ Refused(form[tab])
        /\ ui[tab] = "leaving"
    BY <1>1, <1>11 DEF SignedOut, ClearTokens, TypedTabs, Calm
  <2>2. h = flight[tab] /\ h # form[tab] /\ h \in Held(tab) /\ form[tab] \in Handlers
    BY <1>1, <1>2, <2>1 DEF Hands, Held, FormHeld, TypedTabs
  <2>3. step'[h] = step[h] /\ code'[h] = code[h] /\ got'[h] = got[h]
    BY <1>1, <2>1, <2>2, FinishMoves, RefusedMoves DEF Besides
  <2>4. Brings(tab, h)
    BY <1>2, <2>2, <2>3 DEF Brings, Issues
  <2> QED BY <1>3, <2>1, <2>3, <2>4
<1> HIDE DEF Fresh
<1>12. Fresh
  <2>1. CASE UNCHANGED <<refresh, ui, form, flight>>
    BY <1>5, <2>1 DEF Fresh
  <2> QED BY <1>6, <1>7, <1>8, <1>9, <1>10, <1>11, <2>1, QuietMoves DEF RefreshDone
<1> QED BY <1>12 DEF Fresh

\* The stored token is revoked by the page's own refresh or by a logout, and by nothing else.
LEMMA StepStored ==
    ASSUME NEW tab, Tabs = {tab}, Calm, Patient, HandsInv, PagesInOrder, Quiet, LogoutsAreForms,
           RunsAreFlights, PairsAreFresh, StoredIsLive, [SessionNext]_sessionVars
    PROVE  StoredIsLive'
<1>1. /\ tab \in Tabs /\ TypeOK /\ TypedCalls /\ TypedTabs /\ SessionTypeOK /\ Hands
      /\ RefreshHeld(tab) /\ FormHeld(tab) /\ TokensKnown
      /\ NoHandler \notin Handlers /\ NoToken \notin Tokens /\ ~DbError
  BY TypeParts, SessionAssumption, NoTokenAssumption DEF HandsInv, Hands, Calm, DbError
<1> DEFINE Live == \/ tok'[refresh'] = "live"
                   \/ /\ flight'[tab] # NoHandler
                      /\ \/ step'[flight'[tab]] = "issue"
                         \/ step'[flight'[tab]] = "answered" /\ code'[flight'[tab]] = 200
<1>2. SUFFICES ASSUME refresh' # NoToken, ui'[tab] # "leaving" PROVE Live
  BY <1>1 DEF StoredIsLive, Issues
<1>3. refresh # NoToken /\ ui[tab] # "leaving" =>
          \/ tok[refresh] = "live"
          \/ flight[tab] # NoHandler /\ (step[flight[tab]] = "issue" \/ Issues(flight[tab]))
  BY <1>1 DEF StoredIsLive
<1>4. \A c \in Calls : ui[tab] = "entering" => call[tab][c] = "idle"
  BY <1>1 DEF PagesInOrder
<1>5. CASE UNCHANGED <<refresh, ui, form, flight>>
  <2>1. CASE flight[tab] # NoHandler /\ (step[flight[tab]] = "issue" \/ Issues(flight[tab]))
    <3> DEFINE f == flight[tab]
    <3>1. f \in Held(tab) /\ f \in {flight'[tab], form'[tab]}
      BY <1>5, <2>1 DEF Held
    <3>2. /\ f \in Handlers
          /\ \/ step'[f] = step[f] /\ code'[f] = code[f]
             \/ DbStep(f) \/ Crash(f)
      BY <1>1, <3>1, HeldMoves
    <3>3. CASE step'[f] = step[f] /\ code'[f] = code[f]
      BY <1>5, <2>1, <3>3 DEF Issues
    <3>4. CASE DbStep(f)
      <4>1. step[f] = "issue"
        BY <1>1, <2>1, <3>2, <3>4, StepMoves DEF Issues
      <4>2. IssueTokens(f)
        BY <3>4, <4>1
           DEF DbStep, FindByEmail, CreateUser, CheckLogin, FindRefreshToken, FindById,
               RevokeToken, QueryFails
      <4>3. step'[f] = "answered" /\ code'[f] = 200
        BY <1>1, <3>2, <4>2 DEF IssueTokens, TypeOK
      <4> QED BY <1>5, <2>1, <4>3
    <3>5. CASE Crash(f)
      BY <3>5 DEF Crash, Calm
    <3> QED BY <3>2, <3>3, <3>4, <3>5
  <2>2. CASE tok[refresh] = "live"
    <3>1. ASSUME NEW h \in Handlers, RevokeToken(h) PROVE Live
      <4>1. CASE step[h] = "revoke"
        <5>1. flight[tab] = h
          BY <1>1, <4>1 DEF RunsAreFlights, Exchanging
        <5>2. step'[h] = "issue"
          BY <1>1, <3>1, <4>1 DEF RevokeToken, Goto, TypeOK
        <5> QED BY <1>1, <1>5, <5>1, <5>2
      <4>2. CASE step[h] = "logout"
        BY <1>1, <1>2, <1>5, <4>2 DEF LogoutsAreForms
      <4> QED BY <3>1, <4>1, <4>2 DEF RevokeToken
    <3>2. ASSUME NEW h \in Handlers, IssueTokens(h) PROVE Live
      <4>1. refresh \in Tokens /\ refresh' = refresh
        BY <1>1, <1>2, <1>5 DEF TypedTabs
      <4>2. tok'[refresh] = "live"
        BY <1>1, <2>2, <3>2, <4>1 DEF IssueTokens, TypeOK
      <4> QED BY <4>1, <4>2
    <3>3. ASSUME UNCHANGED tok PROVE Live
      BY <1>5, <2>2, <3>3
    <3>4. [AuthNext]_authVars
      BY <1>1, StepsOfTheApi
    <3> HIDE DEF Live
    <3> QED BY <3>1, <3>2, <3>3, <3>4
            DEF AuthNext, Request, DbStep, Signup, Login, Refresh, Logout, Call, FindByEmail,
                CreateUser, CheckLogin, FindRefreshToken, FindById, QueryFails, Finish, Refused, Crash,
                Expire, authVars, tokenVars
  <2> QED BY <1>2, <1>3, <1>5, <2>1, <2>2
<1>6. ASSUME NEW c \in Calls, AwaitRefresh(tab, c), UNCHANGED <<refresh, ui, form>> PROVE Live
  <2>1. tok' = tok
    BY <1>6 DEF AwaitRefresh, Refresh, Call, authVars, tokenVars
  <2>2. flight[tab] # NoHandler => UNCHANGED <<step, code, flight>>
    BY <1>6 DEF AwaitRefresh, InFlight, authVars, handlerVars
  <2> QED BY <1>2, <1>3, <1>6, <2>1, <2>2 DEF Issues
<1>7. ASSUME NEW h \in Handlers, Refreshed(tab, h) PROVE Live
  <2>1. flight[tab] = h /\ h # form[tab] /\ step[h] = "answered" /\ code[h] = 200 /\ h # NoHandler
    BY <1>1, <1>7, WaitingOnes DEF Refreshed, Finish
  <2>2. Brings(tab, h)
    BY <2>1 DEF Brings, Held, Issues
  <2>3. tok[got[h]] = "live" /\ refresh' = got[h] /\ tok' = tok
    BY <1>1, <1>7, <2>2 DEF PairsAreFresh, Refreshed, SetTokens, Finish, tokenVars
  <2> QED BY <2>3
<1>8. ASSUME NEW h \in Handlers, SessionEnded(tab, h) PROVE FALSE
  BY <1>2, <1>8 DEF SessionEnded, ClearTokens
<1>9. ASSUME NEW h \in Handlers, RefreshFailed(tab, h), UNCHANGED <<refresh, ui, form>> PROVE Live
  <2>1. flight[tab] = h
    BY <1>1, <1>9, WaitingOnes DEF RefreshFailed
  <2>2. tok' = tok /\ ((step[h] = "answered" /\ code[h] # 200) \/ step[h] = "refresh")
    <3>1. CASE Refused(h)
      BY <1>1, <2>1, <3>1, RefusedMoves DEF RefreshHeld, RefreshSteps
    <3> QED BY <1>9, <3>1 DEF RefreshFailed, IsTransient, Finish, tokenVars, Calm
  <2> QED BY <1>2, <1>3, <1>9, <2>1, <2>2 DEF Issues
<1>10. ASSUME SignIn(tab) PROVE Live
  <2>1. flight[tab] = NoHandler
    BY <1>1, <1>10, EntersAlone DEF SignIn
  <2>2. tok' = tok /\ refresh' = refresh /\ ui[tab] = "out"
    BY <1>10 DEF SignIn, Login, Call, tokenVars, store
  <2> QED BY <1>2, <1>3, <2>1, <2>2
<1>11. ~SignOut(tab)
  BY <1>1, <1>2 DEF SignOut, ClearTokens, Show, TypedTabs
<1>12. ASSUME SignedIn(tab) PROVE Live
  <2>1. flight[tab] = NoHandler /\ ui[tab] = "entering"
    BY <1>1, <1>4, <1>12, EntersAlone DEF SignedIn
  <2>2. form[tab] \in Handlers \ {NoHandler}
    BY <1>1, <2>1 DEF FormHeld, TypedTabs
  <2>3. ASSUME Finish(form[tab]), code[form[tab]] = 200, SetTokens(form[tab]) PROVE Live
    <3>1. tok' = tok /\ step[form[tab]] = "answered"
      BY <2>3 DEF Finish, tokenVars
    <3>2. Brings(tab, form[tab])
      BY <2>1, <2>2, <2>3, <3>1 DEF Brings, Held, Issues
    <3>3. tok[got[form[tab]]] = "live"
      BY <1>1, <2>2, <3>2 DEF PairsAreFresh
    <3> QED BY <2>3, <3>1, <3>3 DEF SetTokens
  <2>4. ASSUME Finish(form[tab]) \/ Refused(form[tab]), UNCHANGED store PROVE Live
    <3>1. tok' = tok /\ refresh' = refresh
      BY <2>4 DEF Finish, Refused, tokenVars, store
    <3> QED BY <1>2, <1>3, <2>1, <3>1
  <2>5. "reply_lost" \notin BrowserFaults
    BY DEF Calm
  <2> QED BY <1>12, <2>3, <2>4, <2>5 DEF SignedIn
<1>13. ~SignedOut(tab)
  BY <1>2 DEF SignedOut, ClearTokens
<1> HIDE DEF Live
<1> QED BY <1>1, <1>5, <1>6, <1>7, <1>8, <1>9, <1>10, <1>11, <1>12, <1>13, QuietMoves

\* In one tab whose user signs in only once its calls are answered, with calls and
\* refreshes that get no connection and expiring tokens but no other fault, a session ends
\* by logout or by the expiry of its refresh token.
THEOREM SurvivesBlips ==
    ASSUME NEW tab, Tabs = {tab}, Patient, Calm
    PROVE  SessionSpec => SessionSurvivesBlips
<1> DEFINE Exchange == NewLogins /\ RunsAreFlights
<1> DEFINE Calmly == Quiet /\ LogoutsAreForms /\ PairsAreFresh /\ StoredIsLive
<1>1. ~DbError /\ "reply_lost" \notin BrowserFaults /\ "reload" \notin BrowserFaults
  BY DEF Calm, DbError
<1>2. SessionInit => NewLogins /\ ExchangeInOrder /\ RunsAreFlights
  BY DEF SessionInit, NewLogins, ExchangeInOrder, RunsAreFlights, Exchanging
<1>3. HandsInv /\ NewLogins /\ ExchangeInOrder /\ [SessionNext]_sessionVars
          => NewLogins' /\ ExchangeInOrder'
  BY <1>1, StepsOfTheApi, StepExchange DEF HandsInv
<1>4. HandsInv /\ Exchange /\ [SessionNext]_sessionVars => RunsAreFlights'
  BY <1>1, StepRuns
<1>5. SessionInit => Calmly
  <2> SUFFICES ASSUME SessionInit PROVE Calmly
      OBVIOUS
  <2>1. Quiet /\ LogoutsAreForms /\ PairsAreFresh
    BY DEF SessionInit, Quiet, LogoutsAreForms, PairsAreFresh, Brings, Issues
  <2>2. StoredIsLive
    BY SessionAssumption DEF SessionInit, StoredIsLive
  <2> QED BY <2>1, <2>2
<1>6. HandsInv /\ PagesInOrder /\ Exchange /\ Calmly /\ [SessionNext]_sessionVars => Calmly'
  BY StepQuiet, StepLogouts, StepPairs, StepStored DEF HandsInv
<1>7. ASSUME HandsInv, RefusedForGood, Calmly, [SessionNext]_sessionVars, Forgotten
      PROVE  SomeTab("leaving") \/ refresh \in expired
  <2>1. /\ tab \in Tabs /\ TypeOK /\ TypedTabs /\ RefreshHeld(tab) /\ FormHeld(tab)
        /\ NoHandler \notin Handlers /\ NoToken \notin Tokens
        /\ refresh # NoToken /\ refresh' = NoToken
    BY <1>7, TypeParts, SessionAssumption, NoTokenAssumption DEF HandsInv, Hands, Forgotten
  <2>2. SUFFICES ASSUME ui[tab] # "leaving" PROVE refresh \in expired
    BY <2>1 DEF SomeTab
  <2>3. ASSUME NEW h \in Handlers, Refreshed(tab, h) PROVE FALSE
    <3>1. flight[tab] = h /\ h # NoHandler /\ step[h] = "answered" /\ code[h] = 200
      BY <1>7, <2>1, <2>3, WaitingOnes DEF Refreshed, Finish
    <3>2. got[h] = NoToken
      BY <2>1, <2>3 DEF Refreshed, SetTokens
    <3> QED BY <2>1, <3>1, <3>2 DEF RefreshHeld, Issues
  <2>4. ASSUME NEW h \in Handlers, SessionEnded(tab, h) PROVE refresh \in expired
    <3>1. flight[tab] = h /\ h # NoHandler /\ step[h] = "answered" /\ code[h] = 401
      BY <1>7, <2>1, <2>4, WaitingOnes DEF SessionEnded, EndsSession, Finish
    <3>2. ~IsUsable(refresh)
      BY <1>7, <2>1, <3>1 DEF RefusedForGood
    <3>3. tok[refresh] = "live"
      BY <1>7, <2>1, <2>2, <3>1 DEF StoredIsLive, Issues
    <3> QED BY <3>2, <3>3 DEF IsUsable
  <2>5. ~SignedIn(tab)
    BY <2>1 DEF SignedIn, SetTokens, Finish, store, FormHeld, Issues
  <2>6. ~SignedOut(tab) /\ ~SignOut(tab) /\ ~SignIn(tab)
    BY <2>1, <2>2 DEF SignedOut, SignOut, SignIn, store
  <2> QED BY <1>7, <2>1, <2>3, <2>4, <2>5, <2>6, QuietMoves
<1>8. HandsInv /\ RefusedForGood /\ Calmly /\ [SessionNext]_sessionVars
          => [Forgotten => SomeTab("leaving") \/ refresh \in expired]_sessionVars
  BY <1>7
<1>9. SessionSpec => [](HandsInv /\ PagesInOrder /\ OnlyUser /\ RefusedForGood)
  BY <1>1, RefusedHolds
<1> QED BY <1>2, <1>3, <1>4, <1>5, <1>6, <1>8, <1>9, PTL DEF SessionSpec, SessionSurvivesBlips
=============================================================================
