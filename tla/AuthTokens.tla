------------------------------ MODULE AuthTokens ------------------------------
(***************************************************************************)
(* Accounts and refresh tokens (auth.controller.js, user.model.js).  A     *)
(* handler is one HTTP request inside the API; between two of its database *)
(* calls other handlers run.  The database calls are the atomic steps.     *)
(*                                                                         *)
(* supabase-js does not throw: an error comes back as a value, and the     *)
(* statement may or may not have been carried out.                         *)
(***************************************************************************)
EXTENDS Naturals

CONSTANTS
    Emails,         \* e-mail addresses, one per possible account
    Tokens,         \* refresh tokens that can be issued (each has its own jti)
    NoToken,
    Handlers,       \* requests in flight at a time
    Faults          \* subset of FaultKinds

FaultKinds ==
    {"db_error",    \* a database call returns an error
     "crash",       \* the API process exits between two calls
     "refused",     \* a request does not reach the API
     "expire"}      \* refresh tokens reach their expiry time

ASSUME FaultsAssumption == Faults \subseteq FaultKinds
ASSUME NoTokenAssumption == NoToken \notin Tokens

VARIABLES
    rows,       \* rows[e]: users rows with the address e
    tok,        \* the token's row in refresh_tokens; "unstored": issued without a row
    parent,     \* the token that was presented to get this one
    holder,     \* the address the token was issued for
    expired,    \* tokens past their expiry
    step,       \* the handler's next database call
    mail, arg,  \* the address it works for, the token it was given
    code, got,  \* its answer: status (0: none) and refresh token
    void        \* handlers whose token was revoked before their request came in

tokenVars == <<tok, parent, holder>>
handlerVars == <<step, mail, arg, code, got, void>>
authVars == <<rows, tokenVars, expired, handlerVars>>

Steps == {"idle", "signup", "create", "login", "refresh", "user", "revoke",
          "issue", "logout", "answered"}
Codes == {0, 200, 401, 409, 500}
NoHolder == "nobody"

TypeOK ==
    /\ rows \in [Emails -> Nat]
    /\ tok \in [Tokens -> {"new", "live", "revoked", "unstored"}]
    /\ parent \in [Tokens -> Tokens \cup {NoToken}]
    /\ holder \in [Tokens -> Emails \cup {NoHolder}]
    /\ expired \subseteq Tokens
    /\ step \in [Handlers -> Steps]
    /\ mail \in [Handlers -> Emails \cup {NoHolder}]
    /\ arg \in [Handlers -> Tokens \cup {NoToken}]
    /\ code \in [Handlers -> Codes]
    /\ got \in [Handlers -> Tokens \cup {NoToken}]
    /\ void \subseteq Handlers
    /\ \A h \in Handlers : step[h] # "idle" => mail[h] \in Emails
    /\ \A h \in Handlers :
          step[h] \in {"refresh", "user", "revoke", "logout"} => arg[h] \in Tokens

AuthInit ==
    /\ rows = [e \in Emails |-> 0]
    /\ tok = [t \in Tokens |-> "new"]
    /\ parent = [t \in Tokens |-> NoToken]
    /\ holder = [t \in Tokens |-> NoHolder]
    /\ expired = {}
    /\ step = [h \in Handlers |-> "idle"]
    /\ mail = [h \in Handlers |-> NoHolder]
    /\ arg = [h \in Handlers |-> NoToken]
    /\ code = [h \in Handlers |-> 0]
    /\ got = [h \in Handlers |-> NoToken]
    /\ void = {}

-----------------------------------------------------------------------------
(* A handler's control *)

DbError == "db_error" \in Faults

Goto(h, s) == step' = [step EXCEPT ![h] = s] /\ UNCHANGED <<mail, arg, code, got, void>>

Answer(h, c) ==
    /\ step' = [step EXCEPT ![h] = "answered"]
    /\ code' = [code EXCEPT ![h] = c]
    /\ UNCHANGED <<mail, arg, got, void>>

\* A request comes in: it works for address e and presents token t.
Call(h, s, e, t) ==
    /\ step[h] = "idle"
    /\ step' = [step EXCEPT ![h] = s]
    /\ mail' = [mail EXCEPT ![h] = e]
    /\ arg' = [arg EXCEPT ![h] = t]
    /\ code' = [code EXCEPT ![h] = 0]
    /\ got' = [got EXCEPT ![h] = NoToken]
    /\ void' = IF t # NoToken /\ tok[t] = "revoked" THEN void \cup {h} ELSE void \ {h}
    /\ UNCHANGED <<rows, tokenVars, expired>>

Signup(h, e) == Call(h, "signup", e, NoToken)
Login(h, e) == Call(h, "login", e, NoToken)
Issued(t) == tok[t] # "new"
Refresh(h, t) == Issued(t) /\ Call(h, "refresh", holder[t], t)
Logout(h, t) == Issued(t) /\ Call(h, "logout", holder[t], t)

-----------------------------------------------------------------------------
(* Signup and login *)

FindByEmail(h) ==
    /\ step[h] = "signup"
    /\ IF rows[mail[h]] > 0 THEN Answer(h, 409) ELSE Goto(h, "create")
    /\ UNCHANGED <<rows, tokenVars, expired>>

FaultyEmailIsFree(e) == TRUE                            \* no UNIQUE on users.email
EmailIsFree(e) == rows[e] = 0

CreateUser(h) ==
    /\ step[h] = "create"
    /\ IF EmailIsFree(mail[h])
       THEN /\ rows' = [rows EXCEPT ![mail[h]] = @ + 1]
            /\ \/ Goto(h, "issue")
               \/ DbError /\ Answer(h, 500)
       ELSE Answer(h, 500) /\ UNCHANGED rows
    /\ UNCHANGED <<tokenVars, expired>>

\* The row with the address, and the comparison of the password's hash.
CheckLogin(h) ==
    /\ step[h] = "login"
    /\ \/ rows[mail[h]] = 1 /\ Goto(h, "issue")
       \/ Answer(h, 401)
    /\ UNCHANGED <<rows, tokenVars, expired>>

-----------------------------------------------------------------------------
(* Refresh and logout *)

FaultyIsUsable(t) == tok[t] # "unstored" /\ t \notin expired    \* stored.revoked not looked at
IsUsable(t) == tok[t] = "live" /\ t \notin expired

\* verifyRefreshToken and the row of the token.
FindRefreshToken(h) ==
    /\ step[h] = "refresh"
    /\ IF IsUsable(arg[h]) THEN Goto(h, "user") ELSE Answer(h, 401)
    /\ UNCHANGED <<rows, tokenVars, expired>>

\* The account; an error of this query is answered like an account that is gone.
FindById(h) ==
    /\ step[h] = "user"
    /\ \/ rows[mail[h]] = 1 /\ Goto(h, "revoke")
       \/ (rows[mail[h]] # 1 \/ DbError) /\ Answer(h, 401)
    /\ UNCHANGED <<rows, tokenVars, expired>>

FaultyRevoked(t) == tok                                 \* not awaited, and lost
Revoked(t) == IF tok[t] = "live" THEN [tok EXCEPT ![t] = "revoked"] ELSE tok

\* revokeRefreshToken; neither caller looks at its error.
RevokeToken(h) ==
    /\ step[h] \in {"revoke", "logout"}
    /\ \/ tok' = Revoked(arg[h])
       \/ DbError /\ UNCHANGED tok
    /\ IF step[h] = "revoke" THEN Goto(h, "issue") ELSE Answer(h, 200)
    /\ UNCHANGED <<rows, parent, holder, expired>>

\* issueTokens: the pair is signed and answered whether or not the row was stored.
IssueTokens(h) ==
    /\ step[h] = "issue"
    /\ \E t \in Tokens :
          /\ tok[t] = "new"
          /\ \/ tok' = [tok EXCEPT ![t] = "live"]
             \/ DbError /\ tok' = [tok EXCEPT ![t] = "unstored"]
          /\ parent' = [parent EXCEPT ![t] = arg[h]]
          /\ holder' = [holder EXCEPT ![t] = mail[h]]
          /\ got' = [got EXCEPT ![h] = t]
    /\ step' = [step EXCEPT ![h] = "answered"]
    /\ code' = [code EXCEPT ![h] = 200]
    /\ UNCHANGED <<rows, expired, mail, arg, void>>

\* A query of the handler that fails without having changed anything.
QueryFails(h) ==
    /\ DbError
    /\ step[h] \in {"signup", "create", "login", "refresh"}
    /\ Answer(h, 500)
    /\ UNCHANGED <<rows, tokenVars, expired>>

-----------------------------------------------------------------------------
(* The world around the handlers *)

\* The answer has been sent, or nobody waits for it any more.
Finish(h) ==
    /\ step[h] = "answered"
    /\ Goto(h, "idle")
    /\ UNCHANGED <<rows, tokenVars, expired>>

\* The process of the handler exits between two database calls: the connection
\* closes without a status.
Crash(h) ==
    /\ "crash" \in Faults
    /\ step[h] \notin {"idle", "answered"}
    /\ Answer(h, 0)
    /\ UNCHANGED <<rows, tokenVars, expired>>

\* No connection to the API: the request fails at its sender, and nothing has run.
Refused(h) ==
    /\ "refused" \in Faults
    /\ step[h] \in {"signup", "login", "refresh", "logout"}
    /\ Goto(h, "idle")
    /\ UNCHANGED <<rows, tokenVars, expired>>

Expire(t) ==
    /\ "expire" \in Faults
    /\ Issued(t) /\ t \notin expired
    /\ expired' = expired \cup {t}
    /\ UNCHANGED <<rows, tokenVars, handlerVars>>

DbStep(h) ==
    \/ FindByEmail(h) \/ CreateUser(h) \/ CheckLogin(h)
    \/ FindRefreshToken(h) \/ FindById(h) \/ RevokeToken(h) \/ IssueTokens(h)
    \/ QueryFails(h)

Request(h) ==
    \/ \E e \in Emails : Signup(h, e) \/ Login(h, e)
    \/ \E t \in Tokens : Refresh(h, t) \/ Logout(h, t)

AuthNext ==
    \/ \E h \in Handlers : Request(h) \/ DbStep(h) \/ Crash(h) \/ Refused(h) \/ Finish(h)
    \/ \E t \in Tokens : Expire(t)

AuthSpec == AuthInit /\ [][AuthNext]_authVars

-----------------------------------------------------------------------------
(* Properties *)

\* Two signups that both found the address free make one account
\* (auth.controller.js:48-58, users.email UNIQUE).
OneAccountPerEmail == \A e \in Emails : rows[e] <= 1

\* Unless a database call fails, a token that was exchanged for another one is
\* revoked, also when the server stops between the two (auth.controller.js:148-150).
ReplacedIsRevoked ==
    \A t \in Tokens : parent[t] # NoToken => tok[parent[t]] = "revoked"

\* A request that comes in with a token already revoked gets no pair, whatever
\* runs at the same time.
RevokedIsRefused == \A h \in void : got[h] = NoToken

\* A browser that shares its refreshes exchanges a token once, so that a login has
\* at most one usable token (auth.controller.js:116-118, api.js:79-86).
OneSuccessor ==
    \A t, u \in Tokens : parent[t] = parent[u] /\ parent[t] # NoToken => t = u
=============================================================================
