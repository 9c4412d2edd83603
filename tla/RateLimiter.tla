----------------------------- MODULE RateLimiter -----------------------------
(***************************************************************************)
(* The rate limiters of the API (rateLimiter.js) and the Redis health flag *)
(* they choose their store by (redis.js).                                  *)
(*                                                                         *)
(* globalLimiter and authLimiter count per IP address, the userLimiter of  *)
(* each router per user.  Every limiter of every process has a memory      *)
(* store of its own; in Redis the limiters of one prefix share their       *)
(* counters, across processes and across routers.  A request that passes   *)
(* two limiters one after the other is two requests here: they share no    *)
(* state.                                                                  *)
(*                                                                         *)
(* A command given to the Redis client waits until the link is ready; one  *)
(* whose reply is lost with the link is sent, and counted, again           *)
(* (enableOfflineQueue, maxRetriesPerRequest: null).  A process that runs  *)
(* the event consumer reads the stream through the same client: what is    *)
(* sent while XREADGROUP blocks waits until it returns (eventStream.js).   *)
(***************************************************************************)
EXTENDS Naturals, FiniteSets

CONSTANTS
    Procs,          \* API processes
    Readers,        \* those that run the event consumer: SERVICE_ROLE reports or all
    Redis,          \* the store all processes share
    Users,          \* users, all behind one IP address
    Address,        \* that address, the req.ip of every request
    Limiters,       \* the limiters that SERVICE_ROLE mounts
    Limit,          \* Limit[prefix]: requests let through per window
    MaxRequests,    \* bound on the requests
    MaxEvents       \* bound on crashes of Redis, broken links, restarts and ended windows

Prefixes == {"global", "auth", "user"}

ASSUME LimitersAssumption == Limiters \subseteq {"global", "auth", "tasks", "reports"}
ASSUME LimitAssumption == Limit \in [Prefixes -> Nat \ {0}]
ASSUME NamesAssumption == Redis \notin Procs /\ Address \notin Users /\ Readers \subseteq Procs
ASSUME SomeAssumption == Procs # {} /\ Users # {} /\ Limiters # {}
ASSUME BoundsAssumption == MaxRequests \in Nat /\ MaxEvents \in Nat

Requests == 1 .. MaxRequests
Keys == Users \cup {Address}
Stores == ({Redis} \X Prefixes) \cup (Procs \X Limiters)

VARIABLES
    redisUp,        \* does Redis answer
    ready,          \* ready[p]: the link of process p is connected
    redisHealthy,   \* redisHealthy[p]: the flag of redis.js, which follows the link
    hits,           \* hits[s][k]: the counter of key k in store s
    window,         \* window[s][k]: how many windows of k have ended in s
    req,            \* the requests and where they are
    behind,         \* requests whose command was sent after the read that is under way
    unheard,        \* hits whose reply was lost with the link
    events          \* how many of those there were so far

redisVars == <<redisUp, ready, redisHealthy>>
counters == <<hits, window>>
vars == <<redisVars, counters, req, behind, unheard, events>>

\* at: "idle", "checking" before the limiter, "sent" while Redis has not counted the
\* request, "counted" while its reply is under way; "served", "refused" or "lost".
\* hit is where and as which the request was counted, the total is 0 if it was not.
Ends == {"served", "refused", "lost"}
Hit == [store : Stores, key : Keys, window : Nat, total : Nat]
NoRequest == [at |-> "idle", proc |-> CHOOSE p \in Procs : TRUE,
              user |-> CHOOSE u \in Users : TRUE, limiter |-> CHOOSE l \in Limiters : TRUE,
              hit |-> [store |-> <<Redis, "global">>, key |-> Address, window |-> 0, total |-> 0]]

TypeOK ==
    /\ redisUp \in BOOLEAN
    /\ ready \in [Procs -> BOOLEAN] /\ redisHealthy \in [Procs -> BOOLEAN]
    /\ hits \in [Stores -> [Keys -> Nat]] /\ window \in [Stores -> [Keys -> Nat]]
    /\ unheard \subseteq Hit
    /\ behind \subseteq {r \in Requests : req[r].at = "sent" /\ req[r].proc \in Readers}
    /\ \A r \in Requests :
          /\ req[r].at \in {"idle", "checking", "sent", "counted"} \cup Ends
          /\ req[r].proc \in Procs /\ req[r].user \in Users /\ req[r].limiter \in Limiters
          /\ req[r].hit \in Hit
    /\ events \in 0 .. MaxEvents

\* A process starts with redisHealthy = false, the first 'ready' sets it.
Init ==
    /\ redisUp = TRUE
    /\ ready = [p \in Procs |-> FALSE] /\ redisHealthy = [p \in Procs |-> FALSE]
    /\ hits = [s \in Stores |-> [k \in Keys |-> 0]]
    /\ window = hits
    /\ req = [r \in Requests |-> NoRequest]
    /\ behind = {} /\ unheard = {} /\ events = 0

-----------------------------------------------------------------------------
(* Requests *)

\* prefix of each limiter: task.routes.js and report.routes.js each build a userLimiter.
Prefix(l) == IF l \in {"tasks", "reports"} THEN "user" ELSE l

\* Before `authenticate` there is no req.user.
FaultyKeyGenerator(l, user) == user                     \* as if authenticate ran first
FaultyKeyByAddress(l, user) == Address
KeyGenerator(l, user) == IF Prefix(l) = "user" THEN user ELSE Address

\* The health flag is read once, when the request reaches the limiter.
FaultyStoreOf(p, l) == <<Redis, Prefix(l)>>             \* no fallback
StoreOf(p, l) == IF redisHealthy[p] THEN <<Redis, Prefix(l)>> ELSE <<p, l>>

\* The requests are numbered as they come in.
Arrive(r) ==
    /\ req[r].at = "idle" /\ \A q \in 1 .. r - 1 : req[q].at # "idle"
    /\ \E p \in Procs, u \in Users, l \in Limiters :
          req' = [req EXCEPT ![r].at = "checking", ![r].proc = p, ![r].user = u,
                             ![r].limiter = l]
    /\ UNCHANGED <<redisVars, counters, behind, unheard, events>>

\* 429, or on to the handler.
Verdict(l, h) == IF h.total > Limit[Prefix(l)] THEN "refused" ELSE "served"

Counted(s, k) == [store |-> s, key |-> k, window |-> window[s][k], total |-> hits[s][k] + 1]

\* memoryLimiter counts and decides at once, redisLimiter hands its command to the client.
Check(r) ==
    /\ req[r].at = "checking"
    /\ LET l == req[r].limiter
           s == StoreOf(req[r].proc, l)
           k == KeyGenerator(l, req[r].user) IN
       IF s[1] = Redis
       THEN /\ req' = [req EXCEPT ![r].at = "sent", ![r].hit.store = s, ![r].hit.key = k]
            /\ behind' = IF req[r].proc \in Readers THEN behind \cup {r} ELSE behind
            /\ UNCHANGED hits
       ELSE /\ req' = [req EXCEPT ![r].at = Verdict(l, Counted(s, k)), ![r].hit = Counted(s, k)]
            /\ hits' = [hits EXCEPT ![s][k] = @ + 1]
            /\ UNCHANGED behind
    /\ UNCHANGED <<redisVars, window, unheard, events>>

\* Redis runs the script of rate-limit-redis: INCR, and PEXPIRE on the first hit.
CountInRedis(r) ==
    /\ req[r].at = "sent" /\ ready[req[r].proc] /\ r \notin behind
    /\ LET s == req[r].hit.store
           k == req[r].hit.key IN
       /\ req' = [req EXCEPT ![r].at = "counted", ![r].hit = Counted(s, k)]
       /\ hits' = [hits EXCEPT ![s][k] = @ + 1]
    /\ UNCHANGED <<redisVars, window, behind, unheard, events>>

Reply(r) ==
    /\ req[r].at = "counted" /\ ready[req[r].proc]
    /\ req' = [req EXCEPT ![r].at = Verdict(req[r].limiter, req[r].hit)]
    /\ UNCHANGED <<redisVars, counters, behind, unheard, events>>

SentBy(p) == {r \in Requests : req[r].at = "sent" /\ req[r].proc = p}

FaultyReadReturns == FALSE                              \* BLOCK 0, and no event comes
ReadReturns == TRUE

\* The read had its turn, and returns after BLOCK 5000 at the latest; the loop sends the
\* next one, behind all that was sent meanwhile.
ReadEnds(p) ==
    /\ p \in Readers /\ ready[p] /\ ReadReturns
    /\ SentBy(p) \subseteq behind /\ SentBy(p) # {}
    /\ behind' = behind \ SentBy(p)
    /\ UNCHANGED <<redisVars, counters, req, unheard, events>>

-----------------------------------------------------------------------------
(* Redis, the link to it and the flag *)

Event == events < MaxEvents /\ events' = events + 1

FaultyUnanswered(q) == [q EXCEPT !.at = "failed"]       \* maxRetriesPerRequest: 0
Unanswered(q) == [q EXCEPT !.at = "sent", !.hit.total = 0]

\* The links of P are gone: their clients will send again what has no reply yet.
Disconnect(P) ==
    /\ ready' = [p \in Procs |-> ready[p] /\ p \notin P]
    /\ req' = [r \in Requests |->
                 IF req[r].at = "counted" /\ req[r].proc \in P
                 THEN Unanswered(req[r]) ELSE req[r]]
    /\ unheard' = unheard \cup
         {req[r].hit : r \in {q \in Requests : req[q].at = "counted" /\ req[q].proc \in P}}

BreakLink(p) ==
    /\ ready[p]
    /\ Event
    /\ Disconnect({p})
    /\ UNCHANGED <<redisUp, redisHealthy, counters, behind>>

\* A new window for the keys of the stores S: their counters start again.
Forget(S) ==
    /\ hits' = [s \in Stores |-> IF s \in S THEN [k \in Keys |-> 0] ELSE hits[s]]
    /\ window' = [s \in Stores |->
                    IF s \in S THEN [k \in Keys |-> window[s][k] + 1] ELSE window[s]]

\* Redis goes down, and keeps its counters or loses them.
RedisDown ==
    /\ redisUp
    /\ Event
    /\ redisUp' = FALSE
    /\ Disconnect(Procs)
    /\ UNCHANGED counters \/ Forget({Redis} \X Prefixes)
    /\ UNCHANGED <<redisHealthy, behind>>

RedisUp ==
    /\ ~redisUp
    /\ redisUp' = TRUE
    /\ UNCHANGED <<ready, redisHealthy, counters, req, behind, unheard, events>>

\* 'close', 'end', 'reconnecting' and 'error' come after the link is gone.
MarkDown(p) ==
    /\ ~ready[p] /\ redisHealthy[p]
    /\ redisHealthy' = [redisHealthy EXCEPT ![p] = FALSE]
    /\ UNCHANGED <<redisUp, ready, counters, req, behind, unheard, events>>

FaultyRetryStrategy == events = 0                       \* gives up after an outage
RetryStrategy == TRUE

\* retryStrategy tries for ever; 'ready' sets the flag.
Connect(p) ==
    /\ redisUp /\ ~ready[p] /\ ~redisHealthy[p] /\ RetryStrategy
    /\ ready' = [ready EXCEPT ![p] = TRUE]
    /\ redisHealthy' = [redisHealthy EXCEPT ![p] = TRUE]
    /\ UNCHANGED <<redisUp, counters, req, behind, unheard, events>>

\* The window of a key ends: PEXPIRE in Redis, resetTime in a memory store.
WindowEnds(s, k) ==
    /\ hits[s][k] > 0
    /\ Event
    /\ hits' = [hits EXCEPT ![s][k] = 0]
    /\ window' = [window EXCEPT ![s][k] = @ + 1]
    /\ UNCHANGED <<redisVars, req, behind, unheard>>

\* A process exits and starts again, its requests and memory stores are gone.
Restart(p) ==
    /\ Event
    /\ ready' = [ready EXCEPT ![p] = FALSE]
    /\ redisHealthy' = [redisHealthy EXCEPT ![p] = FALSE]
    /\ req' = [r \in Requests |->
                 IF req[r].at \in {"checking", "sent", "counted"} /\ req[r].proc = p
                 THEN [req[r] EXCEPT !.at = "lost"] ELSE req[r]]
    /\ behind' = behind \ SentBy(p)
    /\ Forget({p} \X Limiters)
    /\ UNCHANGED <<redisUp, unheard>>

ProcessStep(r) == Check(r) \/ CountInRedis(r) \/ Reply(r)

Next ==
    \/ \E r \in Requests : Arrive(r) \/ ProcessStep(r)
    \/ \E p \in Procs : BreakLink(p) \/ MarkDown(p) \/ Connect(p) \/ Restart(p) \/ ReadEnds(p)
    \/ RedisDown \/ RedisUp
    \/ \E s \in Stores, k \in Keys : WindowEnds(s, k)

Spec == Init /\ [][Next]_vars

\* Event loops and clients go on; nothing is assumed of Redis or of the users.
FairSpec ==
    /\ Spec
    /\ \A r \in Requests : WF_vars(ProcessStep(r))
    /\ \A p \in Procs : WF_vars(MarkDown(p) \/ Connect(p)) /\ WF_vars(ReadEnds(p))

-----------------------------------------------------------------------------
(* Properties *)

SameWindow(g, h) == g.store = h.store /\ g.key = h.key /\ g.window = h.window

\* The requests of r's client, a user at the routers and an IP address before them,
\* that were counted in the same store and window, and are in one of the states ats.
Fellows(r, ats) ==
    {q \in Requests :
        /\ req[r].limiter \in {"tasks", "reports"} => req[q].user = req[r].user
        /\ req[q].at \in ats /\ req[q].hit.total > 0
        /\ req[q].hit.store = req[r].hit.store /\ req[q].hit.window = req[r].hit.window}

\* No store lets more than Limit requests of one client through in one window, through
\* whichever process and router they come (rateLimiter.js:27-30, 79-83).
LimitHolds ==
    \A r \in Requests : req[r].hit.total > 0 =>
        Cardinality(Fellows(r, {"served"})) <= Limit[Prefix(req[r].limiter)]

\* A request is refused only when its client used the window up: Limit other hits of
\* the client, those of resent commands included, were counted in it.
RefusedAfterLimit ==
    \A r \in Requests : req[r].at = "refused" =>
        Cardinality(Fellows(r, {"counted", "served", "refused", "lost"}) \ {r})
            + Cardinality({g \in unheard : SameWindow(g, req[r].hit)})
        >= Limit[Prefix(req[r].limiter)]

Decided(r) == req[r].at \in Ends

\* A request that comes to a limiter of a process whose flag stays down is decided
\* without Redis (rateLimiter.js:27-30, "so the API keeps serving traffic").
DownKeepsServing ==
    \A r \in Requests, p \in Procs :
        (req[r].at = "checking" /\ req[r].proc = p /\ []~redisHealthy[p]) ~> Decided(r)

\* If Redis is up for good from some time on, every request is decided, those that waited
\* in an offline queue or behind a blocking read included (redis.js:23-28), and every process
\* counts in Redis again (rateLimiter.js:30, "automatically resumes using Redis once it
\* reconnects").
RecoversWithRedis ==
    <>[]redisUp => /\ \A r \in Requests : (req[r].at # "idle") ~> Decided(r)
                   /\ <>[](\A p \in Procs : redisHealthy[p])

=============================================================================
