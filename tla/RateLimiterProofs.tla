-------------------------- MODULE RateLimiterProofs --------------------------
(***************************************************************************)
(* What the rate limiters guarantee for any processes, users, limits and   *)
(* any number of requests, through outages, resent commands and restarts.  *)
(***************************************************************************)
EXTENDS RateLimiter, FiniteSetTheorems, TLAPS

(***************************************************************************)
(* The limit is not inductive.  That a window never lets too many through  *)
(* rests on its requests having distinct totals, which rests on no total   *)
(* being above the counter.  That nobody is refused for too few rests on   *)
(* the totals having no gaps: each one up to the counter is the hit of a   *)
(* request, or one whose reply was lost.                                   *)
(***************************************************************************)
Request == [at : {"idle", "checking", "sent", "counted"} \cup Ends,
            proc : Procs, user : Users, limiter : Limiters, hit : Hit]

Typed ==
    /\ TypeOK
    /\ req \in [Requests -> Request]
    /\ IsFiniteSet(unheard)

IsCounted(r) == req[r].hit.total > 0

Placed ==
    \A r \in Requests :
        /\ req[r].at \in {"idle", "checking", "sent"} => ~IsCounted(r)
        /\ req[r].at = "sent" \/ IsCounted(r) =>
              /\ req[r].hit.key = KeyGenerator(req[r].limiter, req[r].user)
              /\ req[r].hit.store \in {<<Redis, Prefix(req[r].limiter)>>,
                                       <<req[r].proc, req[r].limiter>>}
        /\ req[r].at = "counted" => IsCounted(r)
        /\ req[r].at = "served" => req[r].hit.total <= Limit[Prefix(req[r].limiter)]
        /\ req[r].at = "refused" => req[r].hit.total > Limit[Prefix(req[r].limiter)]

Known == unheard \cup {req[r].hit : r \in {q \in Requests : IsCounted(q)}}
HitOf(s, k, w, t) == [store |-> s, key |-> k, window |-> w, total |-> t]

Below ==
    \A r \in Requests : IsCounted(r) =>
        LET h == req[r].hit IN
        /\ h.window <= window[h.store][h.key]
        /\ h.window = window[h.store][h.key] => h.total <= hits[h.store][h.key]

Distinct ==
    \A q, r \in Requests :
        q # r /\ IsCounted(q) /\ IsCounted(r) /\ SameWindow(req[q].hit, req[r].hit)
            => req[q].hit.total # req[r].hit.total

NoGaps ==
    /\ \A s \in Stores, k \in Keys : \A t \in 1 .. hits[s][k] :
          HitOf(s, k, window[s][k], t) \in Known
    /\ \A h \in Known : \A t \in 1 .. h.total - 1 :
          HitOf(h.store, h.key, h.window, t) \in Known

CountInv == Below /\ Distinct /\ NoGaps
LimiterInv == Typed /\ Placed /\ CountInv

-----------------------------------------------------------------------------
(* Stores and keys *)

LEMMA StoresAndKeys ==
    ASSUME NEW l \in Limiters, NEW p \in Procs, NEW u \in Users
    PROVE  /\ Prefix(l) \in Prefixes /\ Limit[Prefix(l)] \in Nat \ {0}
           /\ <<Redis, Prefix(l)>> \in Stores /\ <<p, l>> \in Stores
           /\ StoreOf(p, l) \in {<<Redis, Prefix(l)>>, <<p, l>>}
           /\ KeyGenerator(l, u) \in Keys
BY LimitersAssumption, LimitAssumption
   DEF Prefix, Prefixes, Stores, StoreOf, KeyGenerator, Keys

\* Requests counted in one store pass limiters of one prefix.
LEMMA OneStoreOnePrefix ==
    ASSUME Typed, Placed, NEW q \in Requests, NEW r \in Requests, IsCounted(q), IsCounted(r),
           req[q].hit.store = req[r].hit.store
    PROVE  Prefix(req[q].limiter) = Prefix(req[r].limiter)
<1>1. /\ req[q].proc \in Procs /\ req[r].proc \in Procs
      /\ req[q].hit.store \in {<<Redis, Prefix(req[q].limiter)>>, <<req[q].proc, req[q].limiter>>}
      /\ req[r].hit.store \in {<<Redis, Prefix(req[r].limiter)>>, <<req[r].proc, req[r].limiter>>}
  BY DEF Typed, Placed, Request
<1>2. req[q].proc # Redis /\ req[r].proc # Redis
  BY <1>1, NamesAssumption
<1> QED BY <1>1, <1>2

\* A request's fellows were counted under its key.
LEMMA FellowsShareTheKey ==
    ASSUME Typed, Placed, NEW ats, NEW r \in Requests, NEW q \in Fellows(r, ats), IsCounted(r)
    PROVE  /\ q \in Requests /\ IsCounted(q) /\ req[q].at \in ats
           /\ SameWindow(req[q].hit, req[r].hit)
           /\ Prefix(req[q].limiter) = Prefix(req[r].limiter)
<1>1. /\ q \in Requests /\ IsCounted(q) /\ req[q].at \in ats
      /\ req[q].hit.store = req[r].hit.store /\ req[q].hit.window = req[r].hit.window
      /\ req[r].limiter \in {"tasks", "reports"} => req[q].user = req[r].user
  BY DEF Fellows, IsCounted
<1>2. Prefix(req[q].limiter) = Prefix(req[r].limiter)
  BY <1>1, OneStoreOnePrefix
<1>3. /\ req[q].hit.key = KeyGenerator(req[q].limiter, req[q].user)
      /\ req[r].hit.key = KeyGenerator(req[r].limiter, req[r].user)
  BY <1>1 DEF Placed
<1>4. req[r].limiter \in Limiters
  BY DEF Typed, Request
<1>5. req[q].hit.key = req[r].hit.key
  BY <1>1, <1>2, <1>3, <1>4, LimitersAssumption DEF KeyGenerator, Prefix
<1> QED BY <1>1, <1>2, <1>5 DEF SameWindow

\* And the other way round.
LEMMA SameWindowFellows ==
    ASSUME Typed, Placed, NEW ats, NEW q \in Requests, NEW r \in Requests,
           IsCounted(q), IsCounted(r), SameWindow(req[q].hit, req[r].hit), req[q].at \in ats
    PROVE  q \in Fellows(r, ats)
<1>1. Prefix(req[q].limiter) = Prefix(req[r].limiter)
  BY OneStoreOnePrefix DEF SameWindow
<1>2. /\ req[q].hit.key = KeyGenerator(req[q].limiter, req[q].user)
      /\ req[r].hit.key = KeyGenerator(req[r].limiter, req[r].user)
      /\ req[q].hit.key = req[r].hit.key
  BY DEF Placed, SameWindow
<1>3. req[r].limiter \in {"tasks", "reports"} => req[q].user = req[r].user
  BY <1>1, <1>2 DEF KeyGenerator, Prefix
<1> QED BY <1>3 DEF Fellows, SameWindow, IsCounted

-----------------------------------------------------------------------------
(* Counting, and everything else *)

\* Request r is counted as the next hit of k in s.
LEMMA CountStep ==
    ASSUME LimiterInv, Typed', NEW r \in Requests, NEW s \in Stores, NEW k \in Keys, NEW at,
           ~IsCounted(r),
           req' = [req EXCEPT ![r].at = at, ![r].hit = Counted(s, k)],
           hits' = [hits EXCEPT ![s][k] = @ + 1],
           UNCHANGED <<window, unheard>>
    PROVE  CountInv'
<1> DEFINE next == Counted(s, k)
<1> USE DEF LimiterInv, CountInv
<1>1. /\ hits \in [Stores -> [Keys -> Nat]] /\ window \in [Stores -> [Keys -> Nat]]
      /\ req \in [Requests -> Request] /\ unheard \subseteq Hit
  BY DEF Typed, TypeOK
<1>2. /\ next \in Hit /\ next.store = s /\ next.key = k
      /\ next.window = window[s][k] /\ next.total = hits[s][k] + 1
      /\ next = HitOf(s, k, window[s][k], hits[s][k] + 1)
  BY <1>1 DEF Counted, Hit, HitOf
<1>3. \A q \in Requests : req'[q].hit = IF q = r THEN next ELSE req[q].hit
  BY <1>1 DEF Request
<1>4. \A q \in Requests : IsCounted(q)' <=> q = r \/ IsCounted(q)
  BY <1>1, <1>2, <1>3 DEF IsCounted
<1>5. \A t \in Stores, i \in Keys :
         hits'[t][i] = IF t = s /\ i = k THEN hits[s][k] + 1 ELSE hits[t][i]
  BY <1>1
<1>6. \A q \in Requests : IsCounted(q) =>
         /\ req[q].hit \in Hit
         /\ req[q].hit.window <= window[req[q].hit.store][req[q].hit.key]
         /\ req[q].hit.window = window[req[q].hit.store][req[q].hit.key]
               => req[q].hit.total <= hits[req[q].hit.store][req[q].hit.key]
  BY <1>1 DEF Below, Request
<1>7. Below'
  <2> SUFFICES ASSUME NEW q \in Requests, IsCounted(q)'
               PROVE  LET h == req'[q].hit IN
                      /\ h.window <= window[h.store][h.key]
                      /\ h.window = window[h.store][h.key] => h.total <= hits'[h.store][h.key]
    BY DEF Below
  <2>1. CASE q = r
    BY <1>1, <1>2, <1>3, <1>5, <2>1
  <2>2. CASE q # r
    <3>1. IsCounted(q) /\ req'[q].hit = req[q].hit
      BY <1>3, <1>4, <2>2
    <3> QED BY <1>1, <1>5, <1>6, <3>1 DEF Hit
  <2> QED BY <2>1, <2>2
<1>8. Distinct'
  <2>1. ASSUME NEW q \in Requests, IsCounted(q), SameWindow(req[q].hit, next)
        PROVE  req[q].hit.total # next.total
    BY <1>1, <1>2, <1>6, <2>1 DEF SameWindow, Hit
  <2> SUFFICES ASSUME NEW q \in Requests, NEW p \in Requests, q # p, IsCounted(q)',
                      IsCounted(p)', SameWindow(req[q].hit, req[p].hit)'
               PROVE  (req[q].hit.total # req[p].hit.total)'
    BY DEF Distinct
  <2>2. CASE q = r
    BY <1>3, <1>4, <2>1, <2>2 DEF SameWindow
  <2>3. CASE p = r
    BY <1>3, <1>4, <2>1, <2>3 DEF SameWindow
  <2>4. CASE q # r /\ p # r
    <3>1. /\ IsCounted(q) /\ IsCounted(p) /\ SameWindow(req[q].hit, req[p].hit)
          /\ req'[q].hit = req[q].hit /\ req'[p].hit = req[p].hit
      BY <1>3, <1>4, <2>4 DEF SameWindow
    <3> QED BY <3>1 DEF Distinct
  <2> QED BY <2>2, <2>3, <2>4
<1>9. Known' = Known \cup {next}
  BY <1>3, <1>4 DEF Known
<1>10. NoGaps'
  <2>1. \A i \in Stores, j \in Keys : \A t \in 1 .. hits'[i][j] :
           HitOf(i, j, window[i][j], t) \in Known'
    BY <1>1, <1>2, <1>5, <1>9 DEF NoGaps
  <2>2. \A t \in 1 .. next.total - 1 : HitOf(s, k, next.window, t) \in Known
    BY <1>1, <1>2 DEF NoGaps
  <2>3. \A h \in Known' : \A t \in 1 .. h.total - 1 :
           HitOf(h.store, h.key, h.window, t) \in Known'
    BY <1>2, <1>9, <2>2 DEF NoGaps
  <2> QED BY <2>1, <2>3 DEF NoGaps
<1> QED BY <1>7, <1>8, <1>10

\* Hits are kept or become unheard, counters are kept or start a new window.
LEMMA OtherStep ==
    ASSUME LimiterInv, Typed',
           \A r \in Requests :
              \/ req'[r].hit = req[r].hit
              \/ ~IsCounted(r)' /\ (IsCounted(r) => req[r].hit \in unheard'),
           unheard \subseteq unheard', unheard' \subseteq Known,
           \A s \in Stores, k \in Keys :
              \/ hits'[s][k] = hits[s][k] /\ window'[s][k] = window[s][k]
              \/ hits'[s][k] = 0 /\ window'[s][k] = window[s][k] + 1
    PROVE  CountInv'
<1> USE DEF LimiterInv, CountInv
<1>1. /\ hits \in [Stores -> [Keys -> Nat]] /\ window \in [Stores -> [Keys -> Nat]]
      /\ \A r \in Requests : req[r].hit \in Hit
  BY DEF Typed, TypeOK, Request
<1>2. \A r \in Requests : IsCounted(r)' => IsCounted(r) /\ req'[r].hit = req[r].hit
  BY DEF IsCounted
<1>3. Known' = Known
  <2>1. \A r \in Requests : IsCounted(r) =>
           req[r].hit \in unheard' \/ (IsCounted(r)' /\ req'[r].hit = req[r].hit)
    BY DEF IsCounted
  <2> QED BY <1>2, <2>1 DEF Known
<1>4. Below'
  <2> SUFFICES ASSUME NEW r \in Requests, IsCounted(r)'
               PROVE  LET h == req[r].hit IN
                      /\ h.window <= window'[h.store][h.key]
                      /\ h.window = window'[h.store][h.key]
                            => h.total <= hits'[h.store][h.key]
    BY <1>2 DEF Below
  <2> DEFINE h == req[r].hit
             w == window[h.store][h.key]
             n == hits[h.store][h.key]
  <2>1. h.store \in Stores /\ h.key \in Keys /\ h.window \in Nat /\ h.total \in Nat
    BY <1>1 DEF Hit
  <2>2. w \in Nat /\ n \in Nat /\ h.window <= w /\ (h.window = w => h.total <= n)
    BY <1>1, <1>2, <2>1 DEF Below
  <2>3. \/ hits'[h.store][h.key] = n /\ window'[h.store][h.key] = w
        \/ window'[h.store][h.key] = w + 1
    BY <2>1
  <2> QED BY <2>1, <2>2, <2>3
<1>5. Distinct'
  BY <1>2 DEF Distinct, SameWindow
<1>6. NoGaps'
  BY <1>1, <1>3 DEF NoGaps
<1> QED BY <1>4, <1>5, <1>6

-----------------------------------------------------------------------------
(* Types and places *)

LEMMA InitLimiter == Init => LimiterInv
<1> SUFFICES ASSUME Init PROVE LimiterInv
    OBVIOUS
<1> USE DEF Init
<1>1. NoRequest \in Request
  BY SomeAssumption DEF NoRequest, Request, Hit, Stores, Prefixes, Keys
<1>2. req \in [Requests -> Request] /\ \A r \in Requests : req[r] = NoRequest
  BY <1>1
<1>3. \A r \in Requests : req[r].at = "idle" /\ ~IsCounted(r)
  BY <1>2 DEF NoRequest, IsCounted
<1>4. Typed
  BY <1>2, BoundsAssumption, FS_EmptySet DEF Typed, TypeOK, Request
<1>5. Placed
  BY <1>3 DEF Placed
<1>6. CountInv
  <2>1. Known = {}
    BY <1>3 DEF Known
  <2> QED BY <1>3, <2>1 DEF CountInv, Below, Distinct, NoGaps
<1> QED BY <1>4, <1>5, <1>6 DEF LimiterInv

LEMMA CountedIsHit ==
    ASSUME Typed, NEW s \in Stores, NEW k \in Keys
    PROVE  /\ Counted(s, k) \in Hit /\ Counted(s, k).total > 0
           /\ Counted(s, k).store = s /\ Counted(s, k).key = k
BY DEF Typed, TypeOK, Counted, Hit

LEMMA VerdictEnds ==
    ASSUME NEW l \in Limiters, NEW h \in Hit
    PROVE  /\ Verdict(l, h) \in {"served", "refused"}
           /\ Verdict(l, h) = "served" => h.total <= Limit[Prefix(l)]
           /\ Verdict(l, h) = "refused" => h.total > Limit[Prefix(l)]
<1>1. Limit[Prefix(l)] \in Nat /\ h.total \in Nat
  BY LimitersAssumption, LimitAssumption DEF Prefix, Prefixes, Hit
<1> QED BY <1>1 DEF Verdict

\* Replies that got lost are finitely many: one per request and link.
LEMMA LostReplies ==
    ASSUME Typed, NEW P
    PROVE  IsFiniteSet({req[r].hit : r \in {q \in Requests :
                           req[q].at = "counted" /\ req[q].proc \in P}})
<1> DEFINE cut == {q \in Requests : req[q].at = "counted" /\ req[q].proc \in P}
           hitOf == [q \in cut |-> req[q].hit]
           lost == {req[r].hit : r \in cut}
<1>1. IsFiniteSet(cut)
  <2>1. IsFiniteSet(Requests) /\ cut \in SUBSET Requests
    BY FS_Interval, BoundsAssumption DEF Requests
  <2> QED BY <2>1, FS_Subset
<1>2. hitOf \in Surjection(cut, lost)
  BY DEF Surjection
<1> HIDE DEF hitOf, cut
<1>3. IsFiniteSet(lost)
  BY <1>1, <1>2, FS_Surjection
<1> QED BY <1>3 DEF cut

LEMMA StepDisconnect ==
    ASSUME LimiterInv, NEW P, Disconnect(P)
    PROVE  /\ req' \in [Requests -> Request] /\ ready' \in [Procs -> BOOLEAN]
           /\ unheard' \subseteq Hit /\ IsFiniteSet(unheard')
           /\ \A r \in Requests : req[r].at = "sent" =>
                 req'[r].at = "sent" /\ req'[r].proc = req[r].proc
           /\ Placed'
           /\ \A r \in Requests :
                 \/ req'[r].hit = req[r].hit
                 \/ ~IsCounted(r)' /\ (IsCounted(r) => req[r].hit \in unheard')
           /\ unheard \subseteq unheard' /\ unheard' \subseteq Known
<1> DEFINE IsCut(r) == req[r].at = "counted" /\ req[r].proc \in P
           cuts == {req[r].hit : r \in {q \in Requests : req[q].at = "counted" /\ req[q].proc \in P}}
<1> USE DEF LimiterInv
<1>1. /\ req \in [Requests -> Request] /\ unheard \subseteq Hit /\ ready \in [Procs -> BOOLEAN]
      /\ IsFiniteSet(unheard)
  BY DEF Typed, TypeOK
<1>2. \A r \in Requests :
         /\ req'[r] = IF IsCut(r) THEN Unanswered(req[r]) ELSE req[r]
         /\ req[r] \in Request
  BY <1>1 DEF Disconnect
<1>3. ASSUME NEW q \in Request
      PROVE  /\ Unanswered(q) \in Request /\ Unanswered(q).at = "sent"
             /\ Unanswered(q).hit.total = 0 /\ Unanswered(q).hit.key = q.hit.key
             /\ Unanswered(q).hit.store = q.hit.store
             /\ Unanswered(q).proc = q.proc /\ Unanswered(q).user = q.user
             /\ Unanswered(q).limiter = q.limiter
  BY DEF Unanswered, Request, Hit
<1>4. req' \in [Requests -> Request]
  BY <1>2, <1>3 DEF Disconnect
<1>5. unheard' = unheard \cup cuts /\ IsFiniteSet(cuts)
  BY LostReplies DEF Disconnect
<1> HIDE DEF cuts
<1>6. IsFiniteSet(unheard \cup cuts)
  BY <1>1, <1>5, FS_Union
<1>7. cuts \subseteq Hit /\ cuts \subseteq Known
  BY <1>1 DEF cuts, Request, Known, Placed
<1>8. \A r \in Requests :
         \/ req'[r] = req[r]
         \/ /\ req[r].hit \in unheard' /\ req[r].at = "counted" /\ req'[r].at = "sent"
            /\ ~IsCounted(r)' /\ IsCounted(r)
            /\ req'[r].hit.key = req[r].hit.key /\ req'[r].hit.store = req[r].hit.store
            /\ req'[r].proc = req[r].proc /\ req'[r].user = req[r].user
            /\ req'[r].limiter = req[r].limiter
  <2> SUFFICES ASSUME NEW r \in Requests, IsCut(r)
               PROVE  /\ req[r].hit \in cuts /\ IsCounted(r)
                      /\ req'[r] = Unanswered(req[r]) /\ ~IsCounted(r)'
    BY <1>2, <1>3, <1>5
  <2> QED BY <1>2, <1>3 DEF cuts, Placed, IsCounted
<1>9. Placed'
  BY <1>8 DEF Placed, IsCounted
<1>10. ready' \in [Procs -> BOOLEAN]
  BY <1>1 DEF Disconnect
<1> QED BY <1>1, <1>4, <1>5, <1>6, <1>7, <1>8, <1>9, <1>10 DEF Known

\* A step that moves request r alone, with what it has to say of the new record.
Moves(r, q) ==
    /\ r \in Requests /\ q \in Request
    /\ req' = [req EXCEPT ![r] = q]

LEMMA StepOfOne ==
    ASSUME LimiterInv, NEW r, NEW q, Moves(r, q),
           q.at \in {"idle", "checking", "sent"} => q.hit.total = 0,
           q.at = "sent" \/ q.hit.total > 0 =>
              /\ q.hit.key = KeyGenerator(q.limiter, q.user)
              /\ q.hit.store \in {<<Redis, Prefix(q.limiter)>>, <<q.proc, q.limiter>>},
           q.at = "counted" => q.hit.total > 0,
           q.at = "served" => q.hit.total <= Limit[Prefix(q.limiter)],
           q.at = "refused" => q.hit.total > Limit[Prefix(q.limiter)]
    PROVE  req' \in [Requests -> Request] /\ Placed'
<1>1. req' \in [Requests -> Request]
  BY DEF LimiterInv, Typed, Moves
<1>2. \A t \in Requests : req'[t] = IF t = r THEN q ELSE req[t]
  BY DEF LimiterInv, Typed, Moves
<1>3. \A t \in Requests : req'[t].hit.total = IF t = r THEN q.hit.total ELSE req[t].hit.total
  BY <1>2
<1>4. ASSUME NEW t \in Requests, t # r
      PROVE  req'[t] = req[t] /\ (IsCounted(t)' <=> IsCounted(t))
  BY <1>2, <1>4 DEF IsCounted
<1>5. req'[r] = q /\ (IsCounted(r)' <=> q.hit.total > 0)
  BY <1>2 DEF IsCounted, Moves
<1> QED BY <1>1, <1>4, <1>5 DEF Placed, LimiterInv

\* A step that counts nothing and ends no window.
LEMMA QuietStep ==
    ASSUME LimiterInv, Typed', UNCHANGED <<hits, window, unheard>>,
           \A t \in Requests : req'[t].hit = req[t].hit \/ (~IsCounted(t) /\ ~IsCounted(t)')
    PROVE  CountInv'
<1>1. unheard \subseteq unheard' /\ unheard' \subseteq Known
  BY DEF Known
<1>2. \A s \in Stores, k \in Keys : hits'[s][k] = hits[s][k] /\ window'[s][k] = window[s][k]
  OBVIOUS
<1> QED BY <1>1, <1>2, OtherStep

LEMMA ArriveStep ==
    ASSUME LimiterInv, NEW r \in Requests, Arrive(r)
    PROVE  LimiterInv'
<1> USE DEF LimiterInv
<1>1. PICK p \in Procs, u \in Users, l \in Limiters :
         req' = [req EXCEPT ![r].at = "checking", ![r].proc = p, ![r].user = u, ![r].limiter = l]
  BY DEF Arrive
<1> DEFINE q == [req[r] EXCEPT !.at = "checking", !.proc = p, !.user = u, !.limiter = l]
<1>2. req[r] \in Request /\ req[r].at = "idle" /\ req[r].hit.total = 0
  <2>1. req[r] \in Request /\ req[r].at = "idle" /\ ~IsCounted(r)
    BY DEF Arrive, Typed, Placed
  <2> QED BY <2>1 DEF IsCounted, Request, Hit
<1>3. /\ q \in Request /\ q.hit = req[r].hit /\ q.at = "checking"
  BY <1>2 DEF Request
<1>4. req' = [req EXCEPT ![r] = q]
  <2>1. req \in [Requests -> Request]
    BY DEF Typed
  <2> QED BY <1>1, <2>1, Zenon
<1> HIDE DEF q
<1>5. req' \in [Requests -> Request] /\ Placed'
  <2>1. Moves(r, q) /\ q.hit.total = 0
    BY <1>2, <1>3, <1>4 DEF Moves
  <2> QED BY <1>3, <2>1, StepOfOne
<1>6. Typed'
  BY <1>2, <1>3, <1>4, <1>5 DEF Typed, TypeOK, Arrive, Request, redisVars, counters
<1>7. \A t \in Requests : req'[t].hit = req[t].hit
  BY <1>3, <1>4 DEF Typed
<1>8. CountInv'
  BY <1>6, <1>7, QuietStep DEF Arrive, counters
<1> QED BY <1>5, <1>6, <1>8

LEMMA CheckStep ==
    ASSUME LimiterInv, NEW r \in Requests, Check(r)
    PROVE  LimiterInv'
<1> DEFINE l == req[r].limiter
           p == req[r].proc
           s == StoreOf(p, l)
           k == KeyGenerator(l, req[r].user)
           h == Counted(s, k)
           sent == [req[r] EXCEPT !.at = "sent", !.hit = [@ EXCEPT !.store = s, !.key = k]]
           decided == [req[r] EXCEPT !.at = Verdict(l, h), !.hit = h]
<1> USE DEF LimiterInv
<1>1. /\ req[r] \in Request /\ req[r].at = "checking" /\ req[r].hit.total = 0 /\ ~IsCounted(r)
      /\ req[r].hit \in Hit
  <2>1. req[r] \in Request /\ req[r].at = "checking" /\ ~IsCounted(r)
    BY DEF Check, Typed, Placed
  <2> QED BY <2>1 DEF IsCounted, Request, Hit
<1>2. /\ l \in Limiters /\ p \in Procs /\ s \in Stores /\ k \in Keys
      /\ s \in {<<Redis, Prefix(l)>>, <<p, l>>}
  BY <1>1, StoresAndKeys DEF Request
<1>3. UNCHANGED <<redisVars, window, unheard, events>>
  BY DEF Check
<1>4. CASE s[1] = Redis
  <2>1. req' = [req EXCEPT ![r] = sent]
    <3>1. req' = [req EXCEPT ![r].at = "sent", ![r].hit.store = s, ![r].hit.key = k]
      BY <1>4 DEF Check
    <3>2. req \in [Requests -> Request]
      BY DEF Typed
    <3> QED BY <3>1, <3>2, Zenon
  <2>2. /\ sent \in Request /\ sent.hit.total = 0 /\ sent.at = "sent" /\ sent.hit.key = k
        /\ sent.hit.store = s /\ sent.limiter = l /\ sent.proc = p /\ sent.user = req[r].user
    BY <1>1, <1>2 DEF Request, Hit
  <2> HIDE DEF sent
  <2>3. req' \in [Requests -> Request] /\ Placed'
    BY <1>2, <2>1, <2>2, StepOfOne DEF Moves
  <2>4. hits' = hits /\ behind' = IF p \in Readers THEN behind \cup {r} ELSE behind
    BY <1>4 DEF Check
  <2>5. Typed'
    BY <1>3, <2>1, <2>2, <2>3, <2>4 DEF Typed, TypeOK, Request, redisVars
  <2>6. CountInv'
    <3>1. \A t \in Requests : req'[t].hit = req[t].hit \/ (t = r /\ ~IsCounted(t)')
      BY <2>1, <2>2 DEF Typed, IsCounted
    <3> QED BY <1>1, <1>3, <2>4, <2>5, <3>1, QuietStep
  <2> QED BY <2>3, <2>5, <2>6
<1>5. CASE s[1] # Redis
  <2>1. req' = [req EXCEPT ![r] = decided]
    BY <1>1, <1>5 DEF Check, Typed, Request
  <2>2. /\ h \in Hit /\ h.total > 0 /\ h.store = s /\ h.key = k
        /\ Verdict(l, h) \in {"served", "refused"}
        /\ Verdict(l, h) = "served" => h.total <= Limit[Prefix(l)]
        /\ Verdict(l, h) = "refused" => h.total > Limit[Prefix(l)]
    BY <1>2, CountedIsHit, VerdictEnds
  <2>3. /\ decided \in Request /\ decided.hit = h /\ decided.at = Verdict(l, h)
        /\ decided.limiter = l /\ decided.proc = p /\ decided.user = req[r].user
    BY <1>1, <2>2 DEF Request, Ends
  <2>4. hits' = [hits EXCEPT ![s][k] = @ + 1] /\ behind' = behind
        /\ req' = [req EXCEPT ![r].at = Verdict(l, h), ![r].hit = h]
    BY <1>5 DEF Check
  <2> HIDE DEF decided, h
  <2>5. req' \in [Requests -> Request] /\ Placed'
    BY <1>2, <2>1, <2>2, <2>3, StepOfOne DEF Moves
  <2>6. Typed'
    <3>1. \A t \in behind : t # r
      BY <1>1 DEF Typed, TypeOK
    <3> QED BY <1>2, <1>3, <2>1, <2>3, <2>4, <2>5, <3>1 DEF Typed, TypeOK, Request, redisVars
  <2>7. CountInv'
    BY <1>1, <1>2, <1>3, <2>4, <2>6, CountStep DEF h
  <2> QED BY <2>5, <2>6, <2>7
<1> QED BY <1>4, <1>5

LEMMA RedisStep ==
    ASSUME LimiterInv, NEW r \in Requests, CountInRedis(r)
    PROVE  LimiterInv'
<1> DEFINE s == req[r].hit.store
           k == req[r].hit.key
           h == Counted(s, k)
           q == [req[r] EXCEPT !.at = "counted", !.hit = h]
<1> USE DEF LimiterInv
<1>1. /\ req[r] \in Request /\ req[r].at = "sent" /\ ~IsCounted(r) /\ r \notin behind
      /\ s \in Stores /\ k \in Keys /\ k = KeyGenerator(req[r].limiter, req[r].user)
      /\ s \in {<<Redis, Prefix(req[r].limiter)>>, <<req[r].proc, req[r].limiter>>}
  BY DEF CountInRedis, Typed, Placed, Request, Hit
<1>2. h \in Hit /\ h.total > 0 /\ h.store = s /\ h.key = k
  BY <1>1, CountedIsHit
<1>3. /\ req' = [req EXCEPT ![r].at = "counted", ![r].hit = h]
      /\ hits' = [hits EXCEPT ![s][k] = @ + 1]
      /\ UNCHANGED <<redisVars, window, behind, unheard, events>>
  BY DEF CountInRedis
<1>4. req' = [req EXCEPT ![r] = q]
  <2>1. req \in [Requests -> Request]
    BY DEF Typed
  <2> QED BY <1>3, <2>1, Zenon
<1> HIDE DEF h
<1>5. /\ q \in Request /\ q.hit = h /\ q.at = "counted"
      /\ q.limiter = req[r].limiter /\ q.proc = req[r].proc /\ q.user = req[r].user
  BY <1>1, <1>2 DEF Request
<1> HIDE DEF q
<1>6. req' \in [Requests -> Request] /\ Placed'
  BY <1>1, <1>2, <1>4, <1>5, StepOfOne DEF Moves
<1>7. Typed'
  <2>1. \A t \in behind : t # r
    BY <1>1
  <2> QED BY <1>1, <1>3, <1>4, <1>5, <1>6, <2>1 DEF Typed, TypeOK, Request, redisVars
<1>8. CountInv'
  BY <1>1, <1>3, <1>7, CountStep DEF h
<1> QED BY <1>6, <1>7, <1>8

LEMMA ReplyStep ==
    ASSUME LimiterInv, NEW r \in Requests, Reply(r)
    PROVE  LimiterInv'
<1> DEFINE l == req[r].limiter
           q == [req[r] EXCEPT !.at = Verdict(l, req[r].hit)]
<1> USE DEF LimiterInv
<1>1. /\ req[r] \in Request /\ req[r].at = "counted" /\ IsCounted(r) /\ r \notin behind
      /\ req[r].hit \in Hit /\ l \in Limiters
      /\ req[r].hit.key = KeyGenerator(l, req[r].user)
      /\ req[r].hit.store \in {<<Redis, Prefix(l)>>, <<req[r].proc, l>>}
  BY DEF Reply, Typed, TypeOK, Placed, Request
<1>2. /\ Verdict(l, req[r].hit) \in {"served", "refused"}
      /\ Verdict(l, req[r].hit) = "served" => req[r].hit.total <= Limit[Prefix(l)]
      /\ Verdict(l, req[r].hit) = "refused" => req[r].hit.total > Limit[Prefix(l)]
  BY <1>1, VerdictEnds
<1>3. /\ q \in Request /\ q.hit = req[r].hit /\ q.at = Verdict(l, req[r].hit)
      /\ q.limiter = l /\ q.proc = req[r].proc /\ q.user = req[r].user
  BY <1>1, <1>2 DEF Request, Ends
<1>4. req' = [req EXCEPT ![r] = q] /\ UNCHANGED <<redisVars, counters, behind, unheard, events>>
  BY DEF Reply
<1> HIDE DEF q
<1>5. req' \in [Requests -> Request] /\ Placed'
  BY <1>1, <1>2, <1>3, <1>4, StepOfOne DEF Moves
<1>6. Typed'
  <2>1. \A t \in behind : t # r
    BY <1>1
  <2> QED BY <1>1, <1>3, <1>4, <1>5, <2>1 DEF Typed, TypeOK, Request, redisVars, counters
<1>7. \A t \in Requests : req'[t].hit = req[t].hit
  BY <1>3, <1>4 DEF Typed
<1>8. CountInv'
  BY <1>4, <1>6, <1>7, QuietStep DEF counters
<1> QED BY <1>5, <1>6, <1>8

LEMMA EventBound == TypeOK /\ Event => events' \in 0 .. MaxEvents
BY BoundsAssumption DEF TypeOK, Event

\* Counters that are kept, and counters that start a new window.
Windows ==
    /\ hits' \in [Stores -> [Keys -> Nat]] /\ window' \in [Stores -> [Keys -> Nat]]
    /\ \A s \in Stores, k \in Keys :
          \/ hits'[s][k] = hits[s][k] /\ window'[s][k] = window[s][k]
          \/ hits'[s][k] = 0 /\ window'[s][k] = window[s][k] + 1

LEMMA ForgetWindows ==
    ASSUME Typed, NEW S, Forget(S)
    PROVE  Windows
<1>1. hits \in [Stores -> [Keys -> Nat]] /\ window \in [Stores -> [Keys -> Nat]]
  BY DEF Typed, TypeOK
<1>2. ASSUME NEW s \in Stores, s \in S
      PROVE  /\ hits'[s] = [k \in Keys |-> 0] /\ window'[s] = [k \in Keys |-> window[s][k] + 1]
  BY <1>2 DEF Forget
<1>3. ASSUME NEW s \in Stores, s \notin S
      PROVE  hits'[s] = hits[s] /\ window'[s] = window[s]
  BY <1>3 DEF Forget
<1>4. hits' \in [Stores -> [Keys -> Nat]] /\ window' \in [Stores -> [Keys -> Nat]]
  BY <1>1 DEF Forget
<1> QED BY <1>1, <1>2, <1>3, <1>4 DEF Windows

\* Links and counters that go: nothing is counted, and windows only end.
LEMMA OutageStep ==
    ASSUME LimiterInv,
           NEW P, Disconnect(P), behind' = behind, events' \in 0 .. MaxEvents,
           UNCHANGED redisHealthy, redisUp' \in BOOLEAN,
           UNCHANGED counters \/ \E S : Forget(S)
    PROVE  LimiterInv'
<1> USE DEF LimiterInv
<1>1. Windows
  <2>1. CASE UNCHANGED counters
    BY <2>1 DEF Typed, TypeOK, counters, Windows
  <2> QED BY <2>1, ForgetWindows
<1>2. Typed' /\ Placed'
  <2>1. \A r \in Requests : req'[r] \in Request
    BY StepDisconnect
  <2> QED BY <1>1, <2>1, StepDisconnect DEF Typed, TypeOK, Request, Windows
<1>3. CountInv'
  BY <1>1, <1>2, StepDisconnect, OtherStep DEF Windows
<1> QED BY <1>2, <1>3

LEMMA RestartStep ==
    ASSUME LimiterInv, NEW p \in Procs, Restart(p)
    PROVE  LimiterInv'
<1> DEFINE Cut(r) == req[r].at \in {"checking", "sent", "counted"} /\ req[r].proc = p
<1> USE DEF LimiterInv
<1>1. \A r \in Requests :
         /\ req[r] \in Request
         /\ req'[r] = IF Cut(r) THEN [req[r] EXCEPT !.at = "lost"] ELSE req[r]
  BY DEF Restart, Typed
<1>2. ASSUME NEW r \in Requests
      PROVE  /\ req'[r] \in Request /\ req'[r].hit = req[r].hit
             /\ req'[r].limiter = req[r].limiter /\ req'[r].user = req[r].user
             /\ req'[r].proc = req[r].proc
             /\ req'[r].at = IF Cut(r) THEN "lost" ELSE req[r].at
  BY <1>1 DEF Request, Ends
<1>3. Windows /\ unheard' = unheard
  BY ForgetWindows DEF Restart
<1>4. req' \in [Requests -> Request]
  <2>1. req' = [r \in Requests |-> req'[r]]
    BY DEF Restart
  <2> QED BY <1>2, <2>1
<1>5. \A r \in behind' : req'[r].at = "sent" /\ req'[r].proc \in Readers /\ r \in Requests
  <2> SUFFICES ASSUME NEW r \in behind'
               PROVE  r \in Requests /\ ~Cut(r) /\ req[r].at = "sent" /\ req[r].proc \in Readers
    BY <1>2
  <2> QED BY DEF Restart, SentBy, Typed, TypeOK
<1>6. Typed'
  <2>1. events' \in 0 .. MaxEvents
    BY EventBound DEF Typed, Restart
  <2> QED BY <1>2, <1>3, <1>4, <1>5, <2>1 DEF Typed, TypeOK, Restart, Windows, Request
<1>7. Placed'
  <2>1. \A r \in Requests : IsCounted(r)' <=> IsCounted(r)
    BY <1>2 DEF IsCounted
  <2> QED BY <1>2, <2>1 DEF Placed
<1>8. CountInv'
  <2>1. unheard \subseteq unheard' /\ unheard' \subseteq Known
    BY <1>3 DEF Known
  <2> QED BY <1>2, <1>3, <1>6, <2>1, OtherStep DEF Windows
<1> QED BY <1>6, <1>7, <1>8

\* Steps that leave the requests as they are.
LEMMA IdleStep ==
    ASSUME LimiterInv, TypeOK', Windows, UNCHANGED <<req, unheard>>
    PROVE  LimiterInv'
<1> USE DEF LimiterInv
<1>1. Typed' /\ Placed'
  BY DEF Typed, Placed, IsCounted
<1>2. CountInv'
  <2>1. unheard \subseteq unheard' /\ unheard' \subseteq Known
    BY DEF Known
  <2> QED BY <1>1, <2>1, OtherStep DEF Windows
<1> QED BY <1>1, <1>2

LEMMA StepLimiter == LimiterInv /\ [Next]_vars => LimiterInv'
<1> SUFFICES ASSUME LimiterInv, [Next]_vars PROVE LimiterInv'
    OBVIOUS
<1>0. Typed /\ TypeOK
  BY DEF LimiterInv, Typed
<1>1. ASSUME NEW r \in Requests, Arrive(r) \/ ProcessStep(r) PROVE LimiterInv'
  BY <1>1, ArriveStep, CheckStep, RedisStep, ReplyStep DEF ProcessStep
<1>2. ASSUME UNCHANGED counters PROVE Windows
  BY <1>0, <1>2 DEF TypeOK, counters, Windows
<1>3. ASSUME NEW p \in Procs, MarkDown(p) \/ Connect(p) PROVE LimiterInv'
  <2>1. TypeOK' /\ UNCHANGED <<req, unheard, counters>>
    BY <1>0, <1>3 DEF MarkDown, Connect, TypeOK, counters
  <2> QED BY <1>2, <2>1, IdleStep
<1>4. ASSUME NEW p \in Procs, ReadEnds(p) PROVE LimiterInv'
  <2>1. TypeOK' /\ UNCHANGED <<req, unheard, counters>>
    BY <1>0, <1>4 DEF ReadEnds, TypeOK, counters, redisVars
  <2> QED BY <1>2, <2>1, IdleStep
<1>5. CASE RedisUp
  <2>1. TypeOK' /\ UNCHANGED <<req, unheard, counters>>
    BY <1>0, <1>5 DEF RedisUp, TypeOK, counters
  <2> QED BY <1>2, <2>1, IdleStep
<1>6. ASSUME NEW s \in Stores, NEW k \in Keys, WindowEnds(s, k) PROVE LimiterInv'
  <2>1. TypeOK' /\ UNCHANGED <<req, unheard>>
    <3>1. events' \in 0 .. MaxEvents
      BY <1>0, <1>6, EventBound DEF WindowEnds
    <3> QED BY <1>0, <1>6, <3>1 DEF WindowEnds, TypeOK, redisVars
  <2>2. Windows
    BY <1>0, <1>6, <2>1 DEF WindowEnds, TypeOK, Windows
  <2> QED BY <2>1, <2>2, IdleStep
<1>7. ASSUME NEW p \in Procs, BreakLink(p) PROVE LimiterInv'
  <2>1. /\ Disconnect({p}) /\ behind' = behind /\ UNCHANGED <<redisHealthy, counters>>
        /\ redisUp' \in BOOLEAN /\ events' \in 0 .. MaxEvents
    BY <1>0, <1>7, EventBound DEF BreakLink, TypeOK
  <2> QED BY <2>1, OutageStep
<1>8. CASE RedisDown
  <2>1. /\ Disconnect(Procs) /\ behind' = behind /\ UNCHANGED redisHealthy
        /\ UNCHANGED counters \/ \E S : Forget(S)
        /\ redisUp' \in BOOLEAN /\ events' \in 0 .. MaxEvents
    <3>1. UNCHANGED counters \/ \E S : Forget(S)
      BY <1>8 DEF RedisDown
    <3> QED BY <1>0, <1>8, <3>1, EventBound DEF RedisDown
  <2> QED BY <2>1, OutageStep
<1>9. ASSUME NEW p \in Procs, Restart(p) PROVE LimiterInv'
  BY <1>9, RestartStep
<1>10. CASE UNCHANGED vars
  <2>1. TypeOK' /\ UNCHANGED <<req, unheard, counters>>
    BY <1>0, <1>10 DEF vars, redisVars, counters, TypeOK
  <2> QED BY <1>2, <2>1, IdleStep
<1> QED BY <1>1, <1>3, <1>4, <1>5, <1>6, <1>7, <1>8, <1>9, <1>10 DEF Next

-----------------------------------------------------------------------------
(* Theorems *)

\* The inductive invariant: types, where requests are counted, totals that are distinct
\* and without gaps, for any number of processes, users and requests.
THEOREM LimiterInvariant == Spec => []LimiterInv
BY InitLimiter, StepLimiter, PTL DEF Spec

\* Requests, counters and links stay well typed.
THEOREM LimiterTypes == Spec => []TypeOK
<1>1. LimiterInv => TypeOK
  BY DEF LimiterInv, Typed
<1> QED BY <1>1, LimiterInvariant, PTL

LEMMA RequestsFinite == IsFiniteSet(Requests)
BY FS_Interval, BoundsAssumption DEF Requests

\* No store lets more than its limit of one client's requests through in a window, for
\* any limits and however many processes and routers share it (rateLimiter.js:27-30).
THEOREM NeverOverTheLimit == Spec => []LimitHolds
<1>1. LimiterInv => LimitHolds
  <2> SUFFICES ASSUME LimiterInv, NEW r \in Requests, IsCounted(r)
               PROVE  Cardinality(Fellows(r, {"served"})) <= Limit[Prefix(req[r].limiter)]
    BY DEF LimitHolds, IsCounted
  <2> DEFINE limit == Limit[Prefix(req[r].limiter)]
             served == Fellows(r, {"served"})
             totalOf == [q \in served |-> req[q].hit.total]
  <2>1. Typed /\ Placed /\ Distinct /\ req[r].limiter \in Limiters
    BY DEF LimiterInv, CountInv, Typed, TypeOK
  <2>2. limit \in Nat
    BY <2>1, LimitersAssumption, LimitAssumption DEF Prefix, Prefixes
  <2>3. ASSUME NEW q \in served
        PROVE  /\ q \in Requests /\ IsCounted(q) /\ SameWindow(req[q].hit, req[r].hit)
               /\ req[q].hit.total \in 1 .. limit
    <3>1. /\ q \in Requests /\ IsCounted(q) /\ req[q].at = "served"
          /\ SameWindow(req[q].hit, req[r].hit)
          /\ Prefix(req[q].limiter) = Prefix(req[r].limiter)
      BY <2>1, FellowsShareTheKey
    <3>2. req[q].hit.total <= limit /\ req[q].hit.total \in Nat
      BY <2>1, <3>1 DEF Placed, Typed, TypeOK, Hit
    <3> QED BY <2>2, <3>1, <3>2 DEF IsCounted
  <2>4. totalOf \in Injection(served, 1 .. limit)
    <3>1. totalOf \in [served -> 1 .. limit]
      BY <2>3
    <3>2. ASSUME NEW p \in served, NEW q \in served, totalOf[p] = totalOf[q] PROVE p = q
      BY <2>1, <2>3, <3>2 DEF Distinct, SameWindow
    <3> QED BY <3>1, <3>2 DEF Injection, IsInjective
  <2>5. IsFiniteSet(1 .. limit) /\ Cardinality(1 .. limit) = limit
    BY SMTT(30), <2>2, FS_Interval
  <2> HIDE DEF totalOf, limit
  <2>6. Cardinality(served) <= Cardinality(1 .. limit)
    BY <2>4, <2>5, FS_Injection
  <2> QED BY <2>5, <2>6 DEF limit
<1> QED BY <1>1, LimiterInvariant, PTL

\* Nobody is refused before the limit: the hits of a refused client that came before are
\* all there, as requests or as hits of commands that were sent twice (redis.js:28).
THEOREM RefusalsAreEarned == Spec => []RefusedAfterLimit
<1>1. LimiterInv => RefusedAfterLimit
  <2> DEFINE ats == {"counted", "served", "refused", "lost"}
  <2> SUFFICES ASSUME LimiterInv, NEW r \in Requests, req[r].at = "refused"
               PROVE  Cardinality(Fellows(r, ats) \ {r})
                        + Cardinality({g \in unheard : SameWindow(g, req[r].hit)})
                      >= Limit[Prefix(req[r].limiter)]
    BY DEF RefusedAfterLimit
  <2> DEFINE h == req[r].hit
             limit == Limit[Prefix(req[r].limiter)]
             earlier == 1 .. h.total - 1
             others == Fellows(r, ats) \ {r}
             lost == {g \in unheard : SameWindow(g, h)}
             byOthers == {t \in earlier : \E q \in others : req[q].hit.total = t}
             byLost == {t \in earlier : HitOf(h.store, h.key, h.window, t) \in unheard}
             otherOf == [t \in byOthers |-> CHOOSE q \in others : req[q].hit.total = t]
             lostOf == [t \in byLost |-> HitOf(h.store, h.key, h.window, t)]
  <2>1. /\ Typed /\ Placed /\ NoGaps /\ req[r].limiter \in Limiters /\ h \in Hit
        /\ h.total \in Nat /\ h.total > limit
    BY DEF LimiterInv, CountInv, Typed, TypeOK, Placed, Hit
  <2>2. limit \in Nat \ {0}
    BY <2>1, LimitersAssumption, LimitAssumption DEF Prefix, Prefixes
  <2>3. IsCounted(r) /\ h \in Known
    BY <2>1, <2>2 DEF IsCounted, Known
  <2>4. ASSUME NEW t \in earlier PROVE t \in byOthers \cup byLost
    <3>1. HitOf(h.store, h.key, h.window, t) \in Known
      BY <2>1, <2>3 DEF NoGaps
    <3>2. CASE HitOf(h.store, h.key, h.window, t) \in unheard
      BY <3>2
    <3>3. CASE HitOf(h.store, h.key, h.window, t) \notin unheard
      <4>1. PICK q \in Requests : IsCounted(q) /\ req[q].hit = HitOf(h.store, h.key, h.window, t)
        BY <3>1, <3>3 DEF Known
      <4>2. req[q].hit.total = t /\ SameWindow(req[q].hit, h) /\ q # r
        BY <2>1, <4>1 DEF HitOf, SameWindow
      <4>3. req[q].at \in ats
        BY <2>1, <4>1 DEF Placed, Typed, TypeOK, Ends
      <4>4. q \in Fellows(r, ats)
        BY <2>1, <2>3, <4>1, <4>2, <4>3, SameWindowFellows
      <4> QED BY <4>2, <4>4
    <3> QED BY <3>2, <3>3
  <2>5. /\ IsFiniteSet(others) /\ IsFiniteSet(lost) /\ IsFiniteSet(earlier)
        /\ Cardinality(earlier) = h.total - 1
    <3>1. others \in SUBSET Requests /\ lost \in SUBSET unheard
      BY DEF Fellows
    <3>2. 1 \in Int /\ h.total - 1 \in Int /\ h.total - 1 >= 1
      BY <2>1, <2>2
    <3>3. IsFiniteSet(unheard)
      BY <2>1 DEF Typed
    <3> HIDE DEF others, lost
    <3>4. IsFiniteSet(others) /\ IsFiniteSet(lost)
      BY <3>1, <3>3, RequestsFinite, FS_Subset
    <3> DEFINE n == h.total - 1
    <3>5. n \in Int /\ n >= 1
      BY <3>2
    <3> HIDE DEF n
    <3>6. IsFiniteSet(1 .. n) /\ Cardinality(1 .. n) = n
      BY <3>5, FS_Interval
    <3> QED BY <3>4, <3>6 DEF n
  <2>6. IsFiniteSet(byOthers) /\ Cardinality(byOthers) <= Cardinality(others)
    <3>1. otherOf \in [byOthers -> others]
          /\ \A t \in byOthers : req[otherOf[t]].hit.total = t
      OBVIOUS
    <3>2. otherOf \in Injection(byOthers, others)
      BY <3>1 DEF Injection, IsInjective
    <3> HIDE DEF otherOf, byOthers, others
    <3> QED BY <2>5, <3>2, FS_Injection
  <2>7. IsFiniteSet(byLost) /\ Cardinality(byLost) <= Cardinality(lost)
    <3>1. lostOf \in [byLost -> lost] /\ \A t \in byLost : lostOf[t].total = t
      BY DEF HitOf, SameWindow
    <3>2. lostOf \in Injection(byLost, lost)
      BY <3>1 DEF Injection, IsInjective
    <3> HIDE DEF lostOf, byLost, lost
    <3> QED BY <2>5, <3>2, FS_Injection
  <2>8. earlier = byOthers \cup byLost
    BY <2>4
  <2> HIDE DEF earlier, byOthers, byLost, others, lost, limit
  <2>9. Cardinality(earlier) <= Cardinality(byOthers) + Cardinality(byLost)
    <3>1. IsFiniteSet(byOthers \cap byLost)
      BY <2>6, FS_Intersection
    <3>2. Cardinality(byOthers \cap byLost) \in Nat
      BY <3>1, FS_CardinalityType
    <3>3. /\ Cardinality(byOthers) \in Nat /\ Cardinality(byLost) \in Nat
      BY <2>6, <2>7, FS_CardinalityType
    <3>4. Cardinality(earlier) = Cardinality(byOthers) + Cardinality(byLost)
                                   - Cardinality(byOthers \cap byLost)
      BY <2>6, <2>7, <2>8, FS_Union
    <3> QED BY <3>2, <3>3, <3>4
  <2>10. /\ Cardinality(byOthers) \in Nat /\ Cardinality(byLost) \in Nat
         /\ Cardinality(others) \in Nat /\ Cardinality(lost) \in Nat
    BY <2>5, <2>6, <2>7, FS_CardinalityType
  <2> QED BY <2>1, <2>2, <2>5, <2>6, <2>7, <2>9, <2>10 DEF limit, others, lost
<1> QED BY <1>1, LimiterInvariant, PTL

-----------------------------------------------------------------------------
(***************************************************************************)
(* All stores together.  LimitHolds speaks of the requests that were       *)
(* counted, store by store; here are all that were served.                 *)
(***************************************************************************)
\* Nothing slips past a limiter: a request that is let through was counted, in Redis
\* or in memory, whatever link broke while it waited (rateLimiter.js:58-59).
ServedIsCounted == \A r \in Requests : req[r].at = "served" => IsCounted(r)

StoresOf(prefix) ==
    {<<Redis, prefix>>} \cup (Procs \X {l \in Limiters : Prefix(l) = prefix})

\* The requests of one key that the limiters of one prefix let through in the windows w.
LetThrough(prefix, k, w) ==
    {r \in Requests : /\ req[r].at = "served" /\ Prefix(req[r].limiter) = prefix
                      /\ KeyGenerator(req[r].limiter, req[r].user) = k
                      /\ req[r].hit.window = w[req[r].hit.store]}

\* What falling back to memory costs: the limit once more for every limiter of every
\* process, and no more (rateLimiter.js:27-30, "per-instance").
FallbackIsBounded ==
    \A prefix \in Prefixes, k \in Keys : \A w \in [Stores -> Nat] :
        Cardinality(LetThrough(prefix, k, w)) <= Cardinality(StoresOf(prefix)) * Limit[prefix]

LEMMA StepServed == LimiterInv /\ ServedIsCounted /\ [Next]_vars => ServedIsCounted'
<1> SUFFICES ASSUME LimiterInv, ServedIsCounted, [Next]_vars,
                    NEW r \in Requests, req'[r].at = "served"
             PROVE  IsCounted(r)'
    BY DEF ServedIsCounted
<1>0. /\ Placed /\ Typed /\ req \in [Requests -> Request]
      /\ req[r].at = "served" => IsCounted(r)
  BY DEF LimiterInv, Typed, ServedIsCounted
<1>1. ASSUME req'[r] = req[r] PROVE IsCounted(r)'
  BY <1>0, <1>1 DEF IsCounted
<1>2. ASSUME NEW t \in Requests, Arrive(t) PROVE IsCounted(r)'
  BY <1>0, <1>1, <1>2 DEF Arrive, Request
<1>3. ASSUME NEW t \in Requests, Check(t) PROVE IsCounted(r)'
  <2> DEFINE l == req[t].limiter
             s == StoreOf(req[t].proc, l)
             k == KeyGenerator(l, req[t].user)
  <2>1. s \in Stores /\ k \in Keys
    BY <1>0, StoresAndKeys DEF Request
  <2>2. CASE req' = [req EXCEPT ![t].at = "sent", ![t].hit.store = s, ![t].hit.key = k]
    BY <1>0, <1>1, <2>2 DEF Request
  <2>3. CASE req' = [req EXCEPT ![t].at = Verdict(l, Counted(s, k)), ![t].hit = Counted(s, k)]
    <3>1. Counted(s, k).total > 0
      BY <1>0, <2>1, CountedIsHit
    <3> QED BY <1>0, <1>1, <2>3, <3>1 DEF Request, IsCounted
  <2> QED BY <1>3, <2>2, <2>3 DEF Check
<1>4. ASSUME NEW t \in Requests, CountInRedis(t) PROVE IsCounted(r)'
  BY <1>0, <1>1, <1>4 DEF CountInRedis, Request
<1>5. ASSUME NEW t \in Requests, Reply(t) PROVE IsCounted(r)'
  <2>1. req[t].at = "counted" /\ req' = [req EXCEPT ![t].at = Verdict(req[t].limiter, req[t].hit)]
    BY <1>5 DEF Reply
  <2>2. IsCounted(t)
    BY <2>1, <1>0 DEF Placed
  <2>3. CASE r = t
    BY <1>0, <2>1, <2>2, <2>3 DEF Request, IsCounted
  <2>4. CASE r # t
    BY <1>0, <1>1, <2>1, <2>4
  <2> QED BY <2>3, <2>4
<1>6. ASSUME NEW P, Disconnect(P) PROVE IsCounted(r)'
  <2>1. req'[r] = req[r] \/ req'[r].at = "sent"
    BY <1>0, <1>6 DEF Disconnect, Unanswered, Request
  <2> QED BY <1>1, <2>1
<1>7. ASSUME NEW p \in Procs, Restart(p) PROVE IsCounted(r)'
  <2>1. req'[r] = req[r] \/ req'[r].at = "lost"
    BY <1>0, <1>7 DEF Restart, Request
  <2> QED BY <1>1, <2>1
<1>8. CASE UNCHANGED req
  BY <1>1, <1>8
<1> QED BY <1>2, <1>3, <1>4, <1>5, <1>6, <1>7, <1>8
        DEF Next, ProcessStep, BreakLink, MarkDown, Connect, ReadEnds, RedisDown, RedisUp,
            WindowEnds, vars

\* Also when the link breaks, the reply is lost or the store is changed under way
\* (rateLimiter.js:58-59).
THEOREM NothingSlipsThrough == Spec => []ServedIsCounted
<1>1. Init => ServedIsCounted
  BY DEF Init, ServedIsCounted, NoRequest
<1> QED BY <1>1, StepServed, LimiterInvariant, PTL DEF Spec

\* Redis and every limiter in memory count for themselves (rateLimiter.js:40-46): with
\* finitely many processes there are that many allowances, and no more.
THEOREM FallbackBound ==
    ASSUME IsFiniteSet(Procs)
    PROVE  Spec => []FallbackIsBounded
<1>1. LimiterInv /\ ServedIsCounted => FallbackIsBounded
  <2> SUFFICES ASSUME LimiterInv, ServedIsCounted, NEW prefix \in Prefixes, NEW k \in Keys,
                      NEW w \in [Stores -> Nat]
               PROVE  Cardinality(LetThrough(prefix, k, w))
                        <= Cardinality(StoresOf(prefix)) * Limit[prefix]
    BY DEF FallbackIsBounded
  <2> DEFINE through == LetThrough(prefix, k, w)
             limit == Limit[prefix]
             stores == StoresOf(prefix)
             place == [r \in through |-> <<req[r].hit.store, req[r].hit.total>>]
  <2>1. Typed /\ Placed /\ Distinct /\ limit \in Nat
    BY LimitAssumption DEF LimiterInv, CountInv
  <2>2. ASSUME NEW r \in through
        PROVE  /\ r \in Requests /\ IsCounted(r)
               /\ req[r].hit.key = k /\ req[r].hit.window = w[req[r].hit.store]
               /\ req[r].hit.store \in stores /\ req[r].hit.total \in 1 .. limit
    <3>1. /\ r \in Requests /\ req[r].at = "served" /\ IsCounted(r)
          /\ Prefix(req[r].limiter) = prefix /\ req[r].hit.window = w[req[r].hit.store]
      BY DEF LetThrough, ServedIsCounted
    <3>2. /\ req[r].hit.key = k /\ req[r].hit.total <= limit
          /\ req[r].hit.store \in {<<Redis, prefix>>, <<req[r].proc, req[r].limiter>>}
      BY <2>1, <3>1 DEF Placed, LetThrough
    <3>3. /\ req[r].proc \in Procs /\ req[r].limiter \in Limiters /\ req[r].hit.total \in Nat
      BY <2>1, <3>1 DEF Typed, TypeOK, Hit
    <3>4. req[r].hit.store \in stores
      BY <3>1, <3>2, <3>3 DEF StoresOf
    <3> QED BY <2>1, <3>1, <3>2, <3>3, <3>4 DEF IsCounted
  <2>3. place \in Injection(through, stores \X (1 .. limit))
    <3>1. place \in [through -> stores \X (1 .. limit)]
      BY <2>2
    <3>2. ASSUME NEW q \in through, NEW r \in through, place[q] = place[r] PROVE q = r
      <4>1. req[q].hit.store = req[r].hit.store /\ req[q].hit.total = req[r].hit.total
        BY <3>2
      <4>2. SameWindow(req[q].hit, req[r].hit)
        BY <2>2, <4>1 DEF SameWindow
      <4> QED BY <2>1, <2>2, <4>1, <4>2 DEF Distinct
    <3> QED BY <3>1, <3>2 DEF Injection, IsInjective
  <2>4. IsFiniteSet(stores)
    <3> DEFINE ls == {l \in Limiters : Prefix(l) = prefix}
               four == {"global", "auth", "tasks", "reports"}
    <3>1. IsFiniteSet(four)
      <4>1. four = {"global"} \cup ({"auth"} \cup ({"tasks"} \cup {"reports"}))
        OBVIOUS
      <4>2. \A x : IsFiniteSet({x})
        BY FS_Singleton
      <4> HIDE DEF four
      <4> QED BY <4>1, <4>2, FS_Union
    <3>2. IsFiniteSet(ls)
      BY <3>1, LimitersAssumption, FS_Subset
    <3> HIDE DEF ls
    <3>3. IsFiniteSet(Procs \X ls)
      BY <3>2, FS_Product
    <3>4. IsFiniteSet({<<Redis, prefix>>})
      BY FS_Singleton
    <3> QED BY <3>3, <3>4, FS_Union DEF StoresOf, ls
  <2>5. IsFiniteSet(1 .. limit) /\ Cardinality(1 .. limit) = limit
    <3> HIDE DEF limit
    <3> QED BY SMTT(30), <2>1, FS_Interval
  <2> HIDE DEF place, through, stores, limit
  <2>6. /\ IsFiniteSet(stores \X (1 .. limit))
        /\ Cardinality(stores \X (1 .. limit)) = Cardinality(stores) * limit
    BY <2>4, <2>5, FS_Product
  <2>7. Cardinality(through) <= Cardinality(stores \X (1 .. limit))
    BY <2>3, <2>6, FS_Injection
  <2> QED BY <2>6, <2>7 DEF through, stores, limit
<1> QED BY <1>1, LimiterInvariant, NothingSlipsThrough, PTL
=============================================================================
