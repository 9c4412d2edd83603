# TaskFlow: a TLA+ model

TaskFlow is a task manager: a React front end, an Express API, a worker for
reports, PostgreSQL (through supabase-js) and Redis. This directory holds TLA+
modules of the parts whose correctness depends on interleaving, failure or
order, TLC configurations that check them on small instances, and proofs that
TLAPS checks for every instance.

To check: `tlc -config <cfg> MC<Module>.tla` for a run, `tlapm <Module>Proofs.tla`
for the proofs. `PROJECT.json` lists every run, the code every definition
models, the mutants the properties are tested with, and the findings.

## Inventory of the system

| Component | State | Operations | Talks to | Hard behaviour |
|---|---|---|---|---|
| Report pipeline (`report.controller`, `reportQueue`, `report.worker`, `report.service`) | BullMQ jobs, locks and counters; claim keys in Redis | request, take, build, claim, send, release, finish, retry, stall check, evict | API and workers through Redis; SMTP | crashes between claim and send, lost locks, two runs of one job, lost replies, retention |
| Report status (`report.controller`) | none of its own | poll: two reads of the queue | the queue | the job moves between the reads |
| Event stream (`eventStream`, `reportsConsumer`) | Redis stream, group position, pending list; a consumer's batch | publish, ensure group, read, handle, acknowledge | tasks-service to reports-service | restarts with a batch in hand, failing handler, lost reply, Redis without its data |
| Accounts and tokens (`auth.controller`, `user.model`) | `users`, `refresh_tokens` | signup, login, refresh, logout | PostgreSQL, one call at a time | check-then-act between calls, errors as values, crashes between calls |
| Browser session (`api.js`, `useAuth.js`) | localStorage (shared by tabs), `refreshPromise` and `user` (per tab) | request, refresh, bootstrap, login, logout | auth endpoints | concurrent 401s, lost answers, several tabs, late answers |
| Task endpoints (`task.controller`, `task.model`, migration 004) | `tasks`, `deleted_tasks` | create, read, update, delete | PostgreSQL, audit log, stream | two requests on one task; write, record and event without a transaction |
| Audit chain (`audit.js`, `verify-audit.js`) | `seq` and `lastHash` per process; the log | audit, verify | stdout | restarts, interleaved chains, damaged logs |
| Rate limiter (`rateLimiter.js`, `redis.js`) | counters in Redis, and per limiter and process in memory; a health flag per process | limit, connect, mark down | Redis | the flag lags the connection, commands are queued and resent, counters in several stores |
| Redis clients (`redis.js`, `queue/connection.js`) | connection, offline queue | commands | Redis | a blocking read on a shared connection |
| Start and shutdown (`server.js`, `worker.js`) | open requests, in-flight jobs | SIGTERM, forced exit | all | ten seconds against work in hand |
| Dashboard (`useTasks.js`, `Dashboard`, `TaskModal`, `ConfirmDialog`) | `tasks`, `deletedTasks`, one selected task, open and submitting flags | fetch, create, update, delete, open, close | task endpoints | answers overtake each other, dialogs closed before their answer, other clients |
| Task input (`TaskModal`, `task.model`, `validate`) | none | check, trim, convert, store, open again | task endpoints | two sides that check and trim the same thing in another order |
| Report aggregation (`report.service`) | none | count, rate | | boundaries |
| Password hashing | none | pure functions | | |
| Middleware, routes, configuration, logging, metrics, health | none that decisions read | | | |
| Pages, styles, deployment, load tests, dashboards | | | | outside the program's logic |

What makes each part correct:

* *Reports*: a job mails at most once, ends once, ends at all; a key names a job
  of its user only; a user learns of own jobs only.
* *Events*: no event is handled twice; one that no fault strikes is handled.
* *Tokens*: one account per address; a token is exchanged once, is then
  revoked, and a revoked one buys nothing.
* *Session*: tokens are thrown away only at logout or when they are of no use;
  what a tab shows agrees with them; every call settles.
* *Tasks*: only owners and admins write; every deletion is logged once; events
  are true; a success is audited.
* *Rate limits*: no store exceeds its limit, nobody is refused early, requests
  are decided while Redis is away, and Redis is used again when it is back.
* *Dashboard*: when nothing is under way it shows what the server has; deleted
  tasks stay gone; no control is stuck or free for a second call.
* *Audit*: a complete log verifies and a damaged one does not.
* *Shutdown*: replacing workers costs no job a run unless the exit is forced.
* *Input and figures*: what the form accepts the API accepts and stores as it is, a
  task can be opened and saved again; the figures of a report agree.

## Modules

| Module | Models | Composition |
|---|---|---|
| `ReportJobs` | request, queue, worker slots, claim and mail | implements `ReportPromise` |
| `ReportPromise` | what a client relies on: pending, then one final outcome, at most one mail | abstract |
| `WorkerShutdown` | worker processes that are signalled, drained, forced out and started again | EXTENDS `ReportJobs` |
| `ReportSummary` | the figures of a report, as operators | |
| `ReportStatus` | `GET /reports/:jobId` beside the pipeline | EXTENDS `ReportJobs` |
| `EventStream` | publisher, group and consumers | implements `EventDelivery` |
| `EventDelivery` | each event meets one fate | abstract |
| `AuthTokens` | signup, login, refresh, logout at the API | |
| `Session` | tabs, their calls and the shared tokens | EXTENDS `AuthTokens`, whose actions are the server's side |
| `TaskApi` | task requests with trigger, audit record and event | implements `TaskLedger` |
| `TaskLedger` | each change of a task is one permitted step | abstract |
| `TaskInput` | a task from the form to its row and back, as operators | |
| `AuditChain` | chains, the log, its damage, `verifyChain` | |
| `RateLimiter` | limiters of several processes, the two stores, the link to Redis, its flag and the blocking read on it | |
| `TaskBoard` | list, log, form and dialog of one tab, its calls, another client | |
| `MC...` | model values and symmetry for TLC | |
| `...Proofs` | theorems | EXTENDS the component |

A variable is named for what it stands for in the code; its comment says which.
A handler, processor call or consumer is split at every `await` on a database,
Redis or SMTP call: the call is one atomic step, everything between two calls
belongs to the step before. `step` or `pc` is the call that comes next. An
operator `Faulty...` is never used by a specification: it is a plausible
mistake in the operator after it, with which the properties are tested.

### ReportJobs, ReportPromise, WorkerShutdown, ReportStatus

`st`, `attempts`, `stalled` and `lock` are what BullMQ keeps of a job, `claim`
the key `report:email-sent:<id>`, `delivered` the mails the SMTP server took.
A slot's `pc` follows `processReportJob`: building, claiming, sending,
releasing, returning or throwing. BullMQ is not in the repository; its
actions (`LockTimeout`, `StalledCheck`, `PromoteDelayed`, `Evict`) say what the
code relies on, with the options `reportQueue.js` passes. A keyed job's id is
the pair of user and key: BullMQ rejects a custom id that has other than two
colons, and user ids and prefix have none, so a key with a colon is an error
and distinct pairs have distinct ids. `Events` selects what the environment may do. The
two commands on the claim key, its SET NX and its DEL, can each be sent again by ioredis
after a reply was lost; a DEL that comes late deletes the claim of whoever holds it then.

`ReportPromise` has three phases and a mail count. The refinement maps the
seven queue states to phases (`Phases`) and `delivered` to `mails`.

`WorkerShutdown` adds `stage`, where a worker is between SIGTERM and exit, and
`cut`, which no action reads: the jobs that lost a run or its lock. A signalled
worker takes no job, exits when its runs have ended (`CloseWorker`), or after ten
seconds with whatever it is doing (`ForceExit`). Time is not modelled: a forced
exit may come at any moment, and stands for every other death of a worker too.

`ReportSummary` has the figures of `buildReport` over a set of rows. The rate is
rounded from a floating point quotient, of which the model says only that the
result is next to it.

### EventStream

Ids are 1, 2, 3, ... in the order of XADD. `delivered` is the group's
last-delivered-id, an entry is pending when it is at most `delivered` and not in
`acked`. `lost` and `failed` are read by no action: the entries that a fault
struck before they were handled (trimmed unread, published without a group, in
hand of a consumer that stopped, in a reply that was lost, in a Redis that came
back empty), and those whose handler threw. `Trimmed` leaves XADD `MAXLEN ~` its freedom: any number of old
entries may go as long as `MaxLen` stay. A read of a group that is gone fails
and the loop repeats it, which is no step. `StopConsumer` is any exit: on
SIGTERM `server.js` does not stop the consumer either.

`EventDelivery` gives every event a fate: due, and then handled, failed or lost,
once and for all. The refinement reads it off `handled`, `failed` and `lost`; with
the fairness of the loop every event that is due gets its fate, which says that no
fault costs an event it did not strike.

### AuthTokens and Session

`tok` is the state of a token's row. `"unstored"` is a token that was signed and
answered while its INSERT failed. A database call may return an error having
been carried out or not; that is `DbError` in the disjuncts of each call. A 403
(self-assigned ADMIN), 400 and 429 are answered before any step here. A request whose
connection is refused (`Refused`) never becomes known to the API.
`void` remembers which requests came in with a revoked token; it is read by no
action.

`Session` keeps `refresh` and `access` for localStorage and, per tab, `ui` (what
`user` and the form show), `call` (each API call), `flight` (`refreshPromise`)
and `form`. A refresh, a login or a logout may find no connection (`Refused`), or lose its answer
to the network while the API carries it out. A refresh is one request of `AuthTokens`, so the server's
interleavings are those of the module below. The continuation after an answer
(store the tokens, clear the promise, send the waiting calls again) is one step:
they are microtasks of one turn. Access tokens are good or stale for everyone
at once; their length of life plays no part.

### TaskApi

`ver` counts a task's updates and stands for its content. `entry` counts its
rows in `deleted_tasks`, `author` is who changed it last; DELETE and trigger are one step because they are one
transaction. `told` counts how often an event is on the stream. `publishEvent` does not look
at the health flag: its XADD waits, and the request with it, until the client is connected
(`reachable`), and is sent again when its reply was lost (`LoseReply`, `doubtful`); only an
error that Redis answers is passed over. An audit record is
synchronous in the code, so `AuditChange` only separates it from the event for
a crash in between; the record of a denied request is part of `FindById`.

`TaskLedger` knows of no handlers: a task is created, changed or deleted in one
step by its owner or an admin. The code checks the owner on a row it read earlier;
that it still implements the ledger is because `user_id` never changes, and because
an update or deletion of a row that is gone does nothing.

### TaskInput

A text is the white space around it and the rest; only lengths are looked at.
`FormAccepts`, `Payload` and `FormOf` are `TaskModal`; `Fits`, `SchemaAccepts` and
`Stored` are the API. A due date is an instant; the form shows the local minute
`Shown` of it and sends back the instant that minute has `Meant`, which is not
always the same one: seconds are cut off, and where clocks are set back two
instants show as one minute. Dates are those of the years 1000 to 9999, which the
form writes with four digits, and later ones as the form takes them (`LastIso`).

### AuditChain

Two hashes are equal exactly when what they commit to is: HMAC-SHA256 without
collisions. A record keeps the one field whose encoding matters, the user agent;
`ToLine` is what the JSON line keeps of it, `Canonical` what the hash sees.
After at most one change to the log nothing is written any more. An edit gives one field of
one line, its hash included, another value; a new hash cannot be computed without the key,
but one of the log, or that of the start, can be put in its place.

### RateLimiter

A store is a pair: Redis and a prefix, or a process and one of its limiters.
`hits` are the counters, `window` tells the windows of a key apart. `ready` is
the connection, `redisHealthy` the flag, which falls in a step of its own
(`MarkDown`). A request is one pass through one limiter: it picks its store
(`Check`), and if that is Redis its command waits for the link, is counted and
answered. A process of `Readers` runs the event consumer on the same client, whose
XREADGROUP blocks the link for up to five seconds: a command sent meanwhile is in
`behind` until the read returns (`ReadEnds`), and after a reconnection waits
behind the next one. A link that breaks sends unanswered commands again; `unheard`
keeps the hits nobody heard of. redis.js is modelled as far as the limiter uses it.

### TaskBoard

A task's content is a version number. `call[c]` is a request of the tab with
the answer on its way; the API carries it out in one step, because what happens
inside is `TaskApi`. `doubtful` holds the tasks the tab cannot know:
changed by another client, or by a call whose answer was lost. Both dialogs
share `selectedTask`, a call keeps the task it was made for, and a dialog that
is closed does not take its call back.

## Runs

Runs that pass:

| Run | Shows | Bounds, and why they suffice |
|---|---|---|
| `reports_faults` | bounded retries, locks on active jobs only, final outcomes, mails bounded by runs (`MailsAreBounded`); `PipelineInv`, which the proofs show to be inductive | 2 jobs, 2 single-slot workers, 2 attempts, 1 stall, every event: a job can be in two hands, fail, stall, finish, be evicted and come again |
| `reports_promise` | one mail, exclusive claim, stalls only after a forced exit or a lost lock, refinement of `ReportPromise` with liveness, all through `WorkerShutdown` | 1 job, 3 slots on 2 workers, 3 attempts as shipped, 2 stalls: three runs of the job at once, while both workers are signalled, forced out and started again any number of times; every fault but a lying SMTP server, a claim that ends early and a DEL sent again |
| `reports_status` | polls and keys lead users to their own jobs only; mailed exactly when completed | 2 users (one an admin) with 1 key, 2 slots, 2 attempts, failing queries and mails, no process faults. `FiguresAgree` of `ReportSummary`: all sets of up to 3 tasks with 3 states and 3 due dates |
| `events_faults` | handled at most once, only handled entries acknowledged, disjoint batches (`StreamInv`); refinement of `EventDelivery` with liveness (`KeepsDelivery`): a fault costs only what it strikes | 4 events, 2 consumers, batches of 2, stream of 2, every fault: trimming passes a group that lags |
| `auth_faults` | one account, refusal of revoked tokens | 3 tokens, 2 requests, every fault, refused connections too: login, exchange and re-exchange against a second request at every step |
| `session_faults` | screen and tokens agree, rotation, tokens forgotten for a reason | 1 tab, `/auth/me` and 1 call, 3 tokens, reloads, refused connections, lost replies (of a login too), API crashes, expiry |
| `session_calm` | single flight: one successor, no session lost to a failing call or refresh, everything settles | 1 tab with 2 concurrent calls, 3 tokens, expiry, refused connections of calls and refreshes: a refresh that both wait for, succeeds or fails and is tried again, or a new login |
| `tasks_faults` | refinement of `TaskLedger` (`KeepsLedger`: ownership, one log row per deletion), true events told once but for lost replies, audited changes | 1 task, a user and an admin, 2 requests, 2 updates, 1 lost reply, every fault: Redis is away at any step of both |
| `ratelimit_outages` | limits per store, no early refusal, service without Redis, recovery (liveness), behind a blocking read too | 2 processes, one of them with the consumer, 2 users behind 1 address, 3 limiters of 2 prefixes, 2 requests, a limit of 1, one outage, restart or ended window: a request before, during or after it, beside a second one in the same or another store |
| `board_faults` | list, log, form and controls of the dashboard | 2 tasks, 5 calls: the two of the mount, and either two saves or a save and a deletion with the log read that follows; failing calls, lost answers, 1 change by another client. The theorems about `TaskInput`, and what they except: 3 bodies with up to 2 spaces, 7 instants in 3 minutes, one of them repeated |
| `audit_verify` | the verifier is exact, finds damage and accepts intact logs in any order | 2 processes, 3 starts, 4 records, one change: any one field edited, a line lost, doubled or moved |

The run that finds a statement of the repository violated (quoted in `PROJECT.json`):

| Run | What happens |
|---|---|
| `audit_agent` | a record of a request without User-Agent does not verify |

`HandedJobIsOwn` and `CompletedMeansMailed` are stated in `ReportJobs` and checked in
`reports_status`; `ReplacedIsRevoked` and `OneSuccessor`
are stated in `AuthTokens` and checked in the `session` runs, where the browser is
the client.

Named bounds: `MaxEvents`, `MaxUpdates`, `MaxLost`, `MaxRecords`, `MaxBoots`, `MaxRequests`,
`MaxCalls`, `MaxOthers` and the finite sets of tokens, tasks, jobs and handlers. Where they end a behaviour deadlock is
not checked, and the cfg says what is used up; in the other runs (a report can
always be requested again, a page reloaded, a process stopped) it is.
`Session` signs in (`SignIn`) and expires access tokens (`AccessExpires`) only
while enough fresh refresh tokens are left for what follows. `Patient` restricts
a user to signing in when no call of the tab is open; both `session` runs assume
it, the next section says why.

Runs with liveness use no symmetry.

## Divergences

Where a run's bounds or faults leave something out, it is because the code there
does something its documents, comments or tests do not say. The models have all
of it; to see one, run the module with the values named here.

| Where | The code does | A statement in the repository | To see it |
|---|---|---|---|
| `report.service.js:77` | a worker that dies between claim and send leaves the claim, and the retry completes without a mail | `report.service.js:72-73` "false if a previous run of the same job already sent it" | `ReportJobs`, Events `{"crash"}`: `CompletedMeansMailed` |
| `report.service.js:136` | a send that fails after the server took the mail releases the claim, and the retry mails again | `README.md:401-402` "sent **at most once**" | Events `{"smtp_ambiguous"}`: `AtMostOnceEmail` |
| `report.service.js:136` | a DEL sent again after a lost reply deletes the claim that a later run of the job has taken meanwhile, and a third run mails again | the same | Events `{"release_reply_lost", "lock_loss"}`, 2 slots, 3 attempts: `AtMostOnceEmail` |
| `reportQueue.js:30` | a completed job is removed after an hour, and its key then queues a second one, which mails nothing while the claim of 24 h stands | `README.md:398-399` "returns the **same** job instead of queueing a duplicate" | Events `{"evict"}`: `CompletedMeansMailed` |
| `report.controller.js:77,87` | a job that completes between the two reads of a poll is answered completed without its report | `README.md:419` `"status": "completed", "report": {...}` | `ReportStatus`: `Answered /\ reply.status = "completed" => reply.report` |
| `eventStream.js:64,75` | entries in hand of a consumer that stops are never read again | `eventStream.js:9` "decoupled and at-least-once" | `EventStream`: an entry of `lost` is handled |
| `eventStream.js:65` | after Redis came back empty, consumers read a group that is gone until they restart | `redis.js:21-22` "so the app recovers automatically when Redis comes back" | the same, Faults `{"data_loss"}` |
| `auth.controller.js:24` | a refresh token whose INSERT failed is answered | `auth.controller.js:15-16` "persists the (hashed) refresh token" | `AuthTokens`, Faults `{"db_error"}`: no answered token is `"unstored"` |
| `auth.controller.js:149` | after a failed UPDATE the presented token stays usable beside the new pair | `auth.controller.js:117-118` "the presented token is revoked and a new pair is issued" | Faults `{"db_error"}`: `ReplacedIsRevoked` |
| `auth.controller.js:139` | two requests with one token are each answered a pair | the same | `AuthSpec`, 2 handlers: `OneSuccessor` |
| `auth.controller.js:59` | a signup that loses the race for its address is answered 500 | `auth.controller.test.js:62` "returns 409 when the email already exists" | `AuthTokens`, no faults: no code is 500 |
| `eventStream.js:92` | an entry whose handler threw stays pending and is never given to a consumer again | `eventStream.js:93` "Leave unacked so it's redelivered" | Faults `{"handler_error"}`: `FailedIsRedelivered`; proved by `FailedEventsDropped` |
| `useAuth.js:31` | a page that starts while the API fails throws good tokens away | `api.js:116` "must NOT log the user out" | BrowserFaults `{"blip"}`: `TransientKeepsTokens` |
| `api.js:60` | a late 401 clears the tokens stored now: those of a new login, or those another tab got | `api.js:59` "Genuine auth failure: the refresh token is invalid/expired" | `Session`, `Patient = FALSE`, or two tabs: `ForgottenIsUnusable` |
| `auth.controller.js:144` | a failing account query is answered 401, and the browser ends the session | `api.js:68` "transient, not an auth decision. Keep tokens." | `Session`, Faults `{"db_error"}`: `ForgottenIsUnusable` |
| `api.js:47` | a refresh whose answer is lost leaves the revoked token, and the next one ends the session | `SECURITY-FIXES.md:30` "a transient network blip during refresh no longer logs the user out permanently" | BrowserFaults `{"reply_lost"}`: `SessionSurvivesBlips` |
| `api.js:110` | a tab whose session another tab ended stays on the signed-in screen | `api.js:23-25` "instead of leaving them on a broken, falsely "logged-in" screen" | two tabs: `SignedInHasTokens` |
| `task.controller.js:26` | a write that is carried out but answered with an error is not audited | `audit.js:9-10` "every security-relevant action ... produces a structured audit record" | `TaskApi`, Faults `{"db_error"}`: `done` is within `audited` when answered |
| `task.controller.js:89` | a denied GET is not audited | `capstone/README.md:42` "every cross-user access attempt" | `FindById` with `op[h] = "read"` |
| `eventStream.js:26` | while Redis is away the XADD waits in the client's queue (`redis.js:24-30`), and the request that changed a task is not answered | `eventStream.js:14-17` "a streaming failure must never break the originating request" | `TaskApi` under `FairSpec`, Faults `{"redis_down"}`: `RequestsAreAnswered`; it holds with Faults `{"db_error", "redis_error", "crash"}` |
| `eventStream.js:26` | an XADD whose reply is lost is sent again, and the change is on the stream twice | none | `TaskApi`, Faults `{"reply_lost"}`: `told[e] <= 1` |
| `task.controller.js:150` | events of two updates can be published in the other order than the updates | `eventStream.js:8-9` "to maintain its own view" | `TaskApi`: two handlers between `UpdateTask` and `PublishEvent` |
| `rateLimiter.js:59` | a request that picked Redis before the flag fell waits for as long as Redis is down | `redis.js:27-28` "We never issue per-request commands while unhealthy"; `rateLimiter.js:29` "so the API keeps serving traffic" | `RateLimiter`: `req[r].at = "checking" ~> Decided(r)` |
| `rateLimiter.js:40` | without Redis every limiter counts in memory, per process and router | `README.md:104` "no in-memory fallback"; `README.md:118` "with no fallback" | the disjuncts of `Check` |
| `useTasks.js:53` | two reads of the deletion log overlap, the older answer comes last and takes the new entry away | `useTasks.js:52` "Refresh the deletion log so the home page reflects the new entry" | `TaskBoard`: `LogShowsDeletions` without `~logTrouble` |
| `audit.js:140` | the verifier sorts, so a log with moved records verifies | `audit.js:17-18` "reordering any record breaks the chain"; `audit.js:123` "any order" | `AuditChain`: `IntactVerifies` states the second |
| `task.model.js:16` | a title of white space passes `min(1)`, which comes before `trim()`, and is stored empty; the form then refuses to save that task | `task.model.js:16` "Title cannot be empty" | `BlankTitlesPass` in `MCTaskBoard`, `OpenedFormsAreAccepted` |
| `TaskModal.jsx:61` | saving a task nobody changed sets its due date to the start of its minute, an hour earlier where clocks are set back | none | `DatesMove` in `MCTaskBoard`, `ResavingSettles` |
| `app.js:63` | a description within the limit of form and schema exceeds the 10kb of a body when its letters take two or more bytes | `task.model.js:21` "Description must be at most 5000 characters" | `LongFormsOverflow` in `MCTaskBoard` |

## Fairness

* `WorkerShutdown`, for the pipeline: a processor call settles (queries and SMTP have
  time limits); a signalled worker exits in the end and is started again. A
  worker that is up runs the queue's timers and takes jobs in the order of the
  list, but it may be replaced again and again before it does: taking and
  the timers are strongly fair. Lost locks and requests are never required. The
  counters bound the deaths a job survives, which is why no fairness against
  crashes is needed.
* `EventStream`: a consumer's loop runs as long as its process. That consumers
  stay up from some time on is a premise of `KeepsDelivery`, not fairness.
* `RateLimiter`: the event loop handles requests, the client its link, and a blocking
  read returns after BLOCK 5000 at the latest. That Redis is up from some time on is a premise of `RecoversWithRedis`; `DownKeepsServing`
  does without.
* `TaskBoard` states safety only: `ControlsFollowCalls` says of which call each
  spinner waits, and that a call ends is the browser's.
* `Session`: the API finishes a request, a browser runs the continuation of an
  answered one. Calls get strong fairness because a call that has to start a
  refresh needs one of the `Handlers` free, a bound of the model only. No click is fair.

Liveness is model-checked only: it is out of reach of the prover, as is ENABLED.

## Proofs

All constants are arbitrary (any users, slots, tokens, tasks, consumers, limits
and sets of faults) within the named assumptions of each module, which TLC
evaluates in every run.

* `ReportJobsProofs`. `PipelineInv` is inductive: types; a slot is idle exactly
  when it has no job and never runs a job that was not enqueued; only active jobs
  have locks; unfinished jobs have retries left. Without the second part
  nothing is known of the job a slot writes to, without the third a lock holder
  could finish a job twice. `AtMostOnce` adds the claim
  (`ClaimIsExclusive`: a sending run holds the only claim, and a mail that was
  sent leaves the claim behind until the job is quiet) and assumes what TLC shows
  necessary (`SafeEvents`): the SMTP server does not lie, the claim outlives its job, and its DEL is
  not sent again; the theorems that rest on it assume the same.
  `MailsOncePerRun` assumes neither: runs that may still mail are counted against what ended
  the others (attempts, stalls), so an SMTP server that misreports every send gets
  at most one mail per retry. Only runs left over from before an eviction come on top, and not
  for jobs without a key, whose ids never return.
  `OutcomesAreFinal` and `HandedJobsAreOwn` follow the same way.
  `MailedWhenCompleted` needs to know more of a calm pipeline (`CalmInv`): an active job is
  locked by the slot that runs it, and where that run is tells whether the job is claimed and
  mailed. `ImplementsPromise` is the safety part of the refinement: each action
  maps to one of `ReportPromise` or a stutter.
* `ReportServiceProofs`, about what is built on the pipeline. `ShutdownImplements`: without
  `stage` and `cut` a step of `WorkerShutdown` is one of `ReportJobs` or none, a forced exit
  its crash, so one mail per job, exclusive claims and the promise carry over
  (`ShutdownMailsOnce`, `ShutdownClaimsHold`, `ShutdownKeepsPromise`). `StallsForced`: an
  active job that no run holds the lock of was cut (`InGoodHands`). Polls only read
  (`StatusOnlyReads`), so the pipeline's theorems hold beside them (`StatusHandedIsOwn`,
  `StatusCompletedIsMailed`). `StatusInv` adds that a job's owner was handed its id and that
  what a handler has read it may answer then or later, for no id is taken back.
  `SummariesAgree` counts disjoint sets of rows.
* `EventStreamProofs`. At most once rests on `BatchesDisjoint`: what is in hand
  or handled lies behind the group's position, and in one batch. Positions
  (`PositionsInRange`) make that inductive under trimming and data loss.
  `AckedMeansHandled` is inductive once it speaks of the entry about to be
  acknowledged too. The four with the types are `StreamInv`. `ImplementsDelivery`
  needs that what failed or was lost lies behind the group and in nobody's hand (`StruckIsPast`).
  `NoEventForgotten` is the safety half of `KeepsDelivery`: an event that was not handled and
  has not failed or been lost is in a consumer's hands or still to be read, so what liveness
  adds is only that consumers go on. `FailedEventsDropped` states a divergence for every
  constant: an event whose handler threw is never given to a consumer again.
* `AuthTokensProofs`. A revoked token stays revoked, so a request that came in
  with one (`VoidIsRefused`) never gets past the look-up. `ExchangeInOrder` says what
  a refresh knows of its token at each step; `ReplacedRevoked` needs it and holds
  as long as database calls do not fail. Account rows only grow where
  the address is free.
  `EndedIsUseless` is about `Session` with any tabs and clicks: when a refresh ends a session
  the token it sent was of no use, since a 401 of a sound database is true and stays true.
* `AuthTokensProofs`, about `Session`. `HandsInv` says, for any tabs, which request each
  refresh, form and logout waits for and that nobody else does; it is inductive and
  makes each step one of `AuthTokens` or a stutter (`StepsOfTheApi`), which carries
  `ReplacedRevoked` over. The rest is about one tab. `PagesInOrder`: where the page is tells
  whether tokens are stored; a form is sent only when no call is open (`Patient`), or a
  late 401 would clear a new login (`SignedInTokens`). `RefusedForGood`: a 401
  of a refresh speaks of a token that stays unusable, since the lookups of a database that
  works tell the truth and the account exists (`OnlyUser`); hence `ForgottenUnusable`. `RunsAreFlights`: each
  exchange under way is the tab's one refresh, and `Unspent`: what it presents has no successor
  yet; a reload or a lost answer would start a second one beside it (`SuccessorIsOne`).
  `SurvivesBlips` assumes `Calm`: tokens expire, and calls, refreshes, logins and logouts are refused a
  connection, but no answer is lost. A refresh that fails leaves the tokens alone (`FailForNow`); what has to be
  shown is that none is ever answered 401:
  the pair of an answer not yet read is good (`PairsAreFresh`) and so is the stored one,
  except while it is exchanged or logged out (`StoredIsLive`), and no page is ever starting (`Quiet`).
* `TaskApiProofs`. `MayWrite`: past the look-up a request was allowed to write, and
  stays so because `user_id` never changes. `WasMade`: what is
  about to be announced was done and is not undone. Together with the types and
  the log they are inductive, and give the properties and the steps of `TaskLedger`.
  `ChangesAudited` covers the request that waits for Redis. `DeletedTasksRest`: a check made before the deletion lets no write through after it, for
  writes name the row and find none. `NoEventTwice`: a change is announced by who made it,
  and each change of a task has a version of its own (`NewsIsOwn`: what a request is to announce
  nobody else is, and nobody has, unless its own reply was lost); `EventsTrue` adds that it is true.
* `AuditChainProofs`. While processes write, each knows the end of its own chain
  (`KnowsItsEnd`) and no two share one, so a new line has its place and takes nobody's
  (`Writing`, `Untouched`). A change to the log is inductive the other way round: a log
  that was touched has a chain that is not whole, and a moved or truncated one has
  only whole chains. What is left is that `VerifyOk` says the same as `IsWhole` of
  every chain (`VerifierExact`). That sorting is possible is shown by giving each line its
  rank, the number of lines before it; that a line not in its place makes the
  walk stumble, by the first place where it does. `IntactLogVerifies` needs every request
  to have a user agent, as the run `audit_agent` shows; `DamageFound` does not.
  `TruncationUnseen` is the limit that `audit.js:25-27` names.
* `RateLimiterProofs`. The limit is not inductive. `LimiterInv` says that the counted
  requests of a key and window have distinct totals (`Distinct`), none above the
  counter (`Below`), and that every total up to the counter is the hit of a request or
  one whose reply was lost (`NoGaps`). The served ones then have distinct totals
  up to the limit, so there are at most as many; and below the total of a refused one
  lie as many hits as the limit allows. A restart and an outage begin new windows.
  `NothingSlipsThrough` adds that every served request was counted, so `FallbackBound` can
  say what the fallback costs: of a key, all stores together let through at most the limit
  times their number, one for Redis and one for each limiter of each process.
* `TaskBoardProofs`. `OrderInv`: calls are numbered; while the list is read no dialog is
  open and nothing is saved or deleted; at most one list, one save and one deletion are
  under way. `ControlsFollowCalls` needs all of it. `BoardInv` adds what the
  answers under way will do: `Converges` says that a task is shown right or that a save or
  deletion still to be answered makes it right, `Logged` that a deletion is in the log or in
  a read to come, and `NewAndUnseen` that a task just created is in no other call and no
  dialog, since without it the answer to a creation could undo a deletion. Then the form,
  where there is no behaviour: the texts it sends are trimmed, and trimming is idempotent,
  so the order of check and trim makes no difference; a date shown and meant
  again shows the same, so saving settles after one round.

Every safety property that a run checks is proved. Model-checked only are the liveness
properties, for which the prover has no rules (fairness and ENABLED), and what the runs
show of findings. No proof takes an induction over data: where one is needed
(the order and the walk of `AuditChain`) a set of places has a least element, which
arithmetic gives.
The theorems about one tab say so in their assumptions; with two, the code breaks what they
state (Divergences).

## Not modelled

Middleware that checks a signed token or a password, routing, configuration, logging and
metrics keep no state that a decision reads. Pages render the state of the hooks.
Deployment files and load tests are not part of the program. Partly modelled:

* Redis clients: `queue/connection.js` opens the connections of BullMQ, which is external.
* Start and shutdown: the graceful exit of `server.js` lets open requests finish before it
  exits; the modules of the API have its crash only, after which less is known.

Inside the modelled parts, left out are: the contents of reports (but for their figures),
filters and search, toasts, the HTTP statuses for malformed requests, the text of
mails and records, edits of a record's user agent. `TaskBoard` mounts once: in development `StrictMode`
(`main.jsx:7`) mounts every component twice, so both reads of the mount are sent twice there;
the build does not. Sign-up in the browser differs from a login by its endpoint only.

## Plan

Done, in this order: `ReportJobs` with its promise and proofs, `ReportStatus`,
`EventStream`, `AuthTokens`, `Session`, `TaskApi`, `AuditChain`, `RateLimiter`,
`TaskBoard`; then `WorkerShutdown`, the blocking read in `RateLimiter`, `EventDelivery` and
`TaskLedger` with their refinements, `TaskInput`, `ReportSummary`, and the theorems about
all of these, about `Session` and about `AuditChain`.

Next:

1. `EventStream` below `TaskApi`: one `told` set, from a task's change to the consumer's record.
2. The graceful exit of `server.js`: open requests against its ten seconds.

The runs are kept to a dozen, each with its own question: a new module shares an MC
module with a run of independent components, or takes the place of a run that proofs
have made superfluous (`auth_faults`, all of whose properties are proved).
