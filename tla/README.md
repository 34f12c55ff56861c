# CSVoyant in TLA+

CSVoyant turns the URL of a CSV file into a dashboard: an API stores a job and
answers 202, a relay hands it to a queue, a worker loads the file into
ClickHouse, and a browser shows the result. This directory holds TLA+ modules
translated from that code, TLC configurations that check them on small
instances, and TLAPS proofs for every size of instance. `PROJECT.json` lists
every run, theorem, hazard and finding with its place in the source.

    tlc -workers 2 -config MCOutbox.cfg MCOutbox.tla            # one run
    tlapm OutboxProofs.tla                                      # the proofs of a module

## 1. Inventory

| Component | State it keeps | Operations | Module |
|---|---|---|---|
| Shared domain (`crates/shared`) | none | job statuses and their transitions, the attempt limit, the job message, the queue topology | `Domain` |
| Job creation (`api/src/jobs/handlers.rs`) | rows of `ingestion_jobs` and `outbox` | `create_job` | `Outbox` |
| Relay (`api/src/jobs/relay.rs`, `publisher.rs`, `state.rs`) | an open transaction with its row locks, one AMQP channel | claim a batch, publish, stamp, commit | `Outbox` |
| Worker (`worker/src/consumer.rs`, `ingest.rs`, `repo.rs`, `clickhouse.rs`, `dashboard.rs`) | the job's row, its dashboard, its ClickHouse table, a delivery per prefetch slot | `run_job`, `handle` | `Worker` |
| Browser session (`frontend/lib/api.ts`, `auth.tsx`) | access token and user of a page, the refresh in flight, the refresh cookie | `api`, `refresh`, `logout`, `signIn`, restore on load | `Session` |
| Sessions (`api/src/auth`) | rows of `refresh_tokens` | register, login, refresh, logout | `Session` |
| URL validation (`validate_source_url`) | none | a name lookup, HEAD or a ranged GET, three tests of the answer | `Preflight`, `Source` |
| Reads (`get_job`, `get_dashboard`, `get_data`) | none | reads of three stores, one after the other | `Reads`, `Paging` |
| Dashboard generation (`worker/src/dashboard.rs`) | none | one query of statistics, choice of charts | `Dashboard`, `Source` |
| ClickHouse transport (`shared/src/clickhouse.rs`, `worker/src/clickhouse.rs`) | none | one exchange, and what its failure means | `Transport`, `Worker` |
| Job page (`app/jobs/[id]/page.tsx`) | status shown, the two requests of a ready job, a timer | poll, load, stop | `Reads` |
| Data table (`components/data-table.tsx`) | page, sorting, rows shown, requests in flight | turn, sort, receive | `Paging` |
| Account and admin endpoints, list of jobs, configuration, telemetry, rendering | | | not modelled |

How they interact:

    browser --HTTP--> API --one transaction--> PostgreSQL (ingestion_jobs, outbox)
                      relay --locks and stamps--> outbox
                      relay --basic.publish--> RabbitMQ ingestion.jobs --deliver--> worker
                      worker --statements--> PostgreSQL, ClickHouse
                      worker --publish attempt+1, then ack--> ingestion.jobs
                      worker --nack--> ingestion.jobs.dead
    browser --polls--> API --reads--> PostgreSQL, ClickHouse
    API --HEAD, GET--> the server of the URL <--fetch-- ClickHouse

Nothing but the outbox rows, the queue and the job's row connects the API with
the worker, and nothing locks a job: every guarantee comes from the order of
calls. What is hard about it:

* **Crashes and lost answers.** The relay may die between a publish and the
  commit of its stamp, the worker between any two calls; a statement may be
  applied although its caller sees an error; a publish may time out and be
  delivered all the same; a publish may return Ok and reach nobody.
* **Interleaving.** Several relays share the outbox; several deliveries, of one
  job too, run at once in a worker; several pages share one refresh cookie.
* **Retries.** The attempt counter travels in the message, the recorded one in
  the row; the retry is published before the failed delivery is acked.
* **Eventually.** A job whose client was told 202 must come to rest.

What makes each part correct, in a sentence: the outbox never loses a stored job
and duplicates one only after a fault; the worker leaves a job ready only with
exact rows and a stored dashboard, and never forgets one; what is read of a
ready job is what the worker left; the table shows the page it is on; the
dashboard's numbers belong to the columns they are shown under; the session is
never forked by rotation, and ends with a sign-out that revoked its live token.

## 2. The modules

**`Domain`**: `JobStatus` with `IsTerminal` and `CanTransitionTo`, messages as
`[job, attempt]`, and a queue as a bag of messages (`Put`, `Take`). No order is
assumed between messages: RabbitMQ reorders on redelivery. A job is a model
value; URLs, users and table names are left out, since nothing tells two of
their values apart.

**`Enqueue`**: what POST /jobs promises, whatever it is built from. Only a stored
job is acknowledged, only a stored job is handed over, and every stored job is
handed over at least once.

**`Outbox`**: `create_job`, the relay and the broker connection.

| Code | Model |
|---|---|
| the transaction of `create_job`, its commit, its early returns, the 202 | `BeginCreate`, `CommitCreate`, `AbortCreate`, `Answer` |
| `SELECT ... FOR UPDATE SKIP LOCKED LIMIT` | `Claim`; `Claimable` is pending and unlocked, `Oldest` the `ORDER BY` |
| the three arms of the publish | `PublishOk`, `PublishError` (ends the loop), `PublishTimeout` |
| `tx.commit`, an error of the transaction, process exit | `Commit`, `RollBack`, `Crash` |
| the channel of `AppState::connect`, with no confirm mode | `link`: "up", "half_open" (lost, not noticed: publishes return Ok), "down" (every publish fails) |

`claimed` is the rows a relay has locked, `stamped` those it updated and has not
committed: a rollback or a crash forgets both, the queue keeps its messages.

**`Worker`**: a task is a delivery in a prefetch slot, `pc` names its next call,
and every call to PostgreSQL, ClickHouse or RabbitMQ is one step, so any other
task may act between two of them. `Faults` chooses what PostgreSQL and
ClickHouse may do besides answering: fail, apply a statement and lose the reply,
or answer with a body that cannot be read. ClickHouse errors of both kinds are
always possible, and a failing statement may have had its effect, an INSERT part
of it. `LoseChannel` requeues what is unacknowledged while the tasks run on, as
they do until `main`'s `select!` ends the process; `Restart` is the
orchestrator.

**`Ingestion`** composes the two over one queue: here the duplicates of a message
are exactly those the relays make.

**`Session`**: a call of a page is idle, sent or waiting for the page's refresh;
a refresh is sent, redeemed, answered or rejected; the cookie a request carries
is the one at the time of sending, the one it sets appears when the reply
arrives. A token is a pair of its session and a number. Redeeming is one atomic
conditional UPDATE, issuing the next token another statement. Left out: other
browsers and users, expiry of refresh tokens by age, and a request that the
server handles after its page has gone (it counts as lost). A reply that gets lost
may have issued a token on the server and set the cookie all the same.

| Code | Model |
|---|---|
| `api`: the request, its answers, its replay | `StartCall`, `Succeed`, `Unauthorized`, `FailCall` |
| `refresh` of the page: one promise shared by all its calls | `inFlight`; `Settle` clears it and resumes every call that waited |
| POST /auth/refresh: the conditional UPDATE, then `issue_tokens` | `Redeem`, `Rotate`, `FailRefresh` |
| `signIn`, `signUp` (a login answered 401 is refreshed and replayed too) | `StartLogin`, `SignIn`, `RejectSignUp`, `Unauthorized` |
| `signOut`, POST /auth/logout | `StartSignOut`, `Revoke`, `FailSignOut`, `SignedOut` |
| the mount of `AuthProvider`, the expiry of the access token | `Init`, `Reload`, `Expire` |

**`Reads`** extends `Worker` with the pages that look at its jobs. A handler
reads the job's row and then a second store, in two steps with the worker's
between them; the owner's page asks only once it saw the job ready, another
client at any time (`Ask`), and a stranger is answered 404.

| Code | Model |
|---|---|
| `get_job` and `tick` in the page | `GetJob`; a failed request stops the page |
| `load_job_for_user` and the status test of the two handlers | `MayLoad`, `LoadedReady`, `LoadJob` |
| the second read: `SELECT config`, the rows | `ReadDashboard`, `ReadRows` |
| `Promise.all`, the timer, a new visit | `Answered`, `Poll`, `Visit` |
| the TTL of the table | `Expire` |

**`Paging`**: the window `get_data` answers with, and the table that asks for it.
`Offset`, `PageSize` and `Servable` are the handler's arithmetic. ClickHouse
orders rows no further than ORDER BY says, so `Windows` is a set: every set of
rows the positions may hold. Each click appends a request to `inFlight`, and
`Receive` takes any of them, so answers overtake each other. `raced` and `walk`
are history variables.

**`Preflight`** takes each call and each test of `validate_source_url` as a step,
for every way a server may answer: it may drop HEAD or reject it, ignore the
range of a GET, or not tell the length. The ranges of `is_blocked_ip` are one
class of addresses, "private".

**`Transport`** is what becomes of a failed exchange with ClickHouse: whether it
is retried and which reason is shown. A text is the set of phrases the code
looks for in it; it may quote another cause's phrase, and may not arrive. Two
readings of the code disagree about a timeout, and the model follows the code:
error.rs:8 lists "timeout" under `Retryable`, and one of the HTTP client is, but
clickhouse.rs:18 lets `max_execution_time` fire first, and the error ClickHouse then
reports has no signature in `is_transient`, so a file too slow for the limit fails
for good, under a reason of its own ("ingestion timed out").

**`Dashboard`** sends the three kinds of statements that describe a file
(DESCRIBE, the statistics, the top values of a bar chart). A type is the
sequence of its constructors, outermost first, so `Unwrapped` and `Classify` are
the code's peeling and prefix tests; a key of the statistics is a position and
an aggregate, which is what the code's alias encodes. A body may get lost, which
`ChHttp::run` takes for an empty one; `gaps` records where.

**`Source`** composes `Preflight` and `Dashboard`: only an accepted URL is read.

The `MC` modules hold what the instances need beside their cfg: symmetry sets,
the set of flights, the column types. Symmetry is used in runs without liveness
properties only. The modules also hold the mutants of
their operators, marked as such: each is a bug the code might have had, and some
property must tell it from the code.

## 3. The runs

Passing runs:

| Run | Question and bounds | Properties |
|---|---|---|
| `outbox` | Two relays, two jobs, a batch of two, two faults, one lost connection, fairness. | `StampedMeansDelivered`, `DuplicatesNeedFaults`, `PublishedIsFinal`, `ImplementsSafely`, `ImplementsEnqueue`, `TypeOK` |
| `reads` | An owner's and a stranger's page beside one slot that gets two copies of a message, two attempts, one restart, two rows of which a page shows one, fairness of the pages. | `ServedIsExact`, `ReadyCanRender`, `NothingMoreChanges`, `FollowsUntilSettled`, `ReadyIsExact`, `ReadsTypeOK` |
| `worker_concurrent` | Two overlapping tasks, two copies, two attempts, a lost channel, every store fault. | `ReadyHasDashboard`, `NeverForgotten`, `TypeOK` |
| `ingestion_faultless` | Two relays, two jobs, two slots, two attempts, no infrastructure fault; ClickHouse still fails. | `OverlapNeedsFault`, `ReadyIsExact`, `DeadLetterIsRecorded`, `AttemptsAreLimited`, `LifecycleOrRetry` |
| `ingestion_settles` | One job from POST to the end, one relay fault, one lost worker channel, failing statements, fairness. | `AcceptedSettles`, `NeverForgotten`, `OnlyStoredJobsRun`, `TypeOK` |
| `paging` | Tables of 0 to 5 rows; a page size below, at and above the limit of 2; offsets to 2, so the third page is refused; two columns, one with ties; two requests in flight; fairness of replies. | `OfferedIsServed`, `ShownIsAsked`, `SortedWalkIsComplete`, `TurnedToIsShown`, `TypeOK` |
| `source` | Every server, every schema of up to three columns of five types, every outcome of each statement. | `RefusedForCause`, `AcceptedFits`, `ConfigDescribesTable`, `ChartsFollowKinds`, `FailureIsUnderstood`, `SourceTypeOK` |
| `session` | Two pages, one of them with two calls, one sign-in beside a session from before, one rotation of each, one fault. | `OneLiveToken`, `NeverRacesItself`, `SignOutEnds`, `WaitersAreServed`, `TypeOK` |

Why the bounds suffice: rows and tokens interact only when two actors meet at
one of them, so two actors per shared thing (relays at a row, tasks at a job,
pages at a cookie) show every kind of meeting, and a second job or a third call
is the bystander. Five rows and pages of two are the fewest that have a full, a
partial and a refused page; three columns the fewest with one between two others. Faults are bounded by counters only so that the state
space is finite; two relay faults allow a duplicate of a duplicate, two restarts
a restart of a redelivery. What is also proved (section 5) needs no bound.

What is expected to fail, and does (`expect: violation`; each quotes the line of
the code it contradicts under "findings"):

| Run | What it shows |
|---|---|
| `outbox_lost_connection` | With no publisher confirms, one unnoticed connection loss stamps a row whose message reached nobody: the job stays queued for ever. |
| `outbox_closed_channel` | Nobody reopens the relay's channel, so after one lost connection every retry of every row fails until a restart. |
| `worker_failed_twice` | `is_ready` knows `ready` only: a duplicate delivery of a failed job runs it again. |
| `ingestion_duplicate_rows` | One relay crash makes two deliveries which overlap in the worker; both drop, both create, both insert into one table. |

Limits of the passing properties, each met while modelling:

* `LifecycleOrRetry` admits the retry, which moves a status from inferring or
  ingesting back to downloading, a step `can_transition_to` refuses; no caller
  consults it. It is for a PostgreSQL that answers: when the reply to the last
  `mark_ready` is lost, a ready job becomes failed.
* `AttemptsAreLimited` is for no restarts: a worker that dies in its
  backoff is redelivered the attempt it already counted.
* `NeverForgotten` of `Worker` is for one worker process. With two, a task of a
  lost channel may set back the status of a job that another worker finished.
* `ReadyIsExact` needs that no two tasks of one job overlap, which is what
  `ingestion_duplicate_rows` shows going wrong, and readable ClickHouse bodies:
  `count_rows` turns an unreadable one into 0. The runs check it without overlap and
  without failing PostgreSQL statements. With failing statements and lost replies it
  is proved: `RedeliveryIsExact` (any workers and slots, unless tasks of one job
  overlap), `JobStaysExact` (the same job by job) and `CalmIsExact` (why they do not,
  as long as no relay or channel fails).
* `NeverForgotten` counts a message in the dead-letter queue as somebody's: whether
  the row of such a job is finished is what `DeadLetterIsRecorded` says.
* `DeadLetterIsRecorded` needs `mark_failed` to succeed: `handle` discards its
  result (consumer.rs:106), so a job whose last statement fails is dead-lettered
  with a row that looks alive. `ingestion_faultless` therefore has no failing
  PostgreSQL statement.
* `reads` has none either: `mark_failed` sets any status, so a duplicate whose
  `is_ready` fails on its last attempt turns a ready job into a failed one.
* `ShownIsAsked` and `TurnedToIsShown` leave out a sorting changed with a request
  in flight: the headers stay enabled while rows load, and the older answer may
  arrive last.
* `SortedWalkIsComplete` is about a sort column without equal values. Each page is
  a query of its own; without an order, pages may repeat rows and miss others.
* `RefusedForCause` names the exception that a HEAD answered with an error status
  refuses the URL, although the comment at handlers.rs:326 gives servers that
  reject HEAD as the reason for the fallback, which a dropped connection alone
  reaches. `AcceptedFits` excepts the ranged GET, whose length is that of a byte.
* `ConfigDescribesTable` excepts the statistics whose body got lost, which the code
  takes for an empty answer.
* `OfferedIsServed` ties a refusal to the page asked for only while no two requests
  overlap; otherwise an earlier request's refusal may be the one on show.
* `FailureIsUnderstood` leaves open whether a timeout ClickHouse reports is retried
  (see `Transport` above). A text that quotes another cause may be explained by it,
  and an error whose text got lost is given up as "ingestion failed", overloads
  included.
* `SignOutEnds` is about sign-outs that revoked the live token. A refresh that
  overtakes a sign-out has spent the token the sign-out carries: the new one
  stays live (`ended` says "raced").

## 4. Fairness

Fairness is assumed in the specifications named `FairSpec` and `FairReadsSpec`.

* Weak fairness of a relay's claim, publish and commit: the loop wakes every
  POLL_INTERVAL at the latest, and PUBLISH_TIMEOUT ends a publish that hangs.
  The outcome of a publish is not assumed fair; what bounds failures is the
  bound on faults, that is, faults stop happening at some time.
* Weak fairness of a task's next call: each has a timeout (ClickHouse requests
  and INGEST_TIMEOUT_SECS) or is a statement that ends or fails.
* Weak fairness of delivery to a free slot (the broker) and of the restart of a
  worker that exited (the restart policy of the deployment).
* Weak fairness of each page's next step in `Reads` (a poll is answered, fails or
  times out, and a timer fires) and of a reply in `Paging`. Neither says that a
  request succeeds, nor which of two is answered first.
* None for clients: nobody must create a job or turn a page. `Session` and
  `Source` assume none.

## 5. The proofs

| Theorem | Statement |
|---|---|
| `OutboxProofs!TypeCorrect` | `Spec => []TypeOK` |
| `OutboxProofs!StampsFollowDelivery` | `Spec => []StampedMeansDelivered` |
| `OutboxProofs!DuplicatesAreFaults` | `Spec => []DuplicatesNeedFaults` |
| `OutboxProofs!ImplementsEnqueueSafely` | `Spec => ImplementsSafely` |
| `OutboxProofs!StampsAreFinal` | `Spec => PublishedIsFinal` |
| `WorkerProofs!TypeCorrect` | `Spec => []TypeOK` |
| `WorkerProofs!ReadyDashboard` | `Spec => []ReadyHasDashboard` |
| `WorkerProofs!Custody` | with a single worker, `Spec => []NeverForgotten` |
| `WorkerProofs!RedeliveryIsExact` | with readable bodies, `Spec /\ []NoOverlap => []ReadyIsExact` |
| `WorkerProofs!JobStaysExact` | with readable bodies, `Spec /\ []NoOverlapOf(job) => []ExactJob(job)` for each job |
| `IngestionProofs!TypeCorrect` | `Spec => []TypeOK` |
| `IngestionProofs!OnlyStored` | `Spec => []OnlyStoredJobsRun` |
| `IngestionProofs!NobodyForgets` | with a single worker, `Spec => []NeverForgotten` |
| `IngestionProofs!OverlapIsAFault` | `Spec => []OverlapNeedsFault` |
| `IngestionProofs!CalmIsExact` | with readable bodies, `Spec => [](Calm => ReadyIsExact)` |
| `IngestionProofs!CalmAttempts` | `Spec => [](Calm => AttemptsAreLimited)` |
| `IngestionProofs!CalmDeadLetters` | if no PostgreSQL statement fails, `Spec => [](Calm => DeadLetterIsRecorded)` |
| `IngestionProofs!CalmLifecycle` | if PostgreSQL answers, `Spec /\ []Calm => LifecycleOrRetry` |
| `ReadsProofs!PagesTypeCorrect` | `ReadsSpec => []ReadsTypeOK` |
| `ReadsProofs!ReadyPagesRender` | if `Serial` and PostgreSQL answers, `ReadsSpec => []ReadyCanRender` |
| `ReadsProofs!PagesStopForGood` | the same, `ReadsSpec => []NothingMoreChanges` |
| `ReadsProofs!ServedPagesAreExact` | the same and readable bodies, `ReadsSpec => []ServedIsExact` |
| `SessionProofs!TypeCorrect` | `Spec => []TypeOK` |
| `SessionProofs!NeverForked` | `Spec => []OneLiveToken` |
| `SessionProofs!SignOutIsFinal` | `Spec => []SignOutEnds` |
| `SessionProofs!NoneWaitsForever` | `Spec => []WaitersAreServed` |
| `SessionProofs!RacesOnlyOthers` | `Spec => []NeverRacesItself` |
| `SourceProofs!SourceTypeCorrect` | `Spec => []SourceTypeOK` |
| `SourceProofs!RefusalsHaveCause` | `Spec => []RefusedForCause` |
| `SourceProofs!AcceptedKeepsLimit` | `Spec => []AcceptedFits` |
| `SourceProofs!EveryColumnIsDescribed` | `Spec => []ConfigDescribesTable` |
| `SourceProofs!EveryKindIsDrawn` | `Spec => []ChartsFollowKinds` |
| `SourceProofs!FailuresAreUnderstood` | `Spec => []FailureIsUnderstood` |
| `PagingProofs!TypeCorrect` | `Spec => []TypeOK` |
| `PagingProofs!OfferedPagesAreServed` | `Spec => []OfferedIsServed` |
| `PagingProofs!SortedWalksAreComplete` | `Spec => []SortedWalkIsComplete` |
| `PagingProofs!ShowsWhatWasAsked` | `Spec => []ShownIsAsked` |

They hold for all finite sets of jobs, workers and slots, all sets of relays,
viewers, pages and calls, all schemas, tables, batch and page sizes, attempts and
numbers of faults; the constants' assumptions are `AttemptsAssumption`,
`OutboxAssumption`, `WorkerAssumption`, `IngestionAssumption`,
`ReadsAssumption`, `SessionAssumption`, `PagingAssumption` and
`DashboardAssumption`, each evaluated by the runs of its module. Every invariant
of the passing runs is the conclusion of one of these theorems.

The hypotheses some of them have are limits of the code, listed in section 3, and
are met by the runs that check the same property:

* *Readable bodies* is `"body_lost" \notin Faults`, *PostgreSQL answers* is
  `Faults \subseteq {"body_lost"}`: its statements neither fail nor lose a reply.
* `Calm` says that so far no relay faulted and no channel was lost. It is a state
  predicate, so `[](Calm => P)` covers every behaviour up to its first fault.
* `NoOverlapOf(job)` says that at most one task of the job is in the pipeline,
  `NoOverlap` that this holds of every job. Other jobs run beside it in as many slots
  as the prefetch gives. It is a hypothesis of `Worker`, whose input queue may hold
  any copies; `OverlapIsAFault` discharges it for the composition.
* `Serial` says that deliveries of a job do not overlap: one slot of one worker,
  with any redeliveries and restarts, or one copy and no lost channel, with any
  number of slots.

*Outbox.* `LockInv` is the inductive core: no row is locked by two relays
(`LocksExclude`), a locked row is pending, and a row to publish is not one
already stamped (`ClaimsAreOpen`), and links are up while no connection was
lost. Without the locks `DuplicatesNeedFaults` is not inductive: a second relay
could publish a row the first is about to stamp. `DeliveryInv` adds that
whatever is in the queue was stored, and counts: copies delivered, plus one if
the row is still owed, never exceed one plus the faults; a timeout, rollback or
crash makes a delivered row owed again and pays with a fault. The refinement
maps `CommitCreate` to `Store`, `Answer` to `Ack`, a publish that delivers to
`HandOver` and everything else to a stutter; it needs that acknowledged jobs are
stored and that rows to publish are.

*Worker.* `TypeInv` adds that a task about to republish has an attempt left, so
the message it publishes is one. `DashboardInv` adds that a task at `mark_ready`
has a stored dashboard behind it; dashboards are never deleted, so nothing
other tasks do disturbs it. `KeepsSafe` is what every step does for every single
job: one that is over or in custody, a queue or a task of the open channel having
its message, stays so. It rests on publishing before acking, and on `HeldInv`: what
was not acked on a lost channel is back in the queue. `ExactInv` says, per label,
what table and counts a task has already established. Tables, rows and dashboards
are per job, so only another task of the same job could change them (`StepExactOf`,
one job at a time; `ExactInv` is its conjunction over the jobs).

*One holder* (`LifecycleProofs`). `OneHolder` makes overlap a question of custody:
while no channel is lost, a job has one message or one active task, never two. A
retry is published before its delivery is acked, so the task that only has to ack
no longer counts as active; without that exception the invariant breaks at every
retry. The holder alone touches the job's row (`HolderAlone`), which makes the
rest local to it: `AttemptsInv` compares the recorded attempts with the attempt
of the message held, `FailedInv` says a job was marked failed before its message
is dead-lettered, `StageInv` that the row's status is the one of the task's last
call. `ExactInv` of the worker is kept wherever the tasks of a job do not overlap,
which `OneHolder` gives.

*Ingestion.* The composition has its own instances of the two modules, so
`IngestionProofs` first shows that a step of an instance is a step of the module
the lemmas are about. Each component then keeps its invariant beside the other,
since neither says more of the queue than that it is one (`QueueIsShared`). A job
is worked on only if stored because the API publishes messages of stored jobs only
(`StepPublishes`) and the worker brings no job of its own (`StepBringsNone`). No
job is forgotten because a stamp follows its message into the queue
(`StampsDeliver`), from where `KeepsSafe` carries it: the relay's and the worker's
guarantees meet in `CustodyInv`, for the jobs handed over. `CalmInv` joins the
other two: with no relay fault `DuplicatesNeedFaults` allows one copy of a
message, and a job whose message is not out yet has no holder and an untouched row
(`New`), so the publish that hands it over gives it its first holder.

*Reads.* `FinalInv` is what the pages rely on: nobody who still works on a job finds
it ready, so a ready job stays ready and its table, count and dashboard stay as
they are (`Kept`). A page that saw the job ready therefore reads its second store
as the first read promised (`PageReady`, `PageServed`), however many steps of the
worker lie between; only the TTL takes rows away, and the property says so.

*Session.* A session has one right to go on: its live token, or the refresh that
redeemed it and has not issued the next (`OneRight`). Issuing is safe because the
new token is numbered past all known ones (`TokensKnown`) and a sign-in has a
session of its own (`LoginsAreFresh`); a session ended by revoking its live token
has no right left (`OverIsOver`). Each alone is not inductive: `OneLiveToken`
breaks at a rotation unless the redeemed right excludes a live token. For waiting
calls, `RefreshRuns` says that the refresh a page waits for is in flight. `NoRace`
follows a spent token: the cookie holds one only while the refresh that spent it
is `Spending`, that is, has yet to deliver the next (`CookieIsRight`), and the
page starts no refresh until then. It needs that an answer on its way carries a
token nobody else has (`AnswersAreNew`), or its arrival could put a spent one
into the cookie.

*Source.* The preflight's answer is the one its URL gives (`AnswerIsOfUrl`), so a
verdict can be traced to the URL. `StatsOfTable` and `ChartsOfTable` say that the
statistics and charts are those of the columns described, or what a recorded gap
left of them; the aliases are distinct because they carry the position, and a
chart is of the first column of its kind because a non-empty set of positions has a
least element. `CleanErrors` gives the reason for each set of phrases, and
`ReasonsAreMentioned` that it is always the reason of one of them.

*Paging.* `OneRequest`: unless sorting was changed in flight, the table is loading
exactly while one request is out, and it asks for the page the table is on. For
the windows, `Division` and `Multiples` relate the page count to the offsets, so a
page within the count has a row, and the pages refused are those past the deepest
offset (`RefusedIsDeep`). That a refusal is about the page the table is on takes
`AskInv`: unless sorting was changed in flight, no other request is out.
Sorted by distinct values, `WindowRows` leaves one possible window, the rows whose
rank lies in it, and `WalkLeads` says that a walk that turned every page so far has
shown exactly the leading rows; counting them needs that the windows are disjoint.

Only model-checked: liveness (`ImplementsEnqueue`'s at-least-once part,
`AcceptedSettles`, `FollowsUntilSettled`, `TurnedToIsShown`), which needs ENABLED
and fairness, out of the prover's reach. The four expected violations are TLC's
alone as well: they are counterexamples, and one instance is enough.

## 6. Not modelled

The list of jobs, which polls on a plain interval; the filter of `get_data`, which
no page sends; account and admin endpoints, which touch no row a session or a job
reads; a registration whose first tokens cannot be issued, after which the user
signs in instead; redirects, which the HTTP client follows; password hashing and
JWT signatures (library code); escaping and parsing of SQL and JSON;
configuration, telemetry, health probes and rendering. Time has no clock in the
model: the backoff is a step that may take arbitrarily long, the access token
expires at any time. A file has one content: one that changes between DESCRIBE
and INSERT is not modelled.

## 7. Plan

What is left, in this order:

1. Proofs: `Calm` job by job, since a fault of a relay touches the rows it has
   claimed only; `ReadyIsExact` then holds of the other jobs beside it.
2. A relay that reopens its channel, once the code does: `AtLeastOnceDelivery` and
   the retry of a failed publish become passing properties.
3. The list of jobs and account operations.
