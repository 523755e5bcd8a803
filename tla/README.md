# Verification of the payment-processing service

TLA+ models of the service in `src/`, model-checked with TLC and partly proved
with TLAPS. Read `ProcessPayment.tla` first (the consumer), then
`CreatePayment.tla` (the API) and `OutboxPublisher.tla`, then
`PaymentSystem.tla`, which puts the three together.

## The system

| part | code | state it keeps | operations | what makes it correct |
|---|---|---|---|---|
| API: payment creation | `logic/payments/service.py` `create`, `api/payments/router.py`, `api/exceptions.py` | tables `payments`, `outbox`; Redis lock `idempotency:{key}` (30 s) | POST: lock, begin, select by key, insert payment, insert event, commit, unlock | one payment per key, one event per payment, answers that agree with the table |
| API: reading | `service.py` `get`, `list`; `EntityRepo.search` | none | GET one, GET pages of a filter | a 202 can be followed by a GET; a walk over the pages is complete as far as it can be |
| Outbox publisher | `workers/outbox.py`, `infra/db/repos/outbox.py` | rows of `outbox`; one open transaction with its row locks | lock a batch, publish, mark published or failed, commit; sleep; roll back and exit | no copy without a fault, outcomes earned and final, every event published, on time |
| Consumer | `logic/handlers/processing.py`, `logic/middlewares/retry.py`, `consumers/` | one task per delivery; row of `payments`; Redis lock `payment:{id}:process` (120 s) | lock, load, charge, record, POST webhook, stamp, unlock, republish or not, ack or reject | one processor per payment, charges accounted for, truthful webhooks, no payment forgotten, retries end |
| Redis lock | `infra/redis/lock.py` | key -> token, TTL | acquire, blocking timeout, release, expiry | mutual exclusion while no holder outlasts the TTL |
| Broker topology | `infra/broker/topology.py` | queues `payments.new`, `.retry`, `.dlq`, bindings, dead-letter links | declare, bind, publish, deliver, ack, reject, expiry, requeue | nothing acknowledged is needed again; no message meets a missing binding; bounded delays |
| HTTP client | `infra/http.py`, `logic/webhooks/service.py` | none | POST | retryable, permanent and unexpected errors told apart |
| Repositories and transactions | `infra/db/repos/base.py`, `exceptions.py`, `infra/db/connection.py` | a context variable per task, the engine's pool | connection, transaction, statements, error mapping | one connection and one transaction per outermost block, none lost, none shared |
| Migrations and deployment | `0001_initial.py`, `env.py`, `entrypoint.sh`, `docker-compose.yml`, `Makefile` | catalog, version table, containers | up, migrate, serve, die, down, downgrade | nobody serves without the schema; nobody sees or leaves half of it |
| Assembly | `di.py`, `manage.py` | the objects of each process | resolve a root object | the retry middleware is wired; servers are up before they are needed |
| Helpers | `logic/utils.py` | none | `exponential_backoff_seconds`, `normalize` | the backoff sequence |
| Auth, schemas, settings, logging, signature | `api/auth.py`, `api/payments/schemas.py`, `infra/config.py`, `infra/logging.py` | none that changes | | |

How they interact: `create` commits a payment and its event in one transaction;
a publisher reads the event, publishes it to `payments.new` and marks the row;
the consumer is triggered by the message and decides by the payment's row alone;
a failed webhook goes round `payments.new.retry` with a growing
`x-retry-count`; whatever else fails goes to `payments.new.dlq`. The parts share
PostgreSQL, Redis and RabbitMQ and nothing else.

What is hard: any call may fail after it took effect; processes die between
steps; messages are delivered again, also while the first delivery is still
being worked on; locks expire by time; processes start, migrate and declare
queues in any order; and the order of acknowledgement, republish, commit and
unlock decides what a failure costs. `PROJECT.json` lists these hazards with
their lines and the properties that watch them.

## Modules

| module | models | uses |
|---|---|---|
| `Broker` | the queues, dead-lettering, TTL, ack / reject / redelivery | |
| `RedisLocks` | `RedisLocks.acquire` and the redis-py lock | |
| `HttpClient` | `HttpClient.post` | |
| `ProcessPayment` | the consumer | the three above |
| `ConsumerLedger` | what went wrong, counted: what is done twice and why | `ProcessPayment` |
| `IdempotentStore` | abstract: what POST promises | |
| `CreatePayment` | `PaymentsService.create` up to the HTTP status | `RedisLocks`, refines `IdempotentStore` |
| `OutboxPublisher` | the publisher processes and their transactions | |
| `PaymentSystem` | the three services over one database and one broker | `ProcessPayment`, instances of `CreatePayment` and `OutboxPublisher` |
| `Backoff` | `exponential_backoff_seconds` | |
| `OutboxSchedule` | when outbox events are tried, in seconds | `Backoff` |
| `RetryQueue` | how long messages stay in `payments.new.retry`, in seconds | `Backoff` |
| `Delays` | both on one clock | `RetryQueue`, instance of `OutboxSchedule` |
| `Migrations` | `entrypoint.sh` and alembic in three containers | |
| `Topology` | `declare_topology`, statement by statement, while messages flow | |
| `Assembly` | what the container of `di.py` builds for each process | |
| `Deployment` | `docker compose` from up to down | `Topology`, `Assembly`, instance of `Migrations` |
| `DbSession` | `BaseRepo.connection` and `transaction` over the pool | |
| `Listing` | the pages of GET /payments while rows change | |
| `*_proofs` | theorems about the module they are named for | TLAPS |
| `MC*` | symmetry sets, for TLC | the module they are named for |

### Correspondence with the code

A task, request or process takes one step per awaited call; the code between
two awaits cannot be interleaved in one event loop and is part of the step.
`pc` names the call that comes next.

**ProcessPayment.** A worker is one handler task. `Receive` is a delivery;
`AcquireLock` / `LockTimeout` the entry of the lock's context manager; `Load`
the SELECT and the branch on the status; `Charge`, `RecordOutcome`,
`PostWebhook`, `StampDelivered` the awaited calls of `execute` and
`_deliver_webhook`; `ReleaseLock` the exit of the context manager, whose
`LockNotOwnedError` replaces the body's exception; `PassThrough` and `Republish`
the two results of `RetryMiddleware.after_processed`; `Settle` the ack or reject
of `AckPolicy.REJECT_ON_ERROR`. The `*Fails` actions are the same calls raising,
each having taken effect at the server or not. `Crash` kills all tasks at once
and returns their messages; `ConnectionLost` returns the messages under running
tasks, whose later ack then reaches nobody. `charges`, `lost`, `posts`, `reported` and
`overtaken` are history variables that no action reads; `overtaken` counts, for
each payment, how often its lock's TTL ran out while a task held it.

**CreatePayment.** A request holds one Redis lock and one transaction. Rows are
visible to others at `Commit` only; `InsertPayment` waits for an uncommitted row
with the same key and then meets the unique index. The exception handlers turn
each way out into 202, 409 or 500. A payment is named after the request that
inserts it, so "which payment" can be compared across requests. `Promise` maps
the state to `IdempotentStore`: the committed rows are the book, the requests
that have ended are the answers.

**OutboxPublisher.** A process has the rows of its batch locked until it commits
or goes down; `written` is the batch as its own transaction sees it. An
exception in `mark_published` reaches the handler's `mark_failed`, which runs in
the aborted transaction and raises too: that is `UpdateFails`, which ends the
process as `run` does.

**PaymentSystem.** The consumer's module extended by the two others, joined where
the code joins them: the rows `create` commits are the consumer's `payments` and
the publishers' `outbox`; a publish the broker accepts, answered or not, is a
message. All components draw on one budget of faults.

**ConsumerLedger.** Every step is a step of `ProcessPayment`; `Entered` compares the
state before and after it. A task that leaves `stamp` with the row not stamped has
lost the stamp; a message that goes from a task back to `payments.new` regains what
its header leaves it.

**DbSession.** A block is one `async with` of `connection` or `transaction`; the
outermost one of a task takes a connection and begins a transaction, the others
join it. `conn` is the context variable. A failing or cancelled body leaves all
blocks around it.

**Deployment.** `Compose` (Migrations) has one transaction of alembic per
container: `ReadHeads`, `EnsureVersionTable`, one `Statement` per object,
`Commit`. A container that serves builds the objects `di.py` gives its root
(`Assemble`: the root, what its provider asks for, and so on; six steps reach
`Settings`, which the assumption `Resolved` has TLC confirm); publishers then
declare the topology before they publish, the
consumer subscribes before it declares (`Topology`). `Start` waits for the
servers and containers of `depends_on`. `Down` keeps what PostgreSQL has in its
volume and empties RabbitMQ: its data directory carries the node name, which comes
from the container's hostname, and `docker-compose.yml` sets none, so a new
container does not find the old directory although `rabbitmq_data` still has it.
Messages stored at that moment are `gone`; their events stay `published` and
their payments pending. No document says what `make down` keeps, so that is not
reported as a disagreement. What depends on it is `NothingDropped`: everybody has
to declare again before publishing.

**Delays.** Time is a number of seconds. The publisher and the broker are prompt:
time does not pass while one of them has something to do. The publisher looks
again at once after a batch and after `PollInterval` when there was none; an
event the broker accepts enters `RetryQueue`, whose messages may fail any number
of times up to the limit.

**Listing.** Every page is one SELECT. Ids are numbers in the order of the UUIDs,
created in any order. `seen` and `returned` are the payments and the number of
rows the walk has returned; `moved` records what entered and left the filter
during the walk.

**Abstractions.** Amounts, texts and payloads are left out, as is logging. A
request body is what `_payload_matches` compares. In `ProcessPayment` the order
of a queue is left out because nothing limits the number of handler tasks, so
order has no consequence there; `RetryQueue` has it. Outside `Delays`, time
appears as "the TTL ran out" and "the event became due". RabbitMQ, Redis,
PostgreSQL, alembic, dishka, httpx and FastStream are not part of the repository;
they are modelled from how the repository uses them and marked `external`.

**Locks expire by time.** `HoldersMayStall` says whether a holder can outlast its
lock's TTL. With 120 s against a gateway of 5 s and a webhook timeout of 5 s it
takes a stalled process or database for that to happen, but nothing rules it out,
so every run of the consumer and of the whole system has it TRUE. Only `create` has
it FALSE: that `CreatePayment` implements `IdempotentStore` is true only as long as
no request outlasts its 30 s lock, which `doc_replay_conflict` shows.

## What the runs show

| run | question | result |
|---|---|---|
| `consumer_faults` | one payment, an event published twice, two tasks, a fault of any kind, locks that may expire under their holders | `OneProcessorPerPayment`, `ChargeAccounting`, `WebhookTruthful`, `NoSilentLoss`, `AttemptsAccounted`, `ResendsExplained`, `AttemptsExplained`, `StatusFinal`, `TypeOK` hold |
| `create` | four requests for one key, two bodies, two faults | `CreatePayment` implements `IdempotentStore`; `AcceptedIsDurable`, `OneEventPerPayment`, `TypeOK` hold |
| `outbox` | three publishers, two events, two faults, no restarts | `OutcomesAreEarned`, `DuplicatesNeedFaults`, `OutcomesAreFinal`, `TypeOK` hold, and `EveryEventPublished` |
| `system` | two requests for one key, a publisher, two consumer tasks, one fault anywhere, both kinds of lock may expire under their holders | `NothingStranded`, `OnlyCommittedPayments`, `OneChargePerKey` hold |
| `system_liveness` | one request, all services, one fault, restarts, locks that may expire under their holders; one refused publish makes an event failed | `CommittedIsSettled`, `QueuesDrain` hold |
| `deployment` | three containers, one event, two crashes, downs (which empty the broker) and downgrades | `NothingDropped`, `SchemaBeforeServing`, `NoPartialSchema`, `RetriesAreWired`, `FailuresAreRaces`, `NobodyWaitsForever` hold |
| `delays` | two events, outages and retries over 12 s | `DelayBounded`, `NotBeforeBackoff`, `FailureNeedsLongOutage`, `TriedOnTime` hold |
| `sessions` | three tasks, two connections, nested blocks, one fault | `ConnectionsExclusive`, `AllOrNothing`, `NoConnectionLost`, `PoolNeverStuck`, `TypeOK` hold |
| `listing` | four payments, every filter and page size | `SkipsNeedLeavers`, `RepeatsNeedEntries` hold |
| `doc_replay_conflict` | README: 409 is for a different payload | violated when the lock expires: the unique index answers 409 to an identical one |
| `doc_up` | Makefile: `up` brings all services up | violated on a new database: two containers migrate at once, the second fails and stays down |
| `doc_retry_ttl` | README: an expired message returns to `payments.new` | violated: a 1 s retry behind a 5 s one waits for it |

Some of these need a word more.

- `ChargeAccounting` is the precise form of the comment in `execute` that admits a
  double charge: every successful charge is in the row, about to be recorded, or
  in `lost`, and only a crash or a failed UPDATE between charge and record adds
  to `lost`. Like `OneProcessorPerPayment`, `WebhookTruthful` and `StatusFinal` it
  is exact until the payment's lock expires under a task (`InTime`); no document
  claims they survive that. What does survive is its second half: each such expiry
  costs at most one more charge, in whatever order the late tasks go on.
- `ResendsExplained` and `AttemptsExplained` say what else is done twice and why. A
  receiver that has acknowledged a webhook gets it again only for an expired lock or
  a stamp that was not written, and once for each. A redelivered message, whose
  `x-retry-count` has not grown, costs at most the attempts it has left: this is
  what a crash loop costs per crash, not that it ends.
- In `NoSilentLoss`, leaving an expired lock raises `LockNotOwnedError` in the place
  of the error that would have been retried, and the message goes to the DLQ. A
  release that swallows it instead is the mutant that loses the payment.
- `CommittedIsSettled` has three ways to end: done, a message in the DLQ, or an
  event that is `failed` in the outbox because its publishes were refused
  `MAX_PUBLISH_RETRIES` times (`workers/outbox.py:86`). The last payment stays
  pending; the row is the only trace of it. All three are reached in the run.
- `EveryEventPublished` says that a pending event ends published or has been
  refused `MaxPublishRetries` times, without any restart as long as one process
  survives. What such a failed event means in time is `FailureNeedsLongOutage`:
  refusals spread over the sum of the backoffs, 156 s with the program's limit.
- `DelayBounded` is what remains of the README's retry delays with head-of-queue
  expiry: an expired retry may wait behind a longer one, but never longer than
  the longest delay of all, because what is in front of it came earlier.
- `FailuresAreRaces` says what `doc_up` costs: a container whose start-up fails
  with nothing wrong found the schema committed by another, so starting it again
  helps, also after crashes and downgrades.
- `SkipsNeedLeavers` bounds what offset paging over random ids can miss: only as
  many payments as left the filter during the walk. Without a status filter, or
  with a final status, nothing leaves and the walk is complete.

Every property of a passing run has a mutant of the code under `PROJECT.json`
`mutants`, kept next to the definition it mutates, that violates it. `TypeOK` of
`Listing`, `Migrations` and `OutboxSchedule` documents the variables and is in no
run; that of `RetryQueue` is a theorem, the others are part of the inductive
invariants.

### Other disagreements met while modelling

They follow from single lines and need no run: `CONSUMER_PREFETCH` (README.md:310)
is read into `settings.consumer_prefetch` and used nowhere; a delivery is given
up when `x-retry-count + 1` reaches `PAYMENT_MAX_RETRIES` (`retry.py:61-64`),
while README.md:117 compares `x-retry-count` itself; and an identical repeat is
answered 202, the fixed status of the route (`router.py:27`), where README.md:156
and `tests/test_idempotency.py:10` say 200.

### Bounds

`MaxPublish` (publishes of one event in `ProcessPayment` alone), `MaxFaults`,
`MaxCrashes`, and the number of message identities `MsgIds` bound a behaviour;
the history variable `posts` saturates at `MaxPosts`, one above what
`AttemptsAccounted` or `AttemptsExplained` allows (assumptions `PostsAreSeen`,
`LedgerSeesPosts`), so that a retry cycle
that never ends is a cycle of states; `MaxRetries`, `MaxPublishRetries` and
`BatchSize` are the program's own limits with small values. An action that needs
a free message identity waits for one. In the consumer each event has one live
message plus at most one retry copy stored by a publish that raised or was
followed by a crash, so two publishes and one fault need three identities. With one publish, two
faults and the codes 0 and 204 it holds too and takes longer; for every number of
both, see the theorems. In `system` there are two identities and one attempt per event, which
leaves the retries to `consumer_faults` and `system_liveness`: the properties of
`system` are about the places where the services meet. In `system_liveness`
`MaxPublishRetries` is 1 so that the one fault is enough to reach a failed event;
refusals that are retried are in `outbox`. Two
tasks are enough for every conflict over one lock, and one payment is enough
where payments do not interact: they share neither lock nor row. HTTP codes 0,
204, 404 and 500 stand for no answer, success, a permanent and a retryable error,
1 for an unusable URL, whose exception is not retried; a run has those of them that it
can tell apart (0, whose request may have arrived or not, includes what 500 does). Four requests for one key
let one hold the lock, one find its row, and one of each body wait; keys do not
interact. Three publishers with two faults leave one that survives. In `delays`,
`MaxTime` lets an event use up its publish attempts or its retries (1 s, 5 s)
and both overlap. In `sessions`, more tasks than connections, and two levels of
blocks so that a nested one could ask for a second connection. In `deployment`
one publisher service, as in `docker-compose.yml`, and two crashes, so that two
containers can die in the middle of the same migration; the theorem about the
topology has any number. `CHECK_DEADLOCK` is off where the bounded systems
really stop: when everything is published and settled, nothing is enabled.

### Fairness

`PaymentSystem!SystemFairness`: publishers and tasks keep running (asyncio schedules a
ready coroutine, and every awaited call has a timeout or ends); a message in
`payments.new` is delivered while a task is free; TTLs and backoffs elapse; and
a dead publisher or consumer is restarted. The last is an assumption about the
operator: `docker-compose.yml` has no restart policy. Nothing makes clients ask
or the API answer, and nothing forces faults, a successful charge or a
successful webhook. Weak fairness is enough everywhere except in `DbSession`,
where code that joins inner blocks finitely often is a strong fairness of
leaving the outermost one. `OutboxPublisher!FairSpec` promises only that
processes that are up run and that backoff elapses; restarts are not promised.
`DeploymentSpec` promises only that a container that is up takes its next
migration step when PostgreSQL lets it.

## What is proved

For every value of the constants that satisfies the modules' assumptions:

**Consumer** (`NoneIsFresh`, `LockValues`, `ConsumerConstants`).
`ProcessPayment_proofs` proves

- `TypeCorrect`: `Spec => []TypeOK`. `TypeOK` alone is not inductive: a task uses
  its message's payment as an index. `Typed` adds that busy tasks and stored
  messages refer to payments.
- `MutualExclusion`: `Spec => []OneProcessorPerPayment`. Inductive with `LockInv`:
  the tasks in the handler's body that do not have their payment's lock are at most
  as many as its expiries under a task. Only `LockTtl` can make a task late, and one
  at a time (`LateStep`), because a lock is taken only when it is free.
- `NothingForgotten`: `Spec => []NoSilentLoss`, with no assumption about time.
  The induction needs `TaskInv` (a task leaves the handler without an exception
  only when nothing is left to do) and `DeliveryInv` (broker and task agree on
  who works on what); `RowsGrow` says that what is done stays done.

`TruthfulWebhooks`, `OutcomesFinal` and `ChargesAccounted` follow from `TimelyInv`:
type correctness, `TaskInv`, `LockInv` and `OutcomeInv` (while the lock holds, the
status a task has read is still the row's, and what was reported is that status).
Most actions are `Quiet` there; the seven task steps that are not are `Local`, and
`LocalStep` and `LocalAccount` turn mutual exclusion into the statement that only
the task and the payment of the step need to be looked at. The bound on the charges
after expiries has an invariant of its own, `ChargeInv`: until an outcome is recorded
every charge is lost or about to be recorded; from then on only the tasks that have
loaded the row as pending still charge, and `Crowd` shows that beside one of them
there are at most as many as there were expiries, since all but the holder are late.
None of these theorems assumes anything about time.

`AttemptsCounted` (`Spec => []AttemptsAccounted` when `MaxRetries > 0`; with 0 the
first attempt is still made, so the bound does not hold) is about a whole history. While there has been no fault, every copy of
an event, in a queue or under a task, stands for the attempts its
`x-retry-count` leaves it; `Budget` says that posts made and attempts left never
exceed `MaxRetries` per publish. A step moves at most one copy, so the sums are
compared by cardinality and no induction over data is needed; `Single` says that an
event published at most once has one copy, and that the copy's header tells how many
posts were made. `CalmInv` holds both while `faults = 0`.

**Payment creation** (`CreateConstants`, `LockValues`). `CreatePayment_proofs`
proves `TypeCorrect`, `Durable` (a 202 names a committed payment with the key and
body of the request) and `EventWithPayment` (one event per committed payment and
no other), with locks that may expire under their holders: the invariant says
nothing about the lock, only that a request with an uncommitted row is alone with
its key, which the unique index ensures. It also proves `ImplementsStore`: if no
request outlasts its lock, `Spec => ImplementsIdempotentStore`. There the lock
matters: `Guarded` says that a request inside holds its lock, so the row its
SELECT did not find is still missing at its INSERT, and a 409 can only mean
another body. `COMMIT`, answered or not, is the store's `Create`; the end of a
request is its `Answer`; every other step is invisible. `doc_replay_conflict`
shows that the assumption is needed.

**Outbox** (`OutboxConstants`). `OutboxPublisher_proofs` proves `TypeCorrect`,
`OutcomesEarned`, `DuplicatesCounted` and `Final` for any number of events,
publishers and faults. The counting theorem relates a row's copies, the batch that
holds it and the faults so far; that the row locks keep batches apart
(`DisjointBatches`) is part of the invariant.

**The system** (`SystemConstants` and the consumer's assumptions).
`PaymentSystem_proofs` proves `NeverStranded` (the event of a committed payment that
is not done is pending or failed in the outbox, or a message carries it, on its way
or in the DLQ), `OnlyCommitted` (nothing is published, charged, reported or sent for
a payment the database does not have, and a 202 names one it has) and `ChargedOnce`
(for each key one payment is charged, once, and once more per lost charge and per
lock that expired under a task of the consumer; the API's holders may stall too). `SystemInv` is the
consumer's invariant for a table that grows, with `ApiInv`, `OutboxInv`,
`TablesAgree` (the services mean the same rows) and `Untouched` (nothing is known of
a payment before its commit); `ChargedSystem` adds `LockInv` and `ChargeInv` for
the third theorem. `ProcessPayment_proofs` is extended, so
the consumer's lemmas are cited; those of the two other services are reached through
INSTANCE, which the provers cannot cite, and what is needed of them is proved again
for the composed state.

**Time** (`DelaysConstants`, `BackoffGrows`). `Delays_proofs` proves, for the retry
queue alone, `TypeCorrect` and `WaitBounded`: `Spec => []DelayBounded` for any
number of messages and any backoff bounded by `Longest`. Inductive with
`InOrder`: the queue is in order of publication, and time passes only while its
head is not expired. Under `DelaysSpec` it proves the same bound
(`WaitBoundedFromOutbox`), `OutagesSurvived`, `DueEventsTried` and
`RetriesArePatient`. The invariants are `Waiting` (the queue), `Scheduled` (an
event's attempts so far and the backoffs between them, which gives the length of
the outage it has seen) and `Watched` (the publisher looks again before an event
can be late). `OutageSurvived` is the closed form of the geometric sum of the
backoffs. `BackoffGrows` states the one arithmetic fact used, that a backoff is
five times the one before; TLC evaluates it, and the provers have no powers.

**Deployment** (`TopologyConstants`, `DeploymentConstants`). `Deployment_proofs`
proves `NeverDropped` about the topology alone: for any number of publishers,
messages and crashes no message meets a missing binding, because the broker has no
message before some publisher has declared everything (`MessagesComeLast`), and
declarations are in order (`DeclaredInOrder`). For the whole deployment and any
number of crashes, downs and downgrades it proves `DeploymentNeverDrops`,
`ServesWithSchema`, `SchemaIsWhole`, `FailuresOnlyRace`, `ServersUp` and
`RetriesWired`. The invariant about migrations is `MigrationInv`: the version row
stands for the whole script and its absence for none of the tables (`CatalogInv`),
and a container sees everything before the statement it is at (`Sound`). A
statement then fails only on a name that somebody else has committed
(`FailureIsRace`), since the script's names differ and the table of an index
comes before it. `Waited`, `Assembled` and `Handled` connect containers, servers,
objects and messages; what `di.py` builds is computed from the providers
(`BuiltIs`). `ServersUp` compares `depends_on` with `di.py` and is in no run.

**Sessions** `Exclusive`, `Atomic`, `Conserved` and `TypeCorrect`, for any number
of tasks, connections and nesting, by the invariant `Inv` of `DbSession`.

**Listing** (`ListingConstants`). `Listing_proofs` proves `SkipsBounded` and
`RepeatsBounded` for any number of payments and any page size. The argument counts
rows on either side of the offset: a row that enters the filter pushes at most one
row over it, a row that leaves pulls at most one back (`Entry`, `Leaving`,
`OneCrosses`, because no two rows have one place), and a row moves once, since
outcomes are final. `Passed` and `Counted` state the two sums; `LastPage` shows
that a page that is not full leaves nothing behind it.

Every invariant and every action property of a passing run is stated by one of
these theorems, except the two of `ConsumerLedger`. Model-checked only: those
two, the liveness properties (`EveryEventPublished`, `CommittedIsSettled`,
`QueuesDrain`, `NobodyWaitsForever`), `PoolNeverStuck` and the documented claims
that the `doc_` runs refute. Liveness under fairness, ENABLED and induction over
data are out of reach of the provers used; where a definition folded over data, it
is written as a set or a closed form instead.

## Not modelled

- `normalize` and the HMAC signature: pure functions of one value, without a
  consequence for any state.
- The API key check, request and response schemas (422, 401): rejected before any
  state is touched.
- Settings and logging: settings that matter are CONSTANTS.
- The offline mode of `env.py`, which prints SQL; `RUN_MIGRATIONS=false`.
- The filter suffixes of `_filter_expression` (`_gt`, `_in`, ...), which no caller
  uses.
- Servers that die, or lose what they have stored while they run; `make clean`,
  which removes the volumes; `make restart`, which keeps the containers and is a
  crash of all processes.
