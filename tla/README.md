# Formal model of kafka-nest-playground

TLA+ specifications of the order pipeline in this repository: NestJS services
(and one Go service) that exchange events over Kafka, with PostgreSQL as the
place where every delivery guarantee is made. TLC checks the modules on small
instances; TLAPS proves every safety property of the passing runs, and five
refinements, for every size.

Paths below are relative to the repository root.

## 1. The system

    HTTP -> gateway -> order-service --order.order-events--> risk-service
                        |   ^   ^                               |
                 outbox |   |   +------risk.risk-events---------+--> payment-service
                        v   |                                          |
                      Kafka +----------payment.payment-events----------+
     retry-5s / retry-30s / retry-5m topics, dead-letter.events <- every consumer runner

A business change and the event that announces it are committed in one
PostgreSQL transaction (outbox); replicas publish the rows; consumers remember
what they did in an inbox or in a marker table; failing handlers send copies
of a record through retry topics to a dead-letter topic, which order-service
stores and lets an operator send again.

### Inventory

| component | state | operations | what makes it hard | what makes it correct |
|---|---|---|---|---|
| Transactional outbox (`packages/outbox`) | table `outbox_events`: status, attempts, next_attempt_at, locked_by, locked_until; in each replica the flag `isPublishing` and the batch in hand | create row, findPublishable (lease), publish, markPublished, markFailed | several replicas; the mark is a second step after the send; leases run out; a mark goes by id, not by lease | one holder per row; a mark only after a delivery; one copy per event unless something really went wrong; every event gets out |
| Outbox administration (`order-service/.../outbox-admin`) | edits the same table | retryOne, retryFailed, ignore | works against replicas that hold rows | leases and withdrawals survive the commands |
| Technical retention (`.../retention`) | deletes from `outbox_events`, `processed_kafka_events`, `kafka_consumer_inbox` | three batched deletes by age | trusts the status it reads | nothing still needed is deleted |
| Durable inbox (`packages/kafka/src/inbox`) | table `kafka_consumer_inbox`: status, result, lock token, locked_until | claim, prepare, savePrepared, effect, markCompleted, release | the lease is never renewed; the effect is outside the database; every await can fail after having taken effect | one result per event, completed only after the effect, effect once unless a failure was unrecorded; never lost between retry topics, completed or dead-lettered in the end |
| Consumer runner, retry policy, dispatcher (`packages/kafka/src/consumer`, `retry`) | topics and offsets; headers x-original-topic, x-retry-count | subscribe, eachMessage, decideFailure, dispatch, dead-letter | retry topics are shared by all groups; dispatch and commit are separate | no event is lost, copies end, headers tell the truth |
| Order lifecycle (`order-service/.../orders`) | `orders`, `processed_kafka_events`, `outbox_events` | create, processLifecycleEvent, cancelOrder | concurrent sessions on one order; results arrive out of order, twice, or re-issued by an operator | one end per order, announced once and truthfully; confirmed only when approved and authorised |
| Idempotent create (`orders.repository.ts`) | `order_create_idempotency_keys`, `orders`, `outbox_events`; no job deletes keys | createPendingOrderWithOutboxIdempotently, readCreateOrderIdempotency | two creates with one key, open at once, with the same body or another; lost answers | one order per key, a key exactly with its order, true answers |
| Dead-letter queue (`.../dlq`) | `dead_letter_events` with status and version; `dlq_audit_log` | capture, reprocess, ignore, retention | two operators; stale versions; redelivery after retention | one resolution per record, a copy in the outbox exactly for REPROCESSED |
| Risk and payment services (TS) | their own inbox | one answer per event | redelivery | one result per incoming event |
| Notification service | its inbox | deliver notifications | as above | as above |
| Risk service in Go | the group's offset; a batch in hand | poll, publish, CommitRecords | a failed record is skipped and later committed past; crash, failed commit and rebalance between answer and commit | every order answered or its error logged, in log order |
| Admin security | counters per window, in memory or in Redis over one pipelined socket; in the client `connectPromise`, the pending commands and the receive buffer | guard, increment, connect, onData, listeners of the socket | replies are matched by position; calls meet a connection that is dialled, greeted, broken or closed | every call settled once with its own reply; closed when in doubt |
| Admin audit, metrics, lag monitor | log rows, gauges | insert, scrape | none that reaches other state | nothing depends on them |
| Gateway | none | HTTP to gRPC; passes Idempotency-Key and a hash of the body | none | stateless translation |
| Producer, codec, Kafka adapters, contracts, config, tracing | connections | encode, send | I/O | seen as publish and deliver |
| Placeholder services (catalog, identity, analytics-go, pricing-go) | none | none | no code yet | nothing to check |

Interactions: the order lifecycle writes outbox rows in its transactions; the
outbox publisher turns them into Kafka records; consumer runners hand records
to handlers, most of which go through the inbox; failures go through the retry
policy into the dead-letter topic, which the DLQ consumer stores; reprocessing
writes to the outbox again. Orders are created under the client's
Idempotency-Key, and their events are scored by risk-service-go or by the TypeScript
risk service. `PROJECT.json` lists the hazards of each part at
the line where they bite, with the properties that cover them or why none does.

## 2. Modules

| module | models | state and actions |
|---|---|---|
| `Outbox` | outbox table, publisher replicas, operator commands, retention of published rows | `table` is the table; `pc`, `batch`, `current` are the locals of `publishOutboxBatch`. One action per database statement or publish: `FindPublishable`, `Publish`, `MarkPublished`, `MarkFailed`, their failing variants, `Crash`, `LeaseExpires`, `BackoffElapses`, `Retry`, `Ignore`, `DeletePublished` |
| `AtLeastOnce` | what the outbox promises: an event is taken while due, settled by a replica that was told of its delivery, forgotten only then, due again only after a reported failure | `stage`, `taken`, `acked`, `sent` |
| `ConsumeOnce` | what the inbox promises: per event at most one result is decided, all effects carry it, and it is closed after an effect | `decided`, `emitted`, `closed` |
| `Inbox` | `KafkaIdempotentEventProcessor.process`, the store behind it, and the runner that hands it the records of an event and sends a thrown one to the next retry topic | `inbox` is the table; `copies` and `settled` count the records of an event in each topic and the committed ones, `ripe` those whose delay is over; `pc`, `event`, `record`, `result` are the locals of a call. `Claim`, `Duplicate`, `Busy`, `SavePrepared`, `Effect`, `MarkCompleted`, `Release`, `Dispatch`, failing variants, `Crash`, `Redeliver`, `Rebalance`, `LeaseExpires`, `DeleteCompleted` |
| `RetryRouting` | retry policy, runner and dispatcher of every group, for one event | `log` holds the copies' headers per topic, `position` the committed offsets. `Handle`, `HandlerFails`, `NoHandler`, `Redeliver` |
| `OrderLifecycle` | transactions of order-service and the services that answer | `status`, `outbox`, `processed`/`purged` are tables, `tx` the open transactions, `published` what Kafka can deliver. `BeginEvent` (marker insert), `LockOrder` (for update), `Apply`/`Swallow` (commit), `BeginCancel`, `AcceptCancel`, `RejectCancel`, `Rollback`, `Purge`, `Reprocess`, `RiskResult`, `PaymentResult` |
| `OrderOutcome` | what the order transactions promise: results and commands take effect one at a time, status and announcements together, and a result that does not fit the status changes nothing | `status`, `outbox`, `heard`; `Approve`, `Confirm`, `Reject`, `Cancel`, `Refuse`, `Ignore` |
| `Resolution` | what the dead-letter queue promises its operators: a decision takes effect at one instant on the very record its operator saw, with its copy | `record`, `seen`, `audit`, `copies`; `Store`, `Look`, `Reprocess`, `Ignore`, `Delete` |
| `Dlq` | capture of dead letters, the reprocess and ignore commands, their retention | `rows` is `dead_letter_events`; `consumer` how far the capture of a letter is; `view` what an operator's GET showed, `tx` the transaction of its request; `reprocessed`, `ignored`, `copies` are histories of the decisions and of the outbox rows made (the rows of `dlq_audit_log` themselves are deleted with their letter). `Insert`, `InsertFails`, `Find`, `Redeliver`; `Look`, `BeginReprocess`/`BeginIgnore` (lock and checks), `Reprocess`/`Ignore` (commit), `Rollback`; `DeleteResolved` |
| `CreateOnce` | what POST /orders promises: a request takes effect at one instant, an order for a new key, the first answer for the same body, 409 for another | `orders`, `answer`; `Make`, `Repeat`, `Refuse`, `Lose` |
| `CreateOrder` | POST /orders under an Idempotency-Key: the gateway's key and hash, the transaction of order-service | `keys`, `orders` are tables, `request` and `answer` the client's view. `InsertKey` (insert on conflict, which waits), `Commit`, `ReadKey` (replay or 409), `CreateUnkeyed`, `Rollback`, `Resend` |
| `RiskGo` | risk-service-go on one partition | `log`, `committed`, `owner` are Kafka's; `stage`, `fetched`, `batch` the loop of a member. `Poll`, `Handle`, `PassOver`, `HandleFails`, `Commit`, `CommitFails`, `Crash`, `Start`, `Assign`, `Rebalance`, `Produce` |
| `Intake` | the two composed: from the request to the risk decision | extends `CreateOrder`, `Risk == INSTANCE RiskGo`; `PublishCreated`, `PublishMore` stand for the outbox between them, with the promise `Outbox` establishes |
| `RateLimit` | the rate-limit guard over the Redis client of `admin-rate-limit.store.ts` | `link`, `connecting`, `waiting`, `greeted`, `pending`, `buffer` are the client's fields; `wire`, `inbound` what is on its way. `Call`, `Connected`, `Refused`, `Execute`, `Split`, `Data`, `DataThrows`, `Reset`, `Close` |
| `MC*` | instances for TLC | constants and bounds only |
| `OutboxProofs`, `InboxProofs`, `OrderLifecycleProofs`, `DlqProofs`, `IntakeProofs`, `RiskGoProofs`, `RateLimitProofs`, `RetryRoutingProofs` | theorems, each about the module of its name; `IntakeProofs` about `CreateOrder` and its composition with `RiskGo` | |

Five modules implement an abstract specification, each under a refinement mapping
at the end of the detailed module: `Outbox` implements `AtLeastOnce`, `Inbox`
`ConsumeOnce`, `OrderLifecycle` `OrderOutcome`, `CreateOrder` `CreateOnce` and `Dlq`
`Resolution`. The abstract modules know no leases, locks, sessions or attempts.
`OrderLifecycle` uses the promises the other modules establish: an outbox row
reaches Kafka (`Outbox!EventuallyDelivered`), a service answers an event once
(`ConsumeOnce`), and Kafka may deliver anything again. A copy that `Dlq` writes
to the outbox travels on in `OrderLifecycle!Reprocess`.

Abstractions, common to all modules:

- A timestamp compared with `now()` is `NONE`, `FUTURE` or `PAST`; time passing
  is the step from `FUTURE` to `PAST`. The code compares these columns with
  `now()` and never with each other.
- Payloads are left out; a message is its id, type and key.
- A database statement or transaction is one atomic step. Where the code relies
  on row locks across statements (order transactions) the lock is modelled.
- A call that throws may or may not have taken effect first: both are steps.
- A *disturbance* is a fault or interference from outside. `Possible` names the
  kinds an instance allows and `Limit` how many of them, of whatever kinds, a
  behaviour contains; `spent` counts them (in `OrderLifecycle`, `Limit` is a bound
  per kind). The history `cause[e]` of `Outbox` and `Inbox` records which
  of them hit row `e` while it was in use. "Exactly once" can only be promised
  for undisturbed rows, and the properties say so precisely: what is excused is
  listed by the action that records it, everything else (send errors, crashes
  between batches, failed marks, retries, expiry of a dead replica's lease) is not.

Operators named in comments as mutants are wrong variants of the definition
that follows; they are used only to test that the properties can fail.

## 3. Runs

| run | instance | shows |
|---|---|---|
| `outbox` | 2 replicas, 2 rows, batch 2, any three disturbances of seven kinds, fair | `ImplementsAtLeastOnce`, `SingleHolder`, `NoDuplicate`, `DeliveredBeforeForgotten`, `EventuallyDelivered` |
| `inbox` | 2 instances, 1 event, 2 possible results, the three deployed retry stages, any four disturbances of ten kinds, fair | `EffectsAgree`, `EffectOnce`, `NeverLost`, `ImplementsConsumeOnce`, `EventuallyCompleted` |
| `inbox_rebalance` (violation) | a rebalance and an expiring lease only | a call longer than its lease repeats the effect |
| `retry` | risk, payment and order groups, two stages, any three disturbances (handler errors, non-retryable ones, redeliveries), fair | `FanOut`, `NothingDropped`, `CountNamesStage`, `RetriesEnd` |
| `retry_dead_letter` (violation) | the four deployed groups and three stages, one handler error | an event handled on retry is dead-lettered all the same |
| `dlq` | 2 letters (one readable, one not), 2 operators, any four disturbances, fair | `ImplementsResolution`, `DecidedOnce`, `DecidedAsSeen`, `CommittedMeansStored`, `DecisionStands`, `EventuallyCaptured` |
| `order` | 1 order, 2 sessions, a cancel, a reprocess, a purged marker, two rollbacks, fair | `ImplementsOrderOutcome`, `OneFinalEvent`, `ConfirmedMeansAuthorized`, `FinalIsFinal`, `EventuallyDecided` |
| `order_stream` (violation) | no disturbance at all, fair | a payment result overtakes its approval; the order stays RISK_APPROVED |
| `intake` | 3 clients, two of them with one key and different bodies, the third without a key; 2 members of risk-service-go, 3 orders, 4 records, one disturbance of any kind, fair | `ImplementsCreateOnce`, `OneOrderPerKey`, `KeyWithItsOrder`, `AnswersTrue`, `EveryoneAnswered`; `CommittedMeansHandled`, `ScoredInLogOrder`, `ExtraScoresCost`; `EveryOrderScored` across both |
| `risk_go_commit` (violation) | 1 member, 2 orders, one handling error | an order is committed past without a risk event |
| `rate_limit` | 3 callers, a handshake of AUTH and SELECT, any three of refused dials, resets, closes, error replies and split replies, fair | `QueuedOnce`, `RepliesInStep`, `FailClosed`, `NobodyHangs`, `EveryCallSettles`, `RefusalEnds` |
| `rate_limit_refused` (violation) | 1 caller, no handshake, one error reply, fair | one error reply refuses every later call |

Why the bounds are enough. Two replicas, instances or sessions are the smallest
number that can race, and the code treats a third like the second: the
statements only ask whether *some* lease or lock is there. Two rows let a batch
hold more than the row in hand, be skipped, and be overtaken. Two results make
a nondeterministic `prepare` visible. In `retry` two stages give a first and a last
one; the third only multiplies copies. In `inbox` it matters how many attempts there
are and which delays outlast a lease of 30 s, so the chain is the deployed one: three
stages, the last two of them long. Four disturbances are more than the chain survives,
so that the dead-letter topic is reached. A total bound on disturbances allows every
combination of kinds in every order, the same kind again and again included:
with three to five of them a row can be hit, repaired and hit again while the
other replica, call or operator interferes. `order` bounds each kind by itself,
since most of its interleaving comes from its sessions and not from faults; one
order is enough, since the code never looks at two orders together: rows, locks
and markers are per order, and the theorems have no bound on them. In
`intake` a client that shares a key with another body and one that sends its own
request again are the two ways a key is met twice; four records leave room for
one event that is published again or is not an OrderCreated (`MaxOrders` bounds the orders
whose events are published, not those that are made); `RiskGo` alone was
also checked with three records and three disturbances. In `rate_limit` the
handshake has its greatest length, the third caller meets two others in two queues,
and three disturbances let a connection fail, its successor fail and leave a
remainder in the buffer. The safety theorems have no such bounds.

`CHECK_DEADLOCK FALSE` is set where an instance stops when its events are
done, and in `rate_limit` because the code itself may stop: a connection closed in its
handshake leaves `connectPromise` pending, and every caller of the replica hangs
on it. `EveryCallSettles` and `RefusalEnds` say that this is the only way.

Fairness, and what justifies it. `Outbox`: the interval timer polls every
replica again and again, an await returns when nothing disturbs it, clocks run.
`Inbox`: a consumer reads on to the next record of each topic that is not committed,
the steps of a call follow, and a call that throws is followed by its dispatch. A
thrown call is not repeated: its record is copied to the next stage and committed,
and after the third stage it goes to the dead-letter topic. So there are four
attempts, and an event need not be completed. `EventuallyCompleted` says that it is
completed or dead-lettered, and completed if the disturbances are no more than the
long stages, two. Three can exhaust the chain: after a crash the
source record and its first copy are Busy, and two failures use up the long stages.
This is the bound of `packages/kafka/README.md:267-295`.
`RetryRouting`: a running consumer reads on in every topic. `OrderLifecycle`: services answer, events are delivered until processed,
a lock is granted when it stays free and an open transaction commits.
`Dlq`: the consumer keeps reading; operators need not act. `CreateOrder`: a
statement that need not wait returns, a client keeps waiting for its answer.
`RiskGo`: the group assigns the partition, a member's loop goes on, and a stopped
service is started again, which is the operator's doing: main.go exits after an
error and the compose file has no restart policy. `Intake` adds that the outbox
delivers every row (`Outbox!EventuallyDelivered`). `RateLimit`: Redis answers, a
dial ends, and a caller asks again; the code has no command timeout, so that
Redis answers is an assumption.
All of it is weak fairness; nothing is assumed of disturbances.

## 4. Where documentation and code differ

| run | documentation | code |
|---|---|---|
| `inbox_rebalance` | `docs/adr/002:36`: a rebalance creates no second effect | the 30 s lease is not renewed |
| `retry_dead_letter` | `packages/kafka/README.md:387-388`: dead-lettered after the last failed attempt | a missing handler counts as a failed attempt; of the four deployed groups three pass such a copy on at each of three stages, so one error on payment.payment-events may end in 27 dead letters |
| `order_stream` | `docs/adr/003:36` | the risk and the payment result travel in different topics, and an early payment result is swallowed |
| `risk_go_commit` | `service.go:33`: an offset is committed only after the risk event was published | `service.go:66` logs a failed record and goes on; the next commit passes it |
| `rate_limit_refused` | `admin-rate-limit.store.ts:51-53`: 429 is returned temporarily while Redis is unavailable | `parseRedisReply` (line 243) throws before the error is cut off the buffer, which nothing clears: every later reply is parsed after it |

Two behaviours of the outbox are worth knowing although no run is about them. An
operator's retry clears the lease of a FAILED row even while a replica holds it,
and a late failure report turns an IGNORED row into FAILED: `cause` records such
rows, as it records rows whose mark failed after the delivery and rows whose lease ran
out under a slow batch. `SingleHolder` and `NoDuplicate` say nothing of them; the
hazards that only such rows meet are listed without a property. And a row that is
locked, leased or in backoff is passed over, so events of one key may be published out
of order.

## 5. Proofs

Assumptions: only the named `ASSUME`s of the modules (`OutboxAssumption`,
`InboxAssumption`, `OrderAssumption`, `DlqAssumption`, `CreateAssumption`,
`RiskGoAssumption`, `IntakeAssumption`, `RateLimitAssumption`, `RetryAssumption`):
bounds are naturals, null values are not values, no member of the consumer group is
called Nobody, a connection starts with at most two commands, and the retry stages
are a non-empty chain of distinct topics apart from the source and the
dead-letter topic. Nothing is assumed finite but the set of consumer groups.

Every theorem has one shape. `IInv` strengthens the property to an inductive
invariant, one lemma says that every action keeps it, and the property follows. A
refinement adds a lemma that maps each action under `IInv` to a step of the abstract
module or a stutter.

**Outbox** (`OutboxProofs`). None of the properties is inductive: that two
replicas do not hold one row depends on what the row's lease says. `IInv` adds,
for a row no disturbance has hit, `Leased`: a holder is the `locked_by` of an
unexpired lease on a row still to be published, and the number of copies in
Kafka is one exactly if the holder has sent it or the row is done.
`SentBeforeMark` and `UniqueSnapshots` link the locals of a replica to it.
From `IInv` follow `LeaseExclusion`, `ExactlyOnceUndisturbed`, `NothingLost`,
`PublishedStays`. Every action is a case; a row operator is first shown to
keep `Row`.

`BatchNeverExceeds`: `FirstOf`, a query with an order and a limit, returns at most
`BatchSize` rows and passes over none that is older than one it returns
(`FirstOfLimits`, by an injection into `0 .. BatchSize - 1`); the loop only takes
from its batch, so no replica holds more.

`Implementation`: these rows implement `AtLeastOnce`. A lease is invisible there, so
two facts have to be found in the invariant: what a replica takes into its
batch is still due although other replicas report on it by id, and a mark is
written only by a replica whose last send was acknowledged (`acked` is read off the
program counter). `UniqueSnapshots` makes a batch a set, so that what is
reported leaves what is taken. Late marks on withdrawn rows, and failure reports that
make a row due again, are steps of the promise: it says that they need a replica that
took the event, not that they cannot come late.

**Inbox** (`InboxProofs`). `DataFits` says that a row and its effects fit
(`RowFits`) and that a call past `savePrepared` holds the row's result
*whoever owns the lease by now* (`InHand`): this carries `EffectsAgree` across
lost leases. `Exclusive` is the lease argument for undisturbed events and gives
`EffectOnce`. `Implementation` proves the refinement of `ConsumeOnce`. The runner's
steps around a call leave rows and effects alone (`RunnerFrame`).

`NothingLost` needs what is true of offsets: nothing is committed that was not sent,
and whoever owns a record has not committed it and is alone with it (`Uncommitted`).
So the one who dispatches puts a record into the next topic that nobody can have
committed, and whoever commits without a copy has completed the row.

**OrderLifecycle** (`OrderLifecycleProofs`). `Locking`: what a session has read
under its row lock is still the status, and one session holds the lock. So the
decision of `Apply` or a cancel is about the present status. `Approved` links
RISK_APPROVED to a processed approval; with `Locking` it gives
`NoFreeConfirmation`. `OneAnnouncement` counts final events against the status.
`Implementation` maps a commit to the one abstract step it stands for, and every other
statement to a stutter: the status read under the lock is the one the abstract
step asks for (`Locking`), and a cancel is open only on an order that is there, an
event only if it is a result (`OpenFits`). A result that comes again, since its
marker was purged or an operator sent a copy, is heard again on the status of then.

**Dlq** (`DlqProofs`). A command decides on what it read under its row lock, so
the invariant is about open transactions: one per letter (`Exclusive`), each
about the NEW row of the version its operator saw (`DecidedAsSeen`), and only a
letter that can be sent again is being reprocessed (`Fit`). Capture and
retention leave NEW rows alone (`SameTransactions`). With the life of a row
(`Alive`) this gives `OneDecision`, `LockedDecision`, `NothingSkipped` and
`DecisionIsFinal`. `Implementation` proves the refinement of `Resolution`: at
the commit the record is the one the operator looked at (`DecidedAsSeen`), so
a decision from an old screen never falls on a record captured later. The
life of the row (its uuid) carries this, the version adds nothing: a NEW row has
version 1 (`TypeOK`).

**CreateOrder** (`IntakeProofs`). What the unique index gives is
`Exclusive`: at most one open transaction has inserted a key, and only while no row
of it is committed. So the one that commits finds the key without an order and
leaves it with one, which carries `KeyWithItsOrder` and `OneOrderPerKey`; a
replay then reads a row that fits an order, which carries `AnswersTrue`. Also
proved: `KeptForGood`, what a key stands for never changes. `Implementation`
is the refinement of `CreateOnce`: the instant at which a request takes effect is
the commit, or the read of the committed row for a replay or a 409.

**RiskGo** (`RiskGoProofs`). A commit is safe because of where its batch came
from. `BehindHandled`: a member read on after an offset that was committed, and
handled everything from there to the record in hand itself. It holds for an old
owner's batch too and survives an offset that moves back, so `CommittedMeansHandled`
needs nothing about who owns the partition; `ScoredInLogOrder` follows from
the same fact when a record is answered. `ExtraScoresCost` needs who owns it: the
potential of a record is the number of its risk events and of the members who
still have it before them, plus one if it can be fetched once more (`Chances`).
Every handler step keeps it, and only a disturbance raises it, by one. The count is
the cardinality of a set of log positions, so no recursion is involved.

**Intake** (`IntakeProofs`). Each step of the composition is a step of one part and
leaves the variables of the other alone, but for `spent`, which both count: the
invariants of the parts are shown to hold whatever the count is raised to. With
that, the theorems of `RiskGoProofs` are used through `INSTANCE` and nothing is proved
twice: `CommittedMeansHandledHolds`, `ScoredInLogOrderHolds` and
`ExtraScoresCostHolds` are about the records of orders that were made.

**RateLimit** (`RateLimitProofs`). What is on its way and what is still to be run
(`Line`) is always the end of what is pending (`AtTheEnd`), and all of it unless a
connection was closed with orphans: this is `RepliesInStep`. `Queues` splits
`QueuedOnce` by queue and says where the connect command can be. `Clean` keeps
half a number out of the buffer unless an ending is in doubt, which with
`AtTheEnd` gives `FailClosed`. `NobodyHangs` is the safety half of
`EveryCallSettles`: while somebody waits for the connection there is a dial or a
connect command that can end it (`Waits`), and while something is pending there is an
open socket, unless a connection was closed with orphans.

**RetryRouting** (`RetryRoutingProofs`). Copies travel along one road
(`OnTheRoad`): the source holds the event and nothing else, every other record
names it and counts its stage (`CountNamesStage`). `Decision` computes what
decideFailure answers to such a copy, and `DispatchAhead` shows that the copy it sends lies
ahead of every group that has a handler for it. So a group that has not handled
the event still has a record before it, unless there is a dead letter (`Kept`),
which is `NothingDropped`.
`FanOut` bounds what a failure costs. `Paid` counts pairs of a stranger (a group that
shares the retry topics for another source) and a record it has read: a copy is made
by such a read, by a disturbance, or not at all, and a redelivery gives the read back
for the disturbance it is. The pairs lie in the product of strangers and records, so
each stage holds at most the number of strangers times the copies of the stage before,
plus the disturbances. The deployed topology reaches the bound: 27 dead letters for one
error (section 4).

`OutboxProofs`, `InboxProofs` and `IntakeProofs` hold four properties no run repeats
(`PublishedSettled`; `CompletedMeansDone` and `ResultFixed`, which the refinement
implies; and `KeptForGood`). The type invariants are part of each `IInv` and proved with it; no run
repeats them.

Only model-checked: liveness, since fairness and ENABLED are beyond the prover
(`EventuallyDelivered`, `EventuallyCompleted`, `RetriesEnd`, `EventuallyCaptured`,
`EventuallyDecided`, `EveryoneAnswered`, `EveryOrderScored`, `EveryCallSettles`,
`RefusalEnds`). A refinement is proved for the safety part, `Init` and `[Next]_vars` of
the abstract module; these have no fairness of their own.

## 6. Not modelled

- Batches and schedules of the retention jobs; the deletes themselves are actions.
- Start-up retries and poll pauses of the consumer runner; of the delays only whether
  they outlast a lease (`Inbox`); undecodable records, which are redelivered for ever as
  `packages/kafka/README.md:428-431` says, like the failing records of topics without
  a retry policy. `Inbox` follows the records one service's own failures make; the
  copies of other groups in the shared topics are the subject of `RetryRouting`.
- The correction an operator makes to a payload, and the Kafka key of the
  copy: `dlq.service.ts:184` keeps the old record's key even when the corrected
  event has another order id.
- Admin security beside the Redis client: the in-memory counters, keys and roles,
  which are pure; what other replicas do to a counter is left to chance, so is
  the database (0 until SELECT was sent) a call meets during a handshake; Redis
  commands have no timeout, fairness stands in for one.
- Scores, schemas and codec caches of the risk services.
- Audit, metrics, lag monitor, tracing, configuration, and of the gateway all
  but the key and hash it passes on: no state that others rely on.
- Kafka, PostgreSQL and KafkaJS themselves: used as the code uses them.
  `INSERT ... ON CONFLICT` waits for an uncommitted insert, row locks last until
  the end of the transaction, a publish settles within the client's timeout, and
  `manager.query` returns the rows of `UPDATE ... RETURNING` as the inbox and
  outbox stores read them.

## 7. Plan

Done, in this order: `Outbox`, `Inbox` with `ConsumeOnce`, `RetryRouting`,
`OrderLifecycle`, `Dlq`, `CreateOrder`, `RiskGo`, `Intake`, `RateLimit`; proofs of
every safety property of the passing runs, of the composition, and of the
refinements of `AtLeastOnce`, `ConsumeOnce`, `OrderOutcome`, `CreateOnce` and
`Resolution`.

Left, most important first:

1. A `Pipeline` of the abstract specifications (outbox, delivery, consume-once),
   which `Intake` and `OrderLifecycle` with their neighbours implement.
2. The deployed chain of stages in one bound: `FanOut` is per hop, and multiplying the
   hops is an induction over the chain.
3. The in-memory counter windows of the rate limit, and retention's batch loop.
