# Inbox / outbox saga: verification project

TLA+ models of the order saga in this repository, the TLC runs that check them on
small instances, and theorems about them that TLAPS proves for every instance.
Paths below are relative to the repository.

Contents: [the system](#1-the-system) · [inventory](#2-inventory) ·
[modules](#3-modules) · [runs](#4-runs-and-bounds) · [fairness](#5-fairness) ·
[proofs](#6-proofs) · [disagreements found](#7-where-code-and-documents-disagree) ·
[not modelled](#8-what-is-not-modelled) · [plan](#9-plan)

## 1. The system

An HTTP API books an order; three services then carry it on by events, with no
orchestrator. Every service writes its events to the `outbox` table in the same
PostgreSQL transaction as its business rows; one relay (`cmd/worker`) moves the
outbox to a Kafka topic; every service reads the topic in a consumer group of its own
and remembers what it has processed in `inbox_events`.

    POST /orders ──► api ──tx──► orders + outbox(OrderCreated)
    outbox ──► poller replicas ──► topic (key = order id, so one partition per order)
    topic ──► payment-service ──tx──► inbox + payments + outbox(PaymentAuthorized)
    topic ──► ticket-service  ──tx──► inbox + tickets  + outbox(TicketIssued)
    topic ──► order-service   ──tx──► inbox + orders.status
    POST /orders/{id}/refund ──► api ──tx──► orders.status + outbox(RefundInitiated)

Whatever the parts share goes through a table or the topic. Nothing is locked across
two of these arrows: each is at-least-once, and the inbox makes the effect
exactly-once.

## 2. Inventory

| Component | State | Operations | Hard behaviour | What makes it correct |
|---|---|---|---|---|
| **Outbox relay**: `internal/worker/poller.go`, `internal/infrastructure/postgres/outbox_repo.go`, `internal/infrastructure/kafka/producer.go`, `cmd/worker`, `check_db.go` | `outbox.status`; the batch in a poller's memory | insert, `FetchBatch`, `SendMessage`, `MarkProcessed`, `MarkFailed`, `check_db -fix` | replicas; death between claim and mark; sends that time out and happen; marks that fail; updates by id with no condition | one poller per row; `processed` only after publishing, and for good; a bounded price per fault; every row gets there |
| **Inbox consumer loop**: `cmd/payment`, `cmd/ticket`, `cmd/consumer`, `kafka/consumer.go`, `inbox_repo.go` | group offset, reader position, attempt, `inbox_events` | fetch, insert inbox row, work, commit, retry, drop, commit offset, shut down | redelivery; rebalance with a message in hand; lost commit answers; SIGTERM amid retries; head-of-line blocking | effect once per event; offset passes nothing unsettled; drops only after all retries or a SIGTERM; every message settled |
| **Saga choreography**: the transactions of the three services and the API | `orders.status`, `payments`, `tickets`, events of the order | create, refund, authorize, issue, update | duplicates and reordering between services; status update with no condition; dropped messages; refund amid the saga | status backed by rows; one event per row; no status set that the order has been through; every published order finishes |
| **Transactions of the API**: `tx_manager.go`, `create_order.go`, `refund_order.go`, `handlers.go` | an open transaction | begin, two statements, commit, rollback, panic, answer | a commit that fails after the result was returned; row locks; the instance dies | status and event change together; the answer agrees with the tables; every request is answered |
| **Idempotency middleware**: `middleware/idempotency.go` | a Redis key with a TTL | `Get`, `SetNX`, the handler, `Set` | two requests between `Get` and `SetNX`; lock expiry under a slow request; failed, repeated or cancelled calls | one order per key; a conflict only with somebody |
| **Order cache**: `get_order.go` | `order:<id>`, TTL one second | read-through | a slow reader puts an old status back over a newer one | staleness bounded |
| **Workflow view**: `get_workflow.go` | none | five queries | the saga moves between them; lists cut short | the view never shows an effect without its cause |
| **Start-up, configuration, metrics**: `cmd/api`, `factory.go`, `config.go`, ... | none shared | connect, serve | – | – |
| **gRPC skeleton and stubs**: `internal/grpc`, `internal/worker/worker.go`, `internal/consumer` | none | unreachable from any binary | – | – |
| **Frontend** | none | shows the workflow view | – | – |

The hazards of this code, each at the line where it bites and with the properties
that watch it, are the `hazards` of `PROJECT.json`. Two have no property, for the reasons
noted there: a list of the workflow view that breaks off unnoticed, which explains nothing,
and an idempotency key that is `COMPLETED` after a failed request, which the code does.

## 3. Modules

    OutboxPromise  ◄──implements── OutboxRelay    ◄── MCOutboxRelay, OutboxRelayProofs
    GroupPromise   ◄──implements── InboxConsumer  ◄── MCInboxConsumer, InboxConsumerProofs
    BookingPromise ◄──implements── OrderApi       ◄── MCOrderApi, OrderApiProofs
          └──── the three promises, built into one order's story ────► Saga ◄── SagaProofs ◄── SagaPromiseProofs
                                                         Saga ◄── WorkflowView ◄── WorkflowViewProofs
    OrderCache ◄── MCOrderCache, OrderCacheProofs

### OutboxRelay
The relay with any number of pollers over one table. One SQL statement is one step,
for each is a transaction of its own; between any two a poller may be overtaken,
die, or see its context cancelled.

| Model | Code |
|---|---|
| `outbox[e]`, `"absent"` until its row is committed | `outbox.status`, `migrations/002_outbox.sql` |
| `topic[e]`, `inflight[e]` | copies in the topic; copies whose sender gave up but that may still arrive |
| `pc`, `events`, `processedIDs`, `failedIDs` | the locals of `processBatch` |
| `FetchBatch` | the `UPDATE .. WHERE id IN (SELECT .. FOR UPDATE SKIP LOCKED)`: the oldest `new` rows, at most `Limit`. Rows locked by a concurrent claim are skipped, which is the effect of running after it |
| `FetchBatchCut` | the claim commits but the rows do not all arrive: `Query`/`Scan` fails, or `rows.Next` ends early (`rows.Err` is not consulted) and a part of the batch goes on |
| `Send(w, e, r)` | one round of the loop, in any order of the batch; `r` says what the broker did and what the caller saw |
| `MarkProcessed`, `MarkFailed` and their `..Error` | the two updates by id; an error leaves open whether the update happened, and the first one ends `processBatch` |
| `Crash` | the process dies. A SIGTERM inside a batch is one too: its context fails the remaining sends, any of which may have been handed to the writer, and both marks, and the loop ends |
| `Fix` | `check_db.go -fix`; `FixLive` says whether it may run while a poller holds a batch |

Each fault has a name and `Budget` bounds how often it may happen; properties are
stated in terms of the faults that did. Left out: the `2-3 s` sleep (it only
widens the window between two steps), metrics, the marshalling of the envelope (its
failure is the `send` fault).

### OutboxPromise
What the users of the outbox are told: a recorded event may be copied to the topic
any number of times, a row that was not recorded never; a row is settled only when
there is a copy, and stays so.

### InboxConsumer
The loop that the three services repeat literally, for any number of instances of one
service over one partition. Partitions do not interact: the key is the order, the
inbox row is per event.

| Model | Code |
|---|---|
| `log`, `committed`, `owner` | the partition, the group's offset, the current assignment |
| `next[m]`, `msg[m]`, `attempt[m]`, `pc[m]` | reader position and locals of the main loop |
| `inbox`, `effects[e]` | rows of `inbox_events` of this service; how often the event's work was committed |
| `SaveNew` / `SaveDuplicate`, `InsertBlocked` | `SaveIfNotExists`: `INSERT .. ON CONFLICT DO NOTHING`, which waits while another transaction holds the same uncommitted key |
| `ProcessOK`, `ProcessError`, `ProcessAmbiguous` | the rest of the transaction: it commits, rolls back, or commits with the answer lost |
| `FetchMessage` | the next message of the reader. kafka-go chooses between the cancelled context and the messages it has fetched ahead, so an instance that was told to stop may get any number of them before `Exit` |
| `Retry`, `Drop` | the `for attempt` loop with `maxRetries`; afterwards only a log line mentions a DLQ. `GiveUp` remembers who dropped the message: `dropped`, or `cancelled` if the instance was told to stop |
| `CommitMessages`, `CommitMessagesError` | the offset; an instance that has lost the partition may move it or be refused |
| `Assign`, `Revoke` | what kafka-go does for the group (external) |
| `StartOffset`, `StartAt`, `late` | `KAFKA_START_OFFSET` as each instance has it: a group with no offset starts at the first message or, with `latest`, behind the last; `late` remembers how many messages the latter left behind |
| `Terminate`, `Exit`, `Crash` | SIGTERM cancels the context (sleeps and the retry loop do not look at it); `FetchMessage` returns its error or the process is killed, and a new one takes its place |

The transaction is two steps, begin..insert and work..commit, for it stays open for the
2-3 s of simulated load and other instances run into its uncommitted inbox row.

### GroupPromise
What a group promises the saga however many instances it has: it takes the first copies
in the order of the partition, and either commits an event's effect once or gives
copies up: one after its last retry, or all those before a reader that starts late. A copy
given up may still be processed by a slower instance.

### OrderApi
The requests that write, from the router to the answer: `POST /orders` behind the
idempotency middleware, `POST /orders/{id}/refund` without it, any number of each, at one
instance or several. One call to Redis or PostgreSQL is one step.

| Model | Code |
|---|---|
| `redis[k]` | the idempotency key: none, `PROCESSING`, `COMPLETED` |
| `tx[r]` | what the open transaction of a request has written so far; visible only when committed |
| `status[o]`, `events` | `orders.status`; the requests whose outbox row is committed. A request is its own event, a create its own order |
| `Get`, `GetError`, `SetNX`, `SetNXError`, `Complete`, `CompleteError` | the middleware; an error of `Get` lets the request through, one of `SetNX` turns it away, one of `Set` is not looked at |
| `WriteRow`, `WriteEvent`, `HandlerError`, `Reject`, `Panic` | the use cases inside `WithinTransaction`. An `UPDATE` waits for another transaction that has updated the row |
| `Commit`, `CommitError` | the deferred commit; its error reaches nobody, so that both answer 201 or 202 |
| `Cancel`, `Kill`, `Expire` | the client goes away, the instance dies (or its 5 s of shutdown end), a key's TTL runs out |

The two TTLs (10 s, 24 h) are one fault: a key may run out at any moment, the lock of a
request that is still being handled included.

### BookingPromise
What the API promises the saga: the status of an order and the event that tells of it
appear in one step; an order is created once and refunded only if it exists. The API steps
of `Saga` are these two.

### OrderCache
`GET /orders/{id}`: one order, any number of readers, a clock. An entry is the version of
the row that was `Set` and the time it ends. Updates do not touch the cache, as in
the code, where no service but the API knows of it. `Slow` bounds how long a reader may be
held up between its query and its `Set`; the property says what an answer's age depends on.

### Saga
One order, with the API, the topic and the three services; a transaction is one step.
API, relay and groups appear as their promises: `CreateOrder` and `RefundOrder` are those
of `BookingPromise`, `Publish` is `OutboxPromise!Publish`, `Due`, `SaveNew` and `GiveUp`
are those of `GroupPromise`. This is checked and proved, not only intended: `Outbox`,
`Booking` and `Group(s)` are instances of the three promises over the saga's variables, and
`BuiltOnOutbox`, `BuiltOnBooking` and `BuiltOnGroups` say that the saga does nothing they do
not allow. An event's id is its place in `outbox`. `PaymentFailed` is
handled as in order-service, and nothing in the repository records one: `SagaProofs`
shows that no order is ever `CANCELLED`.

### WorkflowView
`GET /orders/{id}/workflow` over `Saga`: five queries in the order of `Execute`, between any
two of which the saga may take any number of steps. `ReadCut` is a list that breaks off
unnoticed (`rows.Err` is not consulted); `Poll` starts over.

## 4. Runs and bounds

| Run | Instance | Shows |
|---|---|---|
| `RelayReplicas` | 2 pollers, 3 rows, batches of 2; one each of: failed send, timed-out send, failed mark, death, `check_db -fix` | types, `ClaimExclusive`, `ProcessedIsFinal`, the refinement `KeepsPromise`, and `EventuallyProcessed` |
| `RelayFaults` | the same rows and pollers; failed sends give way to cut claims and repeated sends, and `check_db -fix` may run under working pollers | `ProcessedMeansPublished`, `DuplicatesAreAccountedFor`, `StrandedIsBounded`: what each fault may cost |
| `ConsumerGroup` | 2 instances, 2 events (one not handled), a partition of 2, one retry, both start offsets, any four faults: two database failures and each other kind once | types, `EffectOnce`, `NothingSkipped`, `NothingPassedOver`, `DropsAreEarned`, `LateStartsEnd`, `KeepsPromise`, `EventuallySettled` |
| `SagaDelivery` | one refund, two duplicates, at most one dropped message per service | types, `StatusIsBacked`, `OneEventPerRow`, `StatusAdvances`, `CompletionIsFinal`, `NeverStalls`, `BuiltOnOutbox`, `BuiltOnBooking`, `BuiltOnGroups`, `EventuallyTicketed` |
| `ApiRequests` | two creates with one key, two refunds, each of the seven faults once | types, `OrdersPerKey`, `AnswersAreAccountedFor`, `ConflictIsJustified`, `RowLocksEnd`, `KeepsPromise`, `EventuallyAnswered` |
| `CacheReads` | 2 readers, 3 versions, an entry lives 2, a reader is slow by 1, the clock runs to 5 | types, `FreshWithin` |
| `WorkflowReads` | the view over a saga with one refund, no duplicate, one dropped message per service | types, `StatusIsExplained`, `EventsAreExplained` |
| `RelayCrash`, `RelayUnacked`, `ConsumerSigterm`, `SagaFinalStatus`, `ApiPhantom` | the smallest instance with the one fault in question | a counterexample each, see [section 7](#7-where-code-and-documents-disagree) |

Why the bounds are enough to be interesting:

- *Rows, pollers, batch size*: three rows and batches of two make a poller leave a
  row behind; two rows share their `created_at`, so there is a choice of which.
  Two pollers are what an overlap needs; a third adds nothing a pair does not show,
  as every statement is about a poller and a row.
- *Faults*: once each is enough to combine any two kinds. Every accounting property
  counts faults, so more of them only scale both sides; the proofs hold for any
  `Budget`. The two relay runs share the faults between them to stay small, and the
  consumer's budget is a set: every choice of four faults out of all of them.
- *Partition*: two messages hold a duplicate, or a message of a type that is not handled
  behind a blocked one, and an instance told to stop may give both up. The proofs hold for
  any partition.
- *Retries*: `MaxRetries = 1` where the number is of no matter, the code's 5 where the
  counterexample is to be the code's own (`ConsumerSigterm`).
- *Requests*: two of a kind meet in every pair of steps; a create with a refund of its
  order likewise.
- *Clock*: three versions and five units let an entry be written, replaced, overwritten by
  a slow reader with an older version, and run out.
- `MaxLog`, `MaxRefunds`, `MaxDuplicates`, `MaxDrops`, `MaxVersion` and `MaxTime` bound what
  the environment can do. They are guards of environment actions only.

Symmetry (permutations of pollers or readers) is used only in runs without a liveness
property. Deadlock is not checked: when all rows are processed, all requests answered
and all faults used up, the system rests.

## 5. Fairness

Weak fairness is assumed for what a process does of its own accord, and nothing of the
environment: no user has to order, refund or run `check_db`, no fault has to happen.

- *Poller*: `time.Ticker` goes on ticking, so a claim that stays possible is made;
  inside a batch the loop runs on. Faults are finitely many (`Budget`), so a call
  that is tried again and again succeeds at last. A row claimed by a dead poller is not
  covered: `RelayCrash` shows that such a row is never taken up again, and
  `EventuallyProcessed` excepts rows that a fault has stranded.
- *Instances*: the loop runs on, sleeps end, PostgreSQL wakes the insert that waits for
  another transaction when that one ends, and Kafka assigns a partition with no owner.
  A stopping instance owes the failure of its attempts (its context is cancelled)
  and its exit, once the messages it has fetched ahead run out: the partition is finite
  (`MaxLog`), and in kafka-go each fetch chooses between them and the context at random.
- *Requests*: a request that was received goes on through middleware and handler: its
  calls are answered, with an error once the context is cancelled, and PostgreSQL wakes an
  `UPDATE` that waited. Nobody has to send one, nothing else has to fail and no key has to
  expire.
- *Saga*: the fairness of `Saga!FairSpec` is the conclusion of `EventuallySettled`: a
  published event is processed or given up. The relay owes the saga nothing, for
  `EventuallyProcessed` excepts the rows it strands and an acknowledgement may be false.
  `EventuallyTicketed` therefore asks nothing for an order one of whose messages was given
  up or one of whose events, refunds aside, is never published.

## 6. Proofs

Every type invariant, safety invariant, action property and refinement that a passing run
checks is also a theorem, for any number of pollers, instances, requests, readers,
rows, events and messages, any batch size, retry limit, start offset, TTL and budget.

| Theorem | Statement | Assumptions besides the constants' types |
|---|---|---|
| `OutboxRelayProofs!TypeCorrect` | `Spec => []TypeOK` | none |
| `ClaimsAreExclusive` | `Spec => []ClaimExclusive` | none (the property itself is about `~FixLive`) |
| `ProcessedStays` | `Spec => ProcessedIsFinal` | none (likewise) |
| `ProcessedIsPublished` | `Spec => []ProcessedMeansPublished` | `NoFalseAck`: `Budget["unacked"] = 0` |
| `RelayKeepsPromise` | `Spec => KeepsPromise` | `NoFalseAck`, `~FixLive` |
| `DuplicatesHaveReasons` | `Spec => []DuplicatesAreAccountedFor` | none |
| `StrandedAreFew` | `Spec => []StrandedIsBounded` | none |
| `NothingIsLostOnTheWay` | `Spec => [](Strandings = 0 /\ NoneUnacked => NoneLost)` | none (the statement names the faults it excludes) |
| `InboxConsumerProofs!TypeCorrect` | `Spec => []TypeOK` | none |
| `EffectsHappenOnce` | `Spec => []EffectOnce` | none |
| `NothingIsSkipped` | `Spec => []NothingSkipped` | none |
| `NothingIsPassedOver` | `Spec => []NothingPassedOver` | none |
| `GroupKeepsPromise` | `Spec => KeepsPromise` | none |
| `FirstCommitEndsLateStarts` | `Spec => LateStartsEnd` | none |
| `DroppedIsEarned` | `Spec => []DropsAreEarned` | none |
| `ProcessedWithoutDrops` | `Spec => [](faults["term"] = 0 /\ faults["db"] + faults["ambiguous"] <= MaxRetries => CommittedIsProcessed)` | `StartOffset = {"earliest"}` |
| `OrderApiProofs!TypeCorrect` | `Spec => []TypeOK` | none |
| `ApiKeepsPromise` | `Spec => KeepsPromise` | none |
| `AnswersAgree` | `Spec => []AnswersAreAccountedFor` | none |
| `ConflictsAreJustified` | `Spec => []ConflictIsJustified` | none |
| `OneOrderPerKey` | `Spec => []OrdersPerKey` | none |
| `RowLocksAreReleased` | `Spec => []RowLocksEnd` | none |
| `StoredWithoutCommitErrors` | `Spec => [](faults["commit"] = 0 => CreatedMeansStored)` | none |
| `OrderCacheProofs!TypeCorrect` | `Spec => []TypeOK` | none |
| `AnswersAreFresh` | `Spec => []FreshWithin` | none |
| `SagaProofs!TypeCorrect` | `Spec => []TypeOK` | none |
| `RowsHaveOneEvent` | `Spec => []OneEventPerRow` | none |
| `StatusHasRows` | `Spec => []StatusIsBacked` | none |
| `StatusOnlyAdvances` | `Spec => StatusAdvances` | none |
| `CompletionStays` | `Spec => CompletionIsFinal` | none |
| `SagaNeverStalls` | `Spec => []NeverStalls` | none |
| `FinalWithoutDrops` | `Spec => FinalStatusIsFinal` | `MaxDrops = 0` |
| `SagaPromiseProofs!SagaBuiltOnOutbox` | `Spec => BuiltOnOutbox` | none |
| `SagaBuiltOnBooking` | `Spec => BuiltOnBooking` | none |
| `SagaBuiltOnGroups` | `Spec => BuiltOnGroups` | none |
| `ServicesAreFree` | a group of `GroupPromise` may process message `i` exactly when the saga's service may | none |
| `WorkflowViewProofs!ViewTypeCorrect` | `ViewSpec => []ViewTypeOK` | none |
| `StatusExplained` | `ViewSpec => []StatusIsExplained` | none |
| `EventsExplained` | `ViewSpec => []EventsAreExplained` | none |

*Relay.* That no two pollers share a row is not inductive: a claim is of `new` rows, so
one needs that a held row is never `new`. The invariant `Owned` adds that held rows
are `processing`, and in the hands of one poller. From `Owned` follows `ProcessedStays`:
the unconditional `UPDATE` of `MarkFailed` hits only held rows, and those are not
`processed`. `Acked` (the ids about to be marked, like those already marked, are in the
topic) gives `ProcessedIsPublished`, and both together map each step of the relay to a
step of `OutboxPromise` or to none. `NoFalseAck` is a real condition: the producer
leaves `RequiredAcks` at its zero value, and `RelayUnacked` shows what happens without it.
`DuplicatesHaveReasons` needs a quantity that goes on counting before a copy exists:
`Accounted` says that the pollers with a row still to send, the row while it may be
claimed, its copies and the copies in flight are at most one more than the faults that
excuse a copy. `StrandedAreFew` needs `Batched`: what a poller can lose is at most a batch.
Neither assumes `~FixLive`. `NothingIsLostOnTheWay` follows from the latter bound and from
`Truthful`, which is `Acked` until the first false acknowledgement: so it is a statement about
what has happened, `faults["unacked"] = 0`, and not about what the producer ensures.

*Consumer.* `EffectOnce` needs to know that the event of an open transaction has no
inbox row yet and no second open transaction (`Exclusive`); the waiting `INSERT` keeps
that. `NothingSkipped` needs the loop's history: everything below the message an
instance works on, below its reader's position (except that very message) and below
the offset is settled (`Sequential`), and an instance about to commit an offset has
settled its message. That a stale instance moves the offset *back* keeps the invariant,
and it is why no order of commits matters. A reader that starts late leaves messages behind
that nobody has looked at; they count as given up (`GivenUp`), and `Sequential` then holds
from the end of the partition on. `NothingPassedOver` is the same from the side of the
partition, and needs only that an owner is an instance whose reader is in the partition
(`Positioned`): an unsettled message is in its hands or still ahead of it.
`LateStartsEnd` bounds the loss: it needs that offsets are only moved behind
a message, never to nothing. Neither proof uses how many retries there
are or what fails. With both invariants each committed transaction is a
`GroupPromise!Process`, each drop a `GiveUp`, and every other step of an instance none.
`DroppedIsEarned` counts: a failed attempt of a message in hand is a ticket, a drop
costs `1 + MaxRetries` of them, and no more tickets are given out than there were
failures (`Earned`). An instance that was told to stop holds none, and what it gives up is
counted apart: how many messages a SIGTERM costs has no bound but the partition, and
`ToldToStop` says only that there was one. With fewer failures than
tickets for one drop, no SIGTERM and no late start, nothing was given up at all
(`ProcessedWithoutDrops`).

*API.* `Stored` ties what a transaction has written to where its request is, so that
commits are all or nothing and map to `BookingPromise`. `Told` counts the successes with
nothing in the tables against failed commits. `Locks` says of each key that somebody
is behind it. `Claims` bounds, for each key, the requests that may still or did create an
order, plus the key itself while it is free: `SetNX` swaps the one for the other, and only
an expiry or a Redis error adds to the sum. `RowLocksEnd` is inductive with `Stored`:
who writes a row has found it free, and each way out of `WithinTransaction` empties `tx`.

*Cache.* `HeldRow`: a row on its way to `Set` was current when it was queried, at most
`Slow` ago. `EntryEnds`: an entry with a replaced version ends within `TTL + Slow` of the
replacement. A hit never prolongs an entry, so answers inherit the bound.

*Saga.* `Rows` ties payment, `PaymentAuthorized` and the inbox entry that made them
together, and says that there is one event of each kind: with `Handled` (an inbox holds
only what its service handles) a second copy finds the entry of the first. `Causes` says that
a `TicketIssued` in the topic has a `PaymentAuthorized` before it, and order-service comes to
a message when it is done with those before, which is why it never sets a status that the
order has been through until a message is given up. A refund asked for midway does not
change that (`StatusAdvances` is about the statuses that order-service sets): it is
overwritten by the next step of the saga, and by that only. `NeverStalls` needs what an inbox entry has led to (`Landed`):
of the messages that a service has not settled it looks at the first one in the topic,
which is due. That there is a first one is well-founded induction, used once, for the
naturals.

*Saga and promises.* The refinements close the circle: `OutboxRelay`, `InboxConsumer` and
`OrderApi` implement the promises, and the saga is built on nothing else. `Count` (the events
recorded so far are the ones of order, payment, ticket and refunds) bounds the ids;
`CopyAdded` says what a new copy does to the number of copies. In `GroupStep` each
transaction of a service is a `Process` of its own group and a stutter of the other two,
whose effects, counted in recorded events, must not move. Since a refinement alone would be
satisfied by a saga that does too little, `ServicesAreFree` has the converse: what the promise of
a group allows it to process next, the service of the saga may process too.

*View*: to this comes, per query made, what its answer
implies at present. Outbox and inboxes only grow, so it goes on to hold however far the saga
gets between two queries; queries go from effects to causes, so each finds what the
earlier answers need.

*Only model-checked.* Liveness (`EventuallyProcessed`, `EventuallySettled`,
`EventuallyTicketed`, `EventuallyAnswered`), which is beyond the prover: it has no rules for
fairness and `ENABLED`. `NeverStalls` and `NothingPassedOver` are the safety half of
two of them.

## 7. Where code and documents disagree

Each is a run that TLC must refute; the counterexample is the scenario.

| Run | What the code does | What is said of it |
|---|---|---|
| `RelayCrash` | a dead poller's rows stay `processing`; `FetchBatch` takes `new` rows only (`outbox_repo.go:49`) | delivery "without losses", `README.md:113` |
| `RelayUnacked` | `RequiredAcks` is left at none (`producer.go:21`), so a row may be `processed` and its event nowhere | `README.md:113` |
| `ConsumerSigterm` | after a SIGTERM the attempts of the message in hand, and of any that `FetchMessage` still hands out, all fail for their cancelled context; it is dropped (`cmd/consumer/main.go:99`). It takes the 62 s of backoff without a SIGKILL, and kafka-go must still queue the offset commit | "we lose nothing", `README.md:59` |
| `SagaFinalStatus` | a late `PaymentAuthorized`, given up once, takes the order back from `TICKET_ISSUED` (`order_repo.go:58`) | the final status, `README.md:69` |
| `ApiPhantom` | the deferred commit assigns `err` after `return err` has read it: when it fails, `WithinTransaction` returns nil and the client is told of an order that does not exist (`tx_manager.go:39`) | "COMMIT TX", then "200 OK", `docs/architecture_v2.md:52-53` |

What has to go wrong for each is proved as well. Nothing is lost on the way to the topic while
no claim is cut short, no mark fails, no poller dies and no acknowledgement is false
(`NothingIsLostOnTheWay`, for `RelayCrash`), and with truthful acknowledgements `processed` means published
(`ProcessedIsPublished`, for `RelayUnacked`). Committed messages are processed if there is no
SIGTERM, no more failures than retries and no late start (`ProcessedWithoutDrops`, for
`ConsumerSigterm`). `TICKET_ISSUED` is final if no message is given up (`FinalWithoutDrops`, for
`SagaFinalStatus`), and a 201 means an order until a commit fails
(`StoredWithoutCommitErrors`, for `ApiPhantom`).

More are plain from the text and have no run:

- `README.md:58` announces a Dead Letter Queue; after the last retry the code writes a log
  line and commits the offset (`cmd/consumer/main.go:179`). The models call this
  `Drop`, and `dropped` is all that is left of such a message.
- `README.md:46` announces that the worker drops 20% of its messages on purpose; no code
  does that.
- `internal/api/router.go:39` calls a refund idempotent; each request records one more
  `RefundInitiated` (`refund_order.go:71`), an event that nothing consumes.
- `docs/architecture_v2.md:53-54` says of a failed send "Retry later (Backoff)"; when
  `MarkProcessed` fails, `processBatch` returns before `MarkFailed`, and rows whose send
  failed stay `processing` (`poller.go:131`). `StrandedIsBounded` counts this under `mark`.
- `README.md:59` says that nothing is lost; with `KAFKA_START_OFFSET=latest`, which
  `scripts/start.sh:59` sets, a crash before the group's first offset commit skips the
  message in hand (`consumer.go:24`). `InboxConsumer` has this as `late`; `LateStartsEnd` says
  that it is over with the first commit.
- `idempotency.go:54` says that a key becomes `COMPLETED` "after success"; the middleware
  stores it after any outcome (`idempotency.go:61`), so a request that failed cannot be repeated with its key for 24 h. In `OrderApi`, `Complete` does
  not look at the answer either, and `ConflictIsJustified` allows such a conflict.
- `README.md:108` announces protection against a cache stampede and invalidation by events;
  `get_order.go` has neither. `FreshWithin` is what remains true.
- The lists of the workflow view are not from one moment: the inbox list may have an entry
  for an event that the outbox list does not show yet, and a ticket may be shown whose
  payment query came before. `StatusIsExplained` and `EventsAreExplained` say what may be
  relied on.

## 8. What is not modelled

- Start-up, configuration, metrics: reads the environment, connects (five attempts, then
  exit), serves; no state that other parts share. The shutdown of the API is `OrderApi!Kill`,
  that of the services `InboxConsumer!Terminate`, that of the relay `OutboxRelay!Crash`.
- gRPC skeleton, the empty worker and the unused repository: reachable from no binary.
- Frontend: shows what the workflow view returns.
- Kafka, PostgreSQL and Redis themselves. The broker is an append-only partition and a
  group offset; a partition is not lost and keeps its order. A transaction is atomic
  and its unique key blocks a second insert. Redis answers one call at a time and loses
  a key only when its TTL is over. Retention, partition count changes, eviction and
  fail-over of any server are outside.
- Limits of the connection pool, and row locks between the API and order-service: `Saga`
  takes the two transactions in either order.
- Time, but for the cache. Timeouts, back-offs and key expiries are steps that may come at any
  moment; where a duration decides (a SIGKILL before the back-offs are over) section 7 says
  so. `OrderCache` has one clock for Redis and the readers; skew would add to its bound.

## 9. Plan

Modelled first was what the README of the repository promises loudest, delivery without
loss and processing without repetition; then what the client is told, and what it sees.

1. *Done*: every component that keeps state, its safety properties checked and proved, its
   liveness checked.
2. *Done*: the saga proved to be built on the promises that the other modules implement, late
   starts of a group modelled, and the conditions proved under which the claims of
   section 7 hold.
3. *Next*, in the order of what it would add:
   - `OrderCache` in front of `Saga`, so that the age of an answer is one of a status and
     not of a version;
   - one relay run with every fault, once a smaller form of the late send is found:
     `RelayReplicas` and `RelayFaults` are two for the number of their states only.
