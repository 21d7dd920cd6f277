# Verification of the Smart Warehouse

This directory holds TLA+ models of the warehouse event pipeline, the TLC
configurations that check them, and TLAPS proofs. Line numbers refer to `src/`.

## 1. The system

```
client --HTTP--> WMS --Avro--> Kafka topic warehouse-events (3 partitions)
                                        |
                                        v
                    consumer service: ConsumerRunner (one thread)
                        |  process(event)        \  send(event, error)
                        v                          v
                 WarehouseStateProcessor     topic warehouse-events-dlq
                        |  reads, one LOGGED batch
                        v
                    Cassandra (8 tables)
```

| Component | State | Operations | Correct when |
|---|---|---|---|
| Control loop (`consumer_service/main.py`) | fetch position, committed offset, assignment, session, DLQ producer's queue, stopping flag | poll, process, commit, dead-letter, reconnect, seek, stop | no message is lost or skipped; none is counted twice but by a batch that outlived its call; every message settles; a signal ends it |
| State processor (`consumer_service/state_processor.py`, `cassandra/init.cql`) | stock by product and zone (two tables), aggregate by product, versions, processed events, history, orders, order items | `process()` with eight handlers | stock never negative, projections agree, duplicates harmless, newest event wins, an order books what it asks for and completes once |
| WMS (`wms_service/main.py`) | a producer shared by worker threads, its queue, the schema ids its serializers know | publish, bulk publish, health | an answer says what was published, a refused request published nothing, every request is answered |
| Schema registration (`app/avro.py`) | the step and attempt of a start; the registry's level and versions | register, retry | version n is schema vn, BACKWARD comes first, who serves has both |
| HTTP metrics (`app/http_metrics.py`) | three metrics by label | count a request, collect a page | the three agree, also on a page collected in between |
| Lag exporter (`consumer_service/lag_exporter.py`) | a gauge by partition | a sweep over the partitions every 5 s, stop | never understates, converges to the lag |
| Alerts, SLIs, SLO check (`monitoring/`, `scripts/check_slo.py`) | samples, pending alerts, measured values | scrape, evaluate a rule, evaluate the SLOs | an alert or the exit code says what is the case |
| Time, settings (`app/`) | none | parse | - |

How they interact: the loop calls the processor in its own thread and reacts to
its result or exception; the processor and the loop share the Cassandra session,
which the loop replaces after a `StateStoreError`; the Kafka group may take the
partitions away at any moment; the DLQ producer has a thread of its own, which
goes on delivering what a timed-out `flush` left in its queue; a signal sets
`stopping`. Product events are keyed by product and order events by order, so
the events of one product reach the loop in no particular order. The WMS starts by
registering its schemas; then its threads share one producer, whose `flush` serves
delivery reports of all of them. The middleware of `http_metrics` runs in the event
loop, `GET /metrics` in a worker thread. Prometheus reads the pages of the services
and the lag exporter; the alerts and `check_slo.py` read Prometheus.

What is hard here: the outcome of an event is durable in Cassandra or in the DLQ
and its acknowledgement in Kafka, so every crash, lost answer or timeout falls
between two of the three; staleness is decided by the clocks of the senders; an
order is allocated from stock read earlier and from its own pending bookings;
the aggregates are kept by deltas; a batch may outlive the call that sent it; a
thread is told about other threads' messages; offsets and watermarks, or three
counters, are read at different moments. `PROJECT.json` lists the hazards, each with
its line and the properties that cover it.

## 2. Modules

| Module | What it is |
|---|---|
| `DeliveryContract` | what the consumer promises about delivery: `Publish`, `Record`, `RecordLate`, `DeadLetter`, `Ack` |
| `ConsumerRunner` | the control loop, action by action; implements `DeliveryContract` |
| `ConsumerRunnerProofs` | TLAPS theorems about `ConsumerRunner` |
| `MCConsumerRunner` | its constants for TLC |
| `WarehouseEvents` | events, validation, the changes an event asks for: shared data and operators |
| `Ledger` | what the consumer promises about stock and orders: one atomic step per event |
| `StateProcessor` | `process()`, step by step; implements `Ledger` |
| `LateBatches` | `StateProcessor` with batches that are applied after their call gave up |
| `StateProcessorProofs` | TLAPS theorems about `StateProcessor` and `LateBatches` |
| `Sums` | laws of `SumFunctionOnSet`, proved from its definition |
| `StockProofs` | TLAPS theorems about what adds up in `StateProcessor`, and its refinement of `Ledger` |
| `PublishPromise` | what an answer of the WMS says about the topic |
| `EventPublisher` | requests in threads over one producer; implements `PublishPromise` |
| `EventPublisherProofs` | TLAPS theorems about `EventPublisher` |
| `SchemaRegistration` | the start of WMS processes against Schema Registry |
| `SchemaRegistrationProofs` | TLAPS theorems about it |
| `LagExporter` | the sweeps over a topic and a group that move |
| `LagMonitoring` | `LagExporter` composed with Prometheus, two alerts and `check_slo.py` |
| `LagMonitoringProofs` | TLAPS theorems about both |
| `HttpMetrics` | the middleware, its three metrics and `GET /metrics` |
| `ServiceLevels` | `HttpMetrics` composed with Prometheus: availability, error rate and stall |
| `ServiceLevelsProofs` | TLAPS theorems about both |
| `MC...` | events and constants of each of these for TLC |

Operators marked `mutant` are seeded faults: each is a plausible mistake in the
definition that follows it, and `PROJECT.json` names the property that detects it.
No specification uses them.

### ConsumerRunner and the code

`pc` is the point of `ConsumerRunner.run` (lines 103-166): `poll` (110-127),
`decode` (a look-up in Schema Registry, inside `poll`), `process` (132-138, up to the
look-up in `processed_events`), `handle` (the rest of `process()`), `commit` (`_safe_commit`, 171-181), `dlq` (`_handle_dlq`,
183-195, with `DlqProducer.send`, 42-82), `reconnect` (156-160), `rewind` (161 and
192); `down` is a process that died, `closed` one that finished. A message is a
*slot*: its partition and offset. `cur` is the one in hand; `NoSlot` stands for
the message of a consumer error, which has no offset.

* `FetchEvent` and `FetchRaises` are a `poll` that decodes its value and one that
  raises. Decoding needs the writer schema, from the deserializer's cache or from
  Schema Registry: `LookUp` takes the message and leaves the loop at `decode`, inside
  `poll`, until the registry answers (`SchemaArrives`) or refuses (`LookUpFails`).
  The client sets no time-out (95, 112), so neither need ever happen. The loop
  does not distinguish bad bytes from a registry that cannot be reached.
* `Reject`, `Duplicate`, `Dispatch`, `Refuse`, `Record`, `BatchTimesOut` and
  `StoreFails` are `process()`. The processor appears by its interface only: what it
  looks up first, and what it may answer. The look-up and the batch are two steps.
  `Record` covers a batch whose answer is lost. `BatchTimesOut` is a call that gives
  up on a batch Cassandra still has (`state_processor.py:558-565`); `late` counts
  these, by message, and `BatchLands` applies one whenever it likes, also between the
  look-up and the batch of the retry, or never. `landed` counts them by event.
* `DlqSent` and `DlqFails` are `send`. `produce` puts the letter into a queue that
  a timed-out `flush` leaves as it is: `LateLetter` and `LetterExpires` are the
  producer's thread afterwards, and a later `flush` may wait for those letters too.
* `Reconnect` leaves an open session, or the closed one if `_connect` gives up.
  `RewindRaises` is a `seek` on no partition (after a consumer error) or on one
  that is no longer assigned; the client may also ignore the latter, so `Rewind`
  is possible too.
* `Publish`, `LoseAssignment`, `Rejoin`, `LateLetter`, `LetterExpires`, `BatchLands`,
  `Crash` and `Restart` are the environment.

`DeliveryContract` promises that an event is counted once, however many copies and
retries of it there are (`Record`). Of a batch that outlived its call it promises less
(`RecordLate`): it comes after all its predecessors, and counts once. `CountedOnce`
says the same of the loop: what an event counts more than once is no more than what
landed late. That this does happen is finding 2.

### StateProcessor and the code

One call of `process()` (147-178) at a time, `ev` being its event. `pc` names the
part that runs: `dedupe` (148-160), `dispatch` (162-178 and the first checks of
each handler), `items` and `allocate` (`_order_created` 264-285 and
`_allocate_product` 467-493), `collect` (`_order_completed` 322-328), `stale`,
`apply` (`_apply_inventory_changes` 355-386 and 407-419) and `write` (the batch).
Each turn of a loop is a step. Locals are variables with their names in the code:
`changes`, `booked` (`item_quantities`), `rows`, `deltas` (`product_deltas`),
`remaining`. Every read may fail, the batch may fail, and it may be applied
although its answer is lost. The next call takes any event again: this is what
redelivery and reordering by `ConsumerRunner` and Kafka amount to.

Identifiers are atoms, quantities small integers and timestamps naturals in clock
ticks, `Resolution` of which make a millisecond; `Stored` is what a Cassandra
timestamp keeps of one. `Trim` maps an event id to itself without blanks at its
ends; an id that is missing or blank is `None`, and refused. An item's zone is `None` where
it is missing or empty: one of blanks is a zone of its own in the code (269-271, nothing
strips it), and is one in `processor_orders`. `MaxInt` is the limit of a Cassandra `int`. `updated_at`, payloads, reasons
and log lines are left out.

`Ledger` has no reads, loops, aggregates or versions. An inventory event takes
effect at once or not at all; an order is booked in any way that gives each
product the requested total and leaves no row negative; a completion consumes
what was booked.

### LateBatches and the code

`StateProcessor` applies a batch at once or never. The driver's time-out
(`_execute_batch`, 558-565) does not end the batch: the coordinator has it in its
batchlog. `WriteTimesOut` raises `StateWriteError` and leaves the batch in `late`;
`Land` applies it between any two later steps, of the retry or of other events. Cells
carry the time at which the driver sent them, so rows written since stay (`newer`,
`Winner`). One batch is late at a time, it lands as a whole, and not in the middle of
the several reads that are one step of `StateProcessor`.

What survives late batches is that nothing written is negative and that no completed
order reopens. What does not: `NothingCountedTwice` (finding 2), and the properties of
`StateProcessor` that rest on the tables standing still during a call
(`ProjectionsAgree`, `VersionsNeverRegress`, `OrdersFullyBooked`,
`OpenOrdersCompletable`). The code has no counter-measure, such as a conditional
write, that could be checked instead.

### EventPublisher and the code

A request's thread is at `publish` (208-235) or `flush` (236-249); `at` counts the
events it has handed to the producer, `results` the offsets it has for its answer.
`queue` is what `flush` still waits for, of all threads; `outcome` what the producer
knows of a message and `delivery` what `on_delivery` has stored. The producer is not
idempotent: `LoseAck` appends a message whose acknowledgement is lost, and it is
appended again. `EncodeFails` covers an event that does not fit its schema, and a
registry that refuses the first look-up of a schema id or cannot be reached. An empty body stands
for an empty bulk and for `GET /health`, which need a thread too. Contents and keys
are atoms; the process does not die in this model.

### SchemaRegistration and the code

`step` is the request that `register_warehouse_schemas` (38-61) makes next: `config`,
`v1`, `v2`. Every request may be answered, fail, be carried out with its answer lost,
or time out and be carried out later (`Late`). `TryAgain` is the `except` branch. A
process may be restarted wherever it is. The registry is modelled from its use: what
is registered already is not registered again.

### LagExporter, LagMonitoring and the code

`pc` walks through `update_lag` (47-66): `list`, `committed`, then `watermark` and
`set` for each partition. Messages are published and offsets committed between any two
steps, and committed offsets only rise, which is what `DeliveryContract` promises.
`ReadInPart` is an error of a single partition in `committed()`, `Abandon` any
exception. `seen` is a history variable: the end of the log when it was last asked for.

`up` is down before the first scrape, where Prometheus has no series yet and `TargetDown`
no result; `AlertsSettle` is about what holds after scrapes.

`LagMonitoring` adds what Prometheus has scraped, the number of evaluations for which
two alerts have been active, and `check_slo.py`, one query a step. `For` and
`Threshold` stand for `for: 1m` and 50.

### HttpMetrics, ServiceLevels and the code

`dispatch` (66-100) observes the latency, counts the request and counts the error in
three steps of the event loop; it cannot be interrupted by another request's `dispatch`
but by `GET /metrics`, whose thread collects the metrics in the order in which the
module creates them. Methods, buckets and the kinds of errors are left out, statuses
are classes.

`ServiceLevels` evaluates `wms_availability`, `HighHttpErrorRate` and
`NoEventsProcessed` over the pages. A rate is given by its increase; a series exists
from its first increment and has a rate from its second sample; a window holds all
scrapes of a behaviour; the alerts' `for` and counter resets are left out. In the code
`labels()` makes a series and `inc()` counts, so a page collected between the two shows
it with 0 (84-88); the model has it from the increment on.

## 3. Runs

| Run | Shows | Instance |
|---|---|---|
| `consumer_safety` | `TypeOK`, `NoLoss`, `NothingSkipped`, `CountedOnce`, and that the loop implements `DeliveryContract` | two partitions with 2 and 1 messages, a good event that may be published several times and may be refused, an undecodable one; one batch may land late (`OneLate`); crashes at any point; 2.7 million states |
| `consumer_liveness` | `StopEnds`, and `EveryMessageSettles` where the environment is `Attended`, under `LoopSpec` | one partition, two messages, good or malformed, no late batch; crashes allowed |
| `consumer_dlq` | violated: finding 1 | only valid events |
| `processor_stock` | stock, projections, aggregates, versions, outcomes; implements `Ledger` | one product in two zones, thirteen events with all eight types, malformed and late ones, several in each millisecond; each may come any number of times |
| `processor_orders` | allocation and order life cycle; implements `Ledger` | two products, two zones and a blank one, three orders, thirteen events, no release |
| `late_batches` | `StockNonNegative` and `OrdersNeverReopen` with late batches | one product, two zones, five events that share rows; 0.3 million states |
| `late_batch_twice` | violated: finding 2 | a single receipt |
| `publisher_answers` | `AnswerHolds`, `RefusedUnpublished`, `BulkInOrder`, `EveryRequestAnswered` under `FairSpec`; implements `PublishPromise` | two bulks, one with a malformed event in the middle, and a single event; two threads, a queue of two, a message appended twice; 0.9 million states |
| `schema_start` | `RegistryInOrder`, `ServingMeansRegistered`, `StartEnds` | two processes, three attempts, two restarts |
| `lag_and_slo_check` | `NeverUnderstated`, `LagConverges`, `StopEnds`, `AlertsSettle`, `BreachTurnsRed` | two partitions, one message each, one failed call, two SLOs; 0.7 million states |
| `slo_without_data` | violated: finding 3 | one partition |
| `service_levels` | `MetricsAgree`, `PagesConsistent`, `AvailabilityMeasured` | two requests, an event and three scrapes of each service; 0.9 million states |

The directory holds more instances. They answer questions that are close to those of
the runs and can be run in the same way (`tlc -config <file> <module>`):

| Configuration | Module | Shows |
|---|---|---|
| `EventPublisherLive.cfg` | `MCEventPublisher` | one thread, a health check behind a bulk: every request is answered |
| `LagExporterSweeps.cfg` | `MCLagExporter` | longer logs and two failed calls, the exporter alone |
| `LagMonitoringAlerts.cfg` | `MCLagMonitoring` | alerts that have to be active twice before they fire |
| `HttpMetricsCounts.cfg` | `MCHttpMetrics` | three requests |
| `ConsumerRunnerError.cfg` | `MCConsumerRunner` | violated: finding 4 |
| `StateProcessorSubMs.cfg`, `StateProcessorPadded.cfg` | `MCStateProcessor` | violated: findings 5 and 6 |
| `EventPublisherTimeout.cfg` | `MCEventPublisher` | violated: finding 7 |
| `ServiceLevelsErrors.cfg`, `ServiceLevelsStall.cfg`, `ServiceLevelsIdle.cfg` | `MCServiceLevels` | violated: findings 8, 9 and 10 |

Bounds. Two messages in a partition are the fewest with which a commit can cover a
failed predecessor; the second partition makes the offsets independent and lets
copies of an event meet. A second good event adds nothing that a copy or an
undecodable message does not: `DeliveryContract` relates a message to its
predecessors only. In the processor runs the events are fixed and finite, so the
tables reach finitely many values without a bound on the number of calls.
Quantities are chosen so that every operation is possible in one order of
arrival and impossible in another; with two zones an allocation can span rows, an
order's second item meets the bookings of its first, and a row can be short while
the aggregate is not. `MaxInt` is 3 in `processor_stock`, which receives 3 and
then 2: some batches do not fit and fail for ever. `Resolution` is 3 in the passing runs
of the processor, so that neighbouring events share a millisecond and `Stored` rounds.

One late batch, of the first message of the longer partition, is enough to meet its own
retry, a copy of its event in the other partition, its successor and a crash; with two,
each alone is such a case. The liveness run has none: a batch that lands only settles
a message.

Three requests over two threads are the fewest with which one waits, two share the
producer and leftovers of a third meet them; a queue of two is full with one message
of each thread. In `lag_and_slo_check` one message for each of two partitions lets any
of them lag alone, become visible between two calls of a sweep and be consumed again;
with `Threshold = 0` that is a breach, and `For = 0` lets an alert fire at once
(`LagMonitoringAlerts.cfg` has `For = 1`). A second SLO that may have no result, be
satisfied or be breached stands for the others. Three scrapes are what `AvailabilityMeasured` needs. Two
processes are the fewest that overtake each other in the registry, and with three
attempts a late request can meet both a later attempt and another process.

`OpenOrdersCompletable` is checked where no event releases stock: a
`PRODUCT_RELEASED` may release an open order's reserve, as the code allows.
Deadlock is checked in the runs of the consumer and the state processor. Elsewhere a
behaviour may end: all requests are answered, all starts are over, the exporter has
stopped.

### Fairness

* `LoopSpec`: the loop's own steps. Each call outside `poll` has a time limit in
  the code or the driver (flush 10 s, request 20 s, 60 attempts to connect), and `poll`
  returns after a second, but for the look-up of a writer schema in it: confluent-kafka
  2.4.0 sends that request without a time-out. `LoopStep` therefore leaves the registry's
  answer out, and `StopEnds` says that a signal ends the loop or a look-up that is never
  answered holds it.
* `Served`: a call that is tried again for ever succeeds in the end (strong
  fairness of a successful fetch, look-up of a schema, verdict, letter, commit and
  reconnect for each partition), and the group stops taking the partitions away.
  Without the last assumption a message may be redelivered for ever, as any
  consumer's may.
* `Attended` is `Served` and that a dead process is started again. `docker-compose.yml`
  gives the consumer no restart policy, so this is an operator's doing;
  `UnattendedSpec` leaves it out. `EveryMessageSettles` assumes `Attended`, `StopEnds`
  does not.
* `EventPublisher!FairSpec`: each thread's steps. `flush` returns after 10 s, and a
  request that waits for a thread gets one (they queue). Nothing is asked of Kafka. Of
  Schema Registry it is assumed that a look-up ends, with the id or an error: the
  serializers' client has no time-out either (`wms_service/main.py:210-213`), and a
  registry that accepts the request and never answers holds the thread for ever.
* `SchemaRegistration!FairSpec`: a start's steps; requests end after 5 s.
* `LagExporter!FairThread` and `LagMonitoring!FairSpec`: the exporter's steps (every
  call has a time-out of 5 s), scrapes and evaluations (every 5 s), and the steps of
  `check_slo.py` (10 s). Failures are bounded by `MaxTroubles`: after the last one the
  services answer.

### Findings

The first three are runs.

1. `consumer_service/main.py:113`. Any exception of `poll` that carries a message is
   dead-lettered and committed, a Schema Registry outage included; the README's
   diagram (25-26) says that the DLQ holds invalid events.
2. `consumer_service/state_processor.py:560`. A batch that timed out may be applied
   after the retry has looked up `processed_events` and read the stock; the retry then
   adds its quantity to what the batch wrote. README 208 says that a duplicate does
   not duplicate stock.
3. `scripts/check_slo.py:51`. A query without a result is measured as 0, so
   `pipeline_freshness` is satisfied when nothing is known of the lag; line 4 says that
   exit code 0 means that all SLOs are satisfied.
4. `consumer_service/main.py:192`. The loop means to log a consumer error and go
   on (128-130), but the deserializing consumer raises it from `poll`, with a message
   that has no topic and no offset. It is dead-lettered; if that fails, `seek` on no
   partition raises inside an `except` clause of `run`, and the process ends.
5. `consumer_service/state_processor.py:501`. Timestamps are compared with
   microseconds on one side and milliseconds on the other; of two events in a
   millisecond the older may be applied after the newer, which
   `wms_service/main.py:113` says becomes STALE (`OlderIsStale`). What does hold,
   `NewestWins`, is to the millisecond.
6. `consumer_service/state_processor.py:148` and `:582`. An `event_id` is looked up
   stripped and stored as sent. A redelivery of an id with a blank at its end is
   not detected (README 208).
7. `wms_service/main.py:236`. `flush` waits for the messages of all threads. A request
   whose event was delivered is told "Kafka delivery timed out" (238) because another
   request's message is left, and its client will send the event again.
8. `monitoring/alerts.yml:17`. The error rate selects 4xx too; README 301 says that it
   does not.
9. `monitoring/alerts.yml:67`. A consumer that has processed no event since it was
   started has no series of `events_processed_total`, so the alert against a consumer
   that processes nothing (74) has no result.
10. `monitoring/slo.yml:14`. `or vector(1)` replaces an empty result, not the NaN of
    0/0: a service that was used before its first scrape and not since has no
    availability, where line 8 says 1. It lasts until the second scrape, as scrapes
    are requests that count (`AvailabilityMeasured`).

## 4. Proofs

`ConsumerRunnerProofs` proves, for any partitions, events and log lengths, with
`ConsumerAssumption` as the only assumption:

* `TypeCorrect`, `NeverLoses`, `NeverSkips`, `CountsOnce`: `TypeOK`, `NoLoss`,
  `NothingSkipped` and `CountedOnce` are invariants of `Spec`;
* `Refinement`: `Spec` implements `DeliveryContract!Spec`.

The argument. `NoLoss` alone is not inductive: a commit covers all offsets below
the message in hand, so everything below it has to be settled already. This is
`NothingSkipped`, about the fetch position; that in turn needs `MessageInHand`
(the message in hand is the one just below the position, and when the loop is at
`commit` it is settled) and `OffsetsInOrder` (committed <= position <= end of
log). The refinement moreover needs `LettersInOrder` and `BatchesInOrder`: a late letter
of the DLQ queue, or a late batch, has no unsettled predecessor. `CountedOnce` needs
`NotCountedSince`: from the look-up in `processed_events` to the batch of the same call,
the event is counted by late batches only, although any number of them may land in
between. `IInv` is their conjunction. `Invariance`
proves it with one lemma per conjunct over all actions; `SettledStays` says that
settled messages stay settled, so the lemmas only look at what an action moves.
Every action of the loop then maps to `Publish`, `Record`, `RecordLate`, `DeadLetter`,
`Ack` or a stutter, one lemma each.

`StateProcessorProofs` proves, for any products, zones, orders, events and tables
and any `Resolution` and `MaxInt`, from `EventsAssumption`, `MaxIntAssumption` and the
hypotheses a theorem names:

* `TypeCorrect`, `NeverNegative`: `TypeOK` and `StockNonNegative` are invariants;
* `VersionsOnlyRise`, `OrdersAdvance`: `VersionsNeverRegress` and `OrderLifecycle`;
* `RedeliveryHarmless`: `DuplicatesHarmless`, if ids have no blanks at their ends.
  The hypothesis is needed: finding 6 is what happens without it;
* `NewestEventWins`: `NewestWins`, if no two events share an id.

The argument. A call reads the tables, plans, and writes them in a single batch at its
end, and only one call runs; so what it has read still holds when it writes.
`StateProcessor!IInv` says what that is at each point: the event's id has no outcome
(`EventInHand`), its order has the status the handler asked for (`OrderInHand`), every
entity of the plan is older than the event and no planned row or aggregate is
negative (`PlanInHand`). `VersionsStored` (a version is a moment in whole milliseconds)
is what keeps rounding from moving a version back. For `NewestWins` a second
invariant is needed, `Precedence`: the plan has a change for every product its event
touches, also those an order allocated or a completion collected (`PlanCovers`), and
the versions of the products an applied event touched are not older than it
(`AppliedSeen`). TLC found both to be invariants of the processor instances first. Every
step either ends the call, decides to record the event only, advances it, or is the
batch (`NextKinds`), and only the batch writes tables (`OnlyWriteWrites`).

`StateProcessorProofs` also proves, from the same assumptions, `NeverNegativeHoweverLate`
and `CompletedForGood`: `StockNonNegative` and `OrdersNeverReopen` hold of `LateSpec`. Little
that is known of the tables otherwise is left, as they change under a call.
For the stock, what is left is that every planned row was tested when it was planned,
that the aggregates are tested in the step before the batch (`PlanPositive`), and that a
late batch holds what was tested (`BatchPositive`). For the orders it is that no batch,
in time or late, makes an order unknown again or completes one that was not created
(`LateOrders`), so that what a handler asked of its order's status still holds in part
when it writes (`LateOrderInHand`), and that a completion marks the order's row as newer
than a creation on its way.

`Sums` proves what the next proofs need of a sum over a finite set: it does not depend
on the order of its terms, a term may be split off, changed or added, sums of equal
terms are equal, sums of smaller terms are no greater, naturals sum to a natural. The
sum of the community modules is a recursive function over the subsets of the set; that
there is one comes by induction over these subsets, well-founded by inclusion
(`SubsetInduction`, `SumExists`, `SumUnique`).

`StockProofs` proves, for any products, zones, orders, events and tables:

* `ProjectionsAlwaysAgree`, `AggregatesNeverRefuse`: `ProjectionsAgree` and
  `TotalsNeverRefuse`. The test at the end of `_apply_inventory_changes` (407-419) never
  fires: sums of rows that suffice suffice;
* `AllocationSuffices`: `AllocationHolds`;
* `OrdersBookInFull`: `OrdersFullyBooked`, if no two events share an id;
* `OpenOrdersComplete`: `OpenOrdersCompletable`, if no event releases stock, as in the
  run `processor_orders`;
* `ReserveIsExplained`: `ReservedIsExplained`, if no two events share an id and ids have
  no blanks at their ends;
* `ProcessorImplementsLedger`: every step is a step of `Ledger` or a stutter, without
  any hypothesis.

`DistinctIds` and `TrimmedIds` are what producers are meant to send (the WMS's own ids
are uuids). `ReservedIsExplained` and `OrdersFullyBooked` speak of the set of applied
events; two events with one id, or one id in two spellings, make that set say something
else than what was counted. `EventsAssumption` asks of `RowOrder` that it lists every key
once: its order is the clustering order of a table whose primary key is the row.

The argument. `AggInv` is about the aggregates: process() never computes them from the
rows but moves them by `deltas`, so the invariant is that table plus deltas is the sum
of the rows *as the call sees them* (`DeltasAddUp`), which each turn of the apply loop
keeps and the batch makes durable. `StockInv` is about the plan of an order, which is
built over many steps from two sides: `booked` by row, and `changes`, in which a row may
occur several times. `Moved(changes, k, m)` is what the first `m` changes do to row `k`.
`BookingKnown` relates the three sums: the changes of a row sum to what is booked of it;
what is booked of a product, and what is still asked for the item at hand, sum to the
items so far; and where only `_allocate_product` books, no row is booked beyond what it
has. `CompletionKnown` says the same of what `_order_completed` collects, `RowsKnown`
that the current row is the table's after the changes done, `PlanKnown` that an
inventory event still has the changes its handler made. The refinement follows at the
batch (`Write`), the only step of the processor that is not a stutter of `Ledger`.
`OpenOrdersComplete` then adds that no row's reserve is less than what the open orders
hold of it, and `ReserveIsExplained` that it is exactly that and the reservations, less
the releases. TLC found `AggInv` and `StockInv` to be invariants of both processor
instances first.

`EventPublisherProofs` proves, for any requests, bodies, threads, queue and partitions
(`PublisherAssumption`): `TypeCorrect`, `AnswersTrue`, `RefusedNeverPublished`,
`BulksInOrder`, and `Refinement`, that every step is a step of `PublishPromise` or a
stutter. `IInv` adds to `TypeOK` how far each thread is (`ThreadInHand`), that the queue holds
only the last message of a request (`QueueInHand`), that an offset the producer knows
is where the message lies (`ReportsTrue`), and that the offsets collected are in place
and before all later messages of the request in that partition (`ResultsTrue`). The
last is what makes an answer hold although messages are appended twice: a copy can
only come behind, and only while no later event of the request has been handed over.

`LagMonitoringProofs` proves `TypeCorrect` and `LagNeverUnderstated` of `LagExporter` for any
finite set of partitions (`ExporterAssumption`). `NeverUnderstated` needs `SweepBehind`: the offsets
of a sweep are not ahead of the group's, because they were read before the watermark.

It carries that over to the composition (`WatchedLagNeverUnderstated`: a watcher leaves
the exporter's variables alone, so `StepKeeps` applies).

`SchemaRegistrationProofs` proves `TypeCorrect`, `SchemasInOrder` and `ServersRegistered` for
any processes, attempts and restarts (`RegistrationAssumption`). The invariant says
that a request is only made, hence only delayed, when what it needs is done already.

`ServiceLevelsProofs` proves, for any finite set of requests and any number of scrapes
(`MetricsAssumption`): `HttpTypeSafety`, `MetricsAlwaysAgree` and `PagesAlwaysConsistent`
of `HttpMetrics`, and `AvailabilityAlwaysMeasured` of `ServiceLevels`, which leaves the WMS
alone (`WmsAlone`). `MetricsAgree` holds between requests only; `Balance` says what the
one request that is half counted still owes to which counter. For the pages the
invariant is that what was read so far is behind the counters (`PageBehind`), series by
series, and that the order of the reads, requests before errors before durations, is
the reverse of the order in which the middleware counts. For the availability it is that
every page shows one scrape more than the page before it (`Follows`), so that the series
of the scrapes has a rate, and a positive one, from the third page on.

Every safety property that a passing run checks is stated by a theorem, as an
invariant, an action property or a refinement. Only model-checked: liveness
(`EveryMessageSettles`, `StopEnds`, `EveryRequestAnswered`, `LagConverges`, `AlertsSettle`,
`BreachTurnsRed`, `StartEnds`), which is temporal reasoning with fairness, beyond the
provers at hand; and the findings, which are counterexamples. `NoLoss` and its like are
proved of any instance, so the bounds of section 3 matter to them only in that TLC shows
the models reach the states the theorems speak of. The types of `EventPublisher`,
`LagExporter`, `HttpMetrics` and `SchemaRegistration` are proved, and checked by the
further instances only.

## 5. Not modelled

* Settings, deployment, CI, dashboards and the load test: configuration and
  presentation. What matters of them (one consumer, no restart policy, intervals,
  partitions) is in the constants and the fairness of the models.
* `utc_now_iso`, `parse_event_timestamp`: a timestamp is a natural number or unparsable, `Stored` is what
  Cassandra keeps of it. Time zones are data without control.
* Latency quantiles (`HighRequestLatencyP95`, `wms_latency_p95`), `CassandraWriteErrors`
  and `cassandra_durability`: single expressions over data the models do not hold.
* The death of a WMS process between `produce` and its answer: the client has no answer
  then, and nothing is promised of it. Restarts that reset counters.
* `ConsumerRunner` and `StateProcessor` in one state space. They meet in the interface:
  `ConsumerRunner` takes any verdict at any time, `StateProcessor` any event again at
  any time, each of which is more than the other does.
* Retries of clients after 503 without an `event_id` of their own: a contract that no
  document states.
