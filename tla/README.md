# Verification of the order service

TLA+ modules, TLC configurations and TLAPS proofs for the Go order service of
this repository: a CQRS write side with a transactional outbox, an outbox
worker, an event bus (in memory or Kafka) and a projection that feeds a read
model.  Paths below are relative to `src/internal/` unless they start with
another directory.

## 1. The system

```
HTTP (gin) --> command handlers --> UnitOfWork: one PostgreSQL transaction
                                      orders, order_items, outbox_events
                                                          |
                                   OutboxWorker polls ----+
                                        |
                                        v
                        EventBus: in memory (synchronous) | Kafka (+ consumer)
                                        |
                                        v
                OrderProjectionHandler --> processed_events, order_views, order_item_views
                                                          |
HTTP (gin) --> query handlers  <--------------------------+
```

| Component | State | Operations | Correct when |
|---|---|---|---|
| Order aggregate (`domain/order`) | status, items, version, raised events | NewOrder, AddItem, Confirm, TotalAmount | only a DRAFT order changes, no order without items is confirmed, every change raises its event |
| Command handlers, unit of work, repository (`application/command`, `infrastructure/persistence`) | tables orders, order_items, outbox_events; one open transaction per request | FindByID, Save, Append, commit, rollback | tables and outbox change together; concurrent saves of one order conflict |
| HTTP endpoints (`interfaces/http`) | none | validation, status of each error | the answer tells what happened to the command |
| Outbox store and worker (`outbox_store.go`, `worker/outbox_worker.go`) | rows (status, retry_count, available_at), the batch in memory | FetchPending, Publish, MarkPublished, MarkFailed, RequeueFailed | at-least-once delivery, an end to retries, order within an aggregate |
| In-memory bus (`messaging/inmemory_bus.go`) | handlers per event type | Publish runs the handlers, Subscribe | an error of a handler is an error of Publish |
| Kafka bus and consumer (`messaging/kafka_bus.go`, `worker/kafka_consumer_worker.go`) | topic, committed offset | Publish writes and dispatches locally; fetch, handle, commit | no message is skipped; a second delivery does no harm |
| Projection and read model (`application/projection`, `read_model_store.go`, `processed_event_store.go`) | views, processed_events | IsProcessed, upserts, UpdateOrderStatus, MarkProcessed | the view converges to the order; an event counts once |
| Queries (`application/query`, `read_model_store.go`) | none | GetOrder, ListOrders | an order fits its items, a page its count; paging misses no order, but for ties in `created_at` |
| Idempotency store (`idempotency_store.go`) | idempotency_keys | Check, Store | not called by any code |
| Log hook, database logger (`observability/db_hook.go`, `gorm_logger.go`, `log_store.go`) | a mutex, the connection pool | each SQL statement is logged into the database | logging never blocks the work |
| Bootstrap (`bootstrap/app.go`) | goroutines, signal channel, contexts | start, shutdown | what ends cleanly has drained; no event pays for a shutdown |
| Metrics, tracing, log export, middleware | -- | output | -- |

Where it is hard: transactions of several requests (and processes, as every
`make worker-*` target runs the whole binary) interleave under READ COMMITTED;
a commit's acknowledgment can be lost; the worker publishes before it marks and
can die in between; MarkFailed reads and writes a row in two statements;
retries overtake later events; in Kafka mode one event is handled by two
goroutines; every SQL statement needs a second connection for its log line.
`PROJECT.json` lists these hazards line by line with the properties that
cover them.

## 2. Modules

| Module | Models | Kind |
|---|---|---|
| `OrderDomain` | `domain/order`: aggregate, money, events | pure operators |
| `OrderCommands` | the three commands: HTTP answer, unit of work, repository, outbox append | state machine, one action per SQL statement |
| `TransactionalOutbox` | what the write side promises | abstract specification, two strengths |
| `OrderCommands_proofs` | totals and confirmations of `OrderCommands` | TLAPS |
| `OrderCommandsLog_proofs` | the outbox of `OrderCommands`, the refinement of `TransactionalOutbox`, handlers that are not overtaken | TLAPS |
| `OutboxRelay` | outbox store, outbox worker, requeue | state machine, one action per statement |
| `AtLeastOnceDelivery` | what the relay promises to the bus | abstract specification |
| `OutboxRelay_proofs` | any number of workers, one worker, the refinement of `AtLeastOnceDelivery` | TLAPS |
| `OrderProjection` | projection handler, read model store, processed-event store | state machine, one action per statement |
| `OrderProjection_proofs` | any number of consumers, one consumer, one consumer that is given the events in order | TLAPS |
| `InMemoryPipeline` | the in-memory bus: `OutboxRelay` and `OrderProjection` composed | composition of instances |
| `InMemoryPipeline_proofs` | both parts behave as they do alone; what holds of them together; the history of the orders | TLAPS |
| `KafkaPipeline` | the Kafka bus and its consumer: `OutboxRelay` and `OrderProjection` composed around a partition | composition of instances |
| `KafkaPipeline_proofs` | the relay is the one of `OutboxRelay`; topic, commits, read model | TLAPS |
| `OrderQueries` | the read endpoints and a client that pages, beside `InMemoryPipeline` | state machine, one action per statement |
| `OrderQueries_proofs` | the answers: an order, a page, a listing | TLAPS |
| `ConnPool` | the connection pool, the mutex of the log hook, requests that log inside transactions | actions that `Lifecycle` composes |
| `Lifecycle` | `bootstrap.Run`: start, worker, requests, shutdown, exit | state machine over `ConnPool` |
| `Lifecycle_proofs` | pool, mutex and shutdown | TLAPS |
| `OutboxRelayHistory` | `OutboxRelay` with two history variables: how often each event was really tried | adds no behaviour |
| `OrderCommandsHistory` | `OrderCommands` with a history variable: who was overtaken | adds no behaviour |
| `EventualReadModel` | what a reader of the read model is promised | abstract specification |
| `MCOrderCommands`, `MCOutboxRelay`, `MCOutboxRelaySingle`, `MCOrderProjection`, `MCInMemoryPipeline`, `MCOrderQueries`, `MCKafkaPipeline`, `MCLifecycle` | constants for TLC | |

Operators named "Mutant of X" in a module are plausible bugs of X.  Nothing
uses them; each breaks the property that `PROJECT.json` pairs it with when it
takes the place of X.

## 3. State and actions against the code

**Data.**  An order and an item are their UUIDs.  The id of an item determines
its quantity and price, as `NewOrderItem` draws a fresh id for every item.  The
slice of items is a set.  Customer ids, product names and JSON are
left out, and so are timestamps but for `created_at`; the payload of an event keeps its type, order, item and total.
Amounts are integers that wrap at `IntWidth` bits.  Event ids are positions:
in the commit order of `OrderCommands!outbox`, in the order of `occurred_at`
in `OutboxRelay` and `OrderProjection`.  (`occurred_at` is `time.Now()`, stored to
the microsecond.  Two events of equal `occurred_at` are still numbered, and
fetched in that order, where PostgreSQL may return them in either.  This only
matters for commands of one order that overlap, whose events the numbering may
order either way; for the listings, which sort by it, ties are modelled.)

**OrderCommands.**  A handler is one HTTP request being served.  `Receive` and
`Reject` are the gin handler up to `Execute`; then the statements of the
transaction come one by one: `CreateOrder`, or `FindRow`, `FindItems` (the two
SELECTs of `FindByID`) and `ApplyAddItem` / `ApplyConfirm` (the aggregate, in
memory); `SaveRow`, `ReplaceItems` (`Save`); `AppendEvents`; `Commit` with the
answer.  `orders`, `orderItems` and `outbox` are what is committed; `tx[h]` is
what `h` has written, invisible to the others (READ COMMITTED).  `SaveRow`
waits for the row lock, which the transaction keeps to its end.  `Fail` is any
error of a statement, a cancelled context, a panic or the death of the process;
`CommitUnacknowledged` is a COMMIT that happened and was not heard of.
`GormSave` is GORM's `Save`: UPDATE, and an upsert when no row matched.

**OutboxRelay.**  `row[e]` is the row of an event in `outbox_events`, with
"due" for `available_at <= NOW()`.  `FetchPending` takes the oldest claimable
rows and, as `FOR UPDATE SKIP LOCKED` runs outside of a transaction, may or may
not miss rows that another worker is writing at that moment.  `PublishOk` and
`PublishError` are the two results of `Publish`; `MarkPublished` one UPDATE;
`MarkFailedRead` and `MarkFailedSave` the SELECT and the full-row UPDATE of
`MarkFailed`; `MarkError` a failure of one of them, which the loop only logs;
`Crash` the end of the process or of its context; `RequeueFailed` the
administrator's endpoint.  The backoff's length is abstracted:
`BackoffElapses` may come at any time after it starts.

**OutboxRelayHistory.**  The same actions with two counters for each event that the
code does not keep: the calls of `Publish` (`attempts`) and those that returned an
error (`refused`), both from the last insert or requeue on.  `retry_count` is less
than `refused` when `MarkFailed` fails, or the process dies before it, and
`GivenUpAfterMaxRetries` says by how much at most.

**OrderProjection.**  `at[c]` is the statement that consumer `c` runs next in
`Handle`: IsProcessed, then for OrderCreated the SELECT and the INSERT or UPDATE of
`FirstOrCreate`; for OrderItemAdded the same on the item, the two SELECTs of
`GetOrderByID`, the count and the UPDATE; for OrderConfirmed the count and the
UPDATE; then the SELECT and INSERT of MarkProcessed.  `StatementFails` returns an
error from any of them; `CountFails` does not, as the code drops that error.
The specification of the module itself delivers any event to any consumer at any
time and again, which covers every bus.

**InMemoryPipeline.**  The variables of both instances.  `StartPublish` to
`EndPublish` is one `Publish` of the worker: the handler's statements run in
between, and its result decides between `PublishOk` and `PublishError`.
`Crash` takes the worker and the handler down together.  `EventCommits` makes
an event visible.  `Seen[e]` are the events that the command of event `e` had
before it when it loaded the order: they are visible already, and nothing else has
to be, since commands that overlap commit in any order.  A confirmation carries the
total of the items its command loaded (`CommandAssumption`), which need not be all
that were raised before it (`order_repository.go:28`).  The commands of an order
follow one another when each has seen all earlier events (`OneAtATime`).

**KafkaPipeline.**  Two consumers of `OrderProjection`: the outbox worker, which
runs the handler inside `Publish` (`dispatchLocal`), and the consumer worker.
`WriteMessage` appends to `topic`, the partition of the order, and starts the
local handler; `EndPublish` drops its result, as the code does.  `WriteFails`
leaves open whether the brokers have the message (`faults` counts the faults that
`OutboxRelay` knows, `otherFaults` the writes that fail and the restarts that cost
the worker nothing).  `FetchMessage` gives the
message at `position`, `EndHandle` looks at the handler's result,
`CommitMessages` moves `committed` or fails.  After a failed handler the reader
is not moved back, so the next `FetchMessage` returns the next message.
`Restart` ends both goroutines and starts the reader at `committed`.

**OrderCommandsHistory.**  Each action of `OrderCommands` with `Observe`: a
handler that commits something has overtaken every handler that is in a
transaction.  `SerialUnlessOvertaken` then says what the write side promises to
a handler it did *not* happen to, in an instance with concurrent handlers.

**OrderQueries.**  One client beside the pipeline.  `StartGet` and `ReadRest` are
the two statements of `GetOrderByID`, the row first; `StartList` or `NextPage`
is the count of `ListOrders` and `SelectPage` its SELECT with ORDER BY, LIMIT and
OFFSET.  The handlers above them (`GetOrderHandler`, `ListOrdersHandler`, gin)
only pick values: the page size that is really used (`EffectiveSize`), the
columns that may be sorted by (`Precedes`).  `created_at` is when OrderCreated was
raised (`OccurredAt`); the times of two orders may be equal, nothing breaks the tie,
and each statement may then return the two in either order (`Sorted`).  The projection writes between any
two of these steps.  `EndQuery` is an answer, an error or a client that leaves;
a 404 changes nothing and is no step.  The status filter stands for the filters
by customer and date, which are constant for an order.

**ConnPool.**  `open` are the requests in a transaction, each on a connection of
the pool.  GORM traces every statement (`GormZapLogger.Trace`), zap hands the
line to `hookedCore.Write`, and `DatabaseHook.Hook` locks `mutex` and inserts the
line over another connection, with `context.Background()`: `Lock` and
`WriteLog`.  `at[g]` is what goroutine `g` does next and `after[g]` where it goes
on when its line is written.  `Begin`, `Statement`, `StatementFails`, `End` are
`UnitOfWork.Execute` seen from the pool; what the statements do is in
`OrderCommands`.  A client that leaves cancels the context of its request, and
`database/sql` then rolls its transaction back from a goroutine of its own
(`AwaitDone`).

**Lifecycle.**  `Start` is `Run` up to its select; `Fetch`, `PublishOk`,
`PublishRefused`, `PublishAborted`, `MarkPublished`, `MarkFailed`, `MarkFails` are
the worker seen from the pool and the shutdown (what they do to the rows is in
`OutboxRelay`); `Signal` logs first, then come `Cancel`, `CloseBus`,
`StopListening`, `Drained` or `DrainTimeout`, and `Return` with the deferred
functions, which end the process and all its goroutines; `Start` may follow.
`reason` remembers why a publish failed.

## 4. What is checked

"Expected to fail" runs state what the repository's documentation, comments
or tests say and the code does not do; `PROJECT.json` quotes them.

| Run | Instance | Distinct states | Shows |
|---|---|---|---|
| `commands` | 1 order, 3 items (one invalid), 2 handlers, totals of 3 bits | 26 000 | tables, outbox and answers agree however handlers overwrite one another, also when a total wraps around; a handler that was not overtaken loses nothing (`TransactionalOutbox!SerialNext`); refines `TransactionalOutbox`; every request ends |
| `commands_stale` | 1 order, 2 items, 2 handlers | expected to fail | a save of an outdated aggregate never conflicts: items are lost, a confirmed order is set back to DRAFT |
| `relay_single` | 3 events, batch 2, 2 attempts, 2 faults, 1 requeue, 1 worker | 356 000 | a batch never goes stale; an event is given up after no fewer than `MaxRetries` failed attempts, and tried more often only as far as faults kept attempts from being counted; no needless redelivery, refines `AtLeastOnceDelivery` |
| `relay_two` | 2 events, batch 1, 2 attempts, 2 faults, 1 requeue, 2 workers | 100 000 | published implies delivered; every event is settled in the end, although a batch has room for one of the two only |
| `projection` | 4 events of one order, 2 consumers, 1 failure | 696 000 | an event marked processed has left its rows behind; a count is never ahead |
| `pipeline` | 5 events of 3 orders, two of them created in the same microsecond, batch 1, 1 worker, 1 fault; a client that gets orders and pages through two listings | 179 000 | without failing statements the view goes through the states of the order, one by one, to the last; a client never sees an order with more in its row than in its items, nor a page that is too short, and misses an order only for one of the same `created_at` |
| `pipeline_faulty` | 4 events of one order, an AddItem overlapping another one and the confirmation, batch 2, 1 worker, 2 failures, 1 fault, 1 requeue | 1 540 000 | once the item events are processed, a view counts all items and has their total or that of the confirmation; published implies processed and the rows are there |
| `pipeline_overtaken` | 3 events, the SELECT of UpsertOrderView fails once | expected to fail | OrderConfirmed overtakes the retried OrderCreated and is lost: a published order stays DRAFT |
| `kafka` | 3 events of one order, 1 fault, 1 failed count | 218 000 | published events are in the topic; only processed messages are committed; orders and confirmations are processed in the end, although the two goroutines collide |
| `kafka_skipped` | 3 events, one failed write | expected to fail | the consumer commits past a message whose handler failed, which is not read again |
| `runtime` | 2 requests on one order, the worker, main; a pool of 2 connections; transactions of one statement; restarts | 87 000 | only a pool full of transactions that log (`Stuck`) can hold up a request or a shutdown, and not even that a drain; an exit without error has drained; a shutdown counts no attempt |
| `shutdown_stuck` | the same | expected to fail | when the pool is `Stuck`, SIGTERM is logged before anything else is done: the workers are never cancelled and the process never ends |

**Bounds.**  Two handlers, consumers or workers are what the races found here
need: all state they share is per order (a row lock, a view) or per event (an
outbox row), and each race is between one that has read and one that writes.
The instance of `commands` has one order, because its two handlers share nothing
when they work on two; two orders with two handlers, and three handlers on one
order with two items, were run without an error as well.  Its totals have three
bits, so that a sum wraps around and comes out negative or zero.
Two items tell a lost item from a kept one, the third is invalid; prices are
such that no two sets of items have the same total.  `MaxRetries` is 2 instead
of 10: the code compares the counter with it in one place, and 2 has one
attempt that is retried and one that is the last.  `MaxFaults`, `MaxFailures`
and `MaxRequeues` bound what comes from outside; the loops they leave (retry,
backoff, refetch) are all inside the bounds.  `MayFail` picks the statements
that fail: all of them, all that report it, or the one a counterexample needs.
`pipeline` has three orders, of which two are tied and fall on different pages of
two, and a maximum page size of 2 that the other listing exceeds.  Its batches hold
one event to make room for the client; those of `pipeline_faulty` hold two, and
those of `relay_two` one, so that an event that fails may stand in the way of the
other.  `pipeline_faulty` has the shortest log with an overlapped confirmation:
its total lacks the item that is added meanwhile.  `runtime` has two connections instead of
25 and transactions of one statement instead of three to six: what matters is
that as many requests as there are connections can each hold one and wait to
log, and that one more goroutine then waits behind them; a request that still
has statements to run waits in the same places.
Command UUIDs are drawn fresh, so the number of items and orders bounds the
number of successful commands, not that of attempts.

**Fairness.**  `OrderCommands`: weak fairness of the statements of a live handler,
because Go runs its goroutine and PostgreSQL answers; strong fairness of
`SaveRow`, because PostgreSQL queues the waiters of a row lock.  A failure
or crash is never assumed to happen or to be avoided.  `OutboxRelay` and the
pipeline: weak fairness of the worker's own steps, because the ticker polls for
as long as the process runs and a new process continues after a crash; of
`BackoffElapses`, because time passes; in `KafkaPipeline` also of the consumer's
loop, a goroutine of its own.  Whether Publish succeeds is not part of
the assumption in `OutboxRelay`: `EventuallySettled` says published or given up.
`Lifecycle`: strong fairness of each request, of the worker and of main, because
the mutex, the pool and the row locks they wait for are taken and given back
meanwhile, and `sync.Mutex` (which hands over to a waiter after 1 ms), `database/sql`
(a queue of requests) and PostgreSQL (a queue per row) forget no waiter; weak
fairness of `AwaitDone`, a goroutine of its own.  Clients need not leave and
nobody need send a signal.  The liveness properties assume `[]<>~Stuck`, that the
pool is not deadlocked for good; `shutdown_stuck` shows what happens when it is.
The client of `OrderQueries` is under no fairness.

**Deadlock** is checked in every run.

## 5. What is proved

Every theorem is about the specification without fairness and for all values of
the constants that the named assumptions allow: any number of orders, items,
handlers, workers, consumers, goroutines and events, any batch size, bounds and
integer width.  TLC evaluates every `ASSUME`.

| Module | Theorem | States |
|---|---|---|
| `OrderCommands_proofs` | `TypeCorrect` | `Spec => []TypeOK` |
| | `TotalAlwaysMatches` | `Spec => []TotalMatchesItems` |
| | `ConfirmedAlwaysHasItems` | `Spec => []ConfirmedHasItems` |
| `OrderCommandsLog_proofs` | `StateIsAnnounced` | `Spec => []StateWasAnnounced` |
| | `LogAlwaysWellFormed` | `Spec => []LogWellFormed` |
| | `AnsweredAlwaysLogged` | `Spec => []AnsweredWasLogged` |
| | `CommandsImplementOutbox` | `Spec => ImplementsOutbox` |
| | `NotOvertakenIsSerial` | `HSpec => SerialUnlessOvertaken` |
| `OutboxRelay_proofs` | `TypeCorrect` | `Spec => []TypeOK` |
| | `PublishedOnlyIfDelivered` | `Spec => []PublishedWasDelivered` |
| | `AloneBatchIsCurrent` | `Alone => (Spec => []BatchIsCurrent)` |
| | `AloneGivesUpInTime` | `Alone => (HSpec => []GivenUpAfterMaxRetries)` |
| | `AloneRedeliversForAReason` | `Alone => (Spec => NoRedeliveryWithoutFailure)` |
| | `AloneImplementsAtLeastOnce` | `Alone => (Spec => ImplementsAtLeastOnce)` |
| `OrderProjection_proofs` | `TypeCorrect` | `Spec => []TypeOK` |
| | `ProcessedAlwaysReflected` | `Spec => []ProcessedIsReflected` |
| | `CountIsNeverAhead` | `Spec => []CountNeverAhead` |
| | `AloneTotalsAgree` | `Exact => (Spec => []TotalsAgree)` |
| `InMemoryPipeline_proofs` | `PipelineImplementsRelay` | `Spec => R!Spec` |
| | `PipelineImplementsProjection` | `Spec => P!Spec` |
| | `PublishedAlwaysProcessed` | `Spec => []PublishedIsProcessed` |
| | `PublishedAlwaysReflected` | `Spec => []PublishedIsReflected` |
| | `AloneTotalsAgree` | `Exact => (Spec => []TotalsAgree)` |
| | `PublishedIsConsistent` | `Serial => (Spec => []PublishedMeansConsistent)` |
| | `HistoryIsShown` | `Serial => (Spec => ShowsTheHistory)` |
| `OrderQueries_proofs` | `OrdersFit` | `Serial => (QuerySpec => []OrderFitsItsItems)` |
| | `PagesFit` | `Serial => (QuerySpec => []PageFitsItsCount)` |
| | `OnlyTiedAreMissed` | `Serial => (QuerySpec => []OnlyTiedOrdersAreMissed)` |
| `KafkaPipeline_proofs` | `KafkaImplementsRelay` | `Spec => R!Spec` |
| | `PublishedAlwaysWritten` | `Spec => []PublishedWasWritten` |
| | `CommitsOnlyProcessed` | `Spec => CommitsProcessed` |
| | `ProcessedAlwaysReflected` | `Spec => []P!ProcessedIsReflected` |
| `Lifecycle_proofs` | `TypeCorrect` | `Spec => []TypeOK` |
| | `CleanExitDrains` | `Spec => CleanExitHasDrained` |
| | `ShutdownCostsNothing` | `Spec => ShutdownChargesNoAttempt` |

**Assumptions.**  `ItemAssumption` and `NoItemAssumption` (quantities and prices are
integers, the width is positive, the null item is no item); `RelayAssumption`,
`ProjectionAssumption`, `PipelineAssumption`, `KafkaAssumption` and
`FailureAssumption` (the log is a sequence of events, bounds are numbers, what may
fail is a statement); `CommandAssumption` (a command has seen earlier events of its
order, OrderCreated among them, and a confirmation has the total of items it has
seen); `QueryAssumption` (events have times, of which nothing else is assumed; a
listing has a filter, a sorting and a
size, and the default page size is in range); `PoolAssumption` and `LifecycleAssumption` (a pool has a
connection, the goroutines are different).  Sets are not assumed to be finite.

Three hypotheses are named in the theorems that need them.  `Alone` says that
there is at most one worker, which is what one process of the repository runs;
with two, the four properties are false, as `BatchIsCurrent` and the stale save
of `MarkFailed` depend on nobody else claiming the row, and only
`PublishedOnlyIfDelivered` remains.  `Exact` says that there is one consumer, that
the count of `UpdateOrderStatus` does not fail (the code drops its error and
writes 0), and that no sum wraps around (`TotalsFit`); of the log it assumes
nothing.  Hence `TotalsAgree` cannot promise the total of all items: a
confirmation that overlapped an AddItem carries less, and the projection writes
it over the total it has recalculated.
`Serial` is `Exact` and more: no statement of the handler fails (`MayFail = {}`;
marks may fail and processes crash), the commands of an order follow one another,
both in the log (`SerialLog`: an order is created first and nothing follows its
confirmation; `ConfirmedTotals`: that has the total of all its items) and in the order they become visible (`OneAtATime`).  Without it
the read model need not follow the order: `pipeline_overtaken` refutes
`PublishedMeansConsistent` with one statement that fails once.  TLC evaluates the
part of these hypotheses that is about the log: `TotalsFit` for both logs of
`MCInMemoryPipeline`, all of it for that of `MCOrderQueries` (`LogAssumption`).

**Totals and confirmations of `OrderCommands`.**  Neither safety property is
inductive: a commit writes the row and
the items from `tx[h]`, so one has to know that they were made from one aggregate
and that the items deleted are those committed *now*, although other handlers
may have committed since `h` loaded the order.  `IInv` adds: the write set's row has the
status and the total of the aggregate (`RowOfAggregate`); once the items are
written, the deleted ones are all that are committed and the inserted ones are
the aggregate's (`ItemsOfAggregate`); an aggregate to be saved as CONFIRMED has
items (`AppliedConfirmed`, from `Order.Confirm`); and two handlers that have
written a row have written different ones (`RowLock`).  The row lock is what
keeps `ItemsOfAggregate` true while others commit: it is the order of the two
statements in `Save`, row first, that makes the total consistent, not the
version.

**The outbox of `OrderCommands`.**  That the log tells of every state needs a second
invariant, `LInv`, on top of `IInv`.  A handler carries the one event of its
command from the aggregate to the commit (`CommandApplied`, `EventsOfAggregate`);
the items it has in memory were announced, but for the one it adds
(`ItemsAnnounced`), so that a stale save can remove announced items and
never bring in others; and the identifier its command introduces is its
own (`OwnOrder`, `OwnItem`), which is why no event can be in the log twice
although nothing locks the log.  The refinement follows: every action but a
commit leaves tables and outbox alone, and a commit is one operation of
`TransactionalOutbox` with its event, acknowledged or not.  That it is even an
operation on the order *as it is* needs the history: as long as nobody has
overtaken `h`, the committed status and items are those its aggregate was made
from (`AsLoaded`, in `HInv`), since every commit makes whoever is in a
transaction overtaken.

**`OutboxRelay`.**  For any number of workers the invariant only has to add what a
worker knows before it writes: `DeliveredBeforeMark`, that the row it is about to
mark, or to save as it read it, is published only if the event was delivered.
For one worker, `AloneInv` adds that what `MarkFailed` has read is still there
when it saves (`SavedAsRead`), and that a
delivered event that looks untried is the one in hand (`RedeliveryHasReason`), from
which the reason of a redelivery and the refinement follow.  For the attempts, the
invariant of `OutboxRelayHistory` compares the history with the row: `retry_count`
never exceeds `refused`, and `attempts` exceeds it by no more than the faults so
far and the attempt in hand.

**`OrderProjection`.**  `Handle` holds no lock, and two consumers may run it for the
same event.  `InPlace` says for each place in `Handle` what is in the tables by
then.  It survives the steps of others because rows are never deleted and a count
is only too low; hence an event may be marked although another consumer wrote
its rows, and `CountNeverAhead` although the count is read before it is written.
For one consumer `TotalsInv` adds that a view whose totals are stale has an item
event that is not processed (`StaleIsPending`), and that what the consumer read is
still so when it writes (`Undisturbed`).  That covers retries that arrive after
the confirmation: the last item event to be processed rewrites the totals from
the item rows, and only a confirmation, with the total it carries, may write over
them afterwards.  When the one consumer is also given the events of an order in
their order, and again only after a crash, `HistoryInv` adds that the view is the
order after the processed events or after the next one, of which an attempt may
have been cut off (`Shown`); the item rows may be one event ahead of the view,
never behind.

**The pipelines.**  The proof modules instantiate the components' proof modules
(`RP`, `PP`); the `Same...` lemmas say that their definitions are those of the
instances `R` and `P` that the pipeline is made of.  Every step is then shown to
be a step of each part or to leave it alone (`RelayStep`, `ProjectionStep`), so
the parts' invariants carry over without being proved again.  What is new are
the facts that tie them: in memory, a worker is in `Handle` only during its
`Publish` and with that event (`HandlesCurrent`); with Kafka, offsets are in order
(`TopicTypes`), the local dispatch follows the write (`WorkerWrites`), and the
consumer commits the message it has handled (`ConsumerHandles`).

That the worker of `InMemoryPipeline` does give the events of an order in their
order is proved under `Serial`: no row waits for a backoff and none becomes
visible before an earlier one of its order (`RowsInOrder`), so that a batch, which
takes the oldest rows, has with an event all earlier ones that are not processed
yet (`BatchInOrder`).  The part of an order that the view shows is then a prefix of its events,
and each write of the view adds the next one: the step of `EventualReadModel`.

**`OrderQueries`.**  An answer is made of two reads, so the invariant says
what the first one has read is still worth at the second: a row's count and
total are those of a subset of items that only get more (`RowFits`); the orders that
were counted have not left the listing (`PageInv`).  For a listing over several pages,
`ListingInv` says that an order the client has yet to see, unless it has seen
another of the same time, has at least as many orders of an earlier place (`Ahead`)
as the pages so far have passed (`Passed`).  Orders that are inserted meanwhile only
add to the former; the first row after those that come before an order is the order
or one that is tied with it (`PlaceOfRow`), however the tied ones are arranged; and
the next offset is at most one page further, also when
the product wraps around and the code starts over from 0 (`OffsetBounds`).
`ReadModelGrows`, that views, items and confirmations stay, comes from
`HistoryInv`: without `Serial` a retried OrderCreated sets a confirmed view back
to DRAFT.

**`Lifecycle`.**  `PlacesOK`: a goroutine writes a log line exactly when it holds the
mutex, and goes on at a place of its own.  `PoolOK`: a connection belongs to a
transaction that still has something to do.  `ShutdownOK` and `DrainOK`: what has
happened before each place of the shutdown; a publish can only be aborted, and a
writer closed, after the workers were cancelled, and then `MarkFailed` fails on
the cancelled context; once the server drains, no request enters.

**Only model-checked**, and why:

* All liveness (`EveryRequestEnds`, `RequestsEnd`, `EventuallySettled`, `PublishedIsProcessedEventually`,
  `ShutdownEndsUnlessStuck`, `DrainEnds`, `EventuallyConsistent`): the prover does
  not reach fairness and ENABLED.  Every other property of a passing run is proved.
* What `TotalAmount` computes: it is a fold over a set.  The proofs use that it
  is in range, that equal sets have equal totals, and the hypothesis `TotalsFit`.
* The four runs that are expected to fail.

## 6. What is not modelled

* The idempotency store (`idempotency_store.go`): nothing constructs or calls it,
  so it has no behaviour here.  That a client's retry after a lost answer repeats
  the command is visible in `OrderCommands` (`CommitUnacknowledged`), but no code
  tries to prevent it.
* The NATS bus, a skeleton whose methods do nothing; the chi handlers of
  `handler.go`, which no router uses; `docs/docs.go`, which is generated.
* The values of the configuration, which are constants of the modules.
* Of the Kafka side: several processes in one consumer group, rebalances, and
  messages that cannot be parsed (which `Publish` never writes).
* Of the projection: an event of an unknown type, which the write side never
  raises.  Of the queries: sorting by status and updated_at.
* An idle keep-alive connection on which one more request comes in while the server
  drains: the drain waits for it like for the others.
* What metrics, traces and log lines contain and where they are exported to; of
  these only what can fail, block or panic is in `ConnPool` and `Lifecycle`.
* Time: backoff lengths, the lengths of timeouts, clocks that disagree.

The nil cleanup that `Run` defers when a telemetry endpoint does not parse is in
`Lifecycle` (`Return` may end in "panic"), and `CleanExitHasDrained` does not call
that a clean exit; nothing in the repository says what the exit should be.

## 7. Plan

Next to be proved:

* what `OutboxRelay_proofs` says of one worker, for the pipelines by way of
  `PipelineImplementsRelay` and `KafkaImplementsRelay`;
* for the Kafka pipeline, what `HistoryInv` says in memory: the local dispatch and
  the consumer collide, so it needs weaker hypotheses and a weaker `Shown`;
* a log that `OrderCommands` writes when no handler is overtaken satisfies
  `SerialLog` and `ConfirmedTotals`, the hypotheses on the log in `Serial`.

An end-to-end composition of `OrderCommands` and `InMemoryPipeline`
(what a client was told reaches the view) is too large for TLC; `ImplementsOutbox`
and `AnsweredWasLogged` on one side, and the pipelines, whose `EventCommits` admits
every order of commits the commands have, on the other, cover its halves.
