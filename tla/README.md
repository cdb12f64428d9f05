# A TLA+ model of workshop-service

workshop-service owns the service catalog, the parts inventory, the reservation and
release of stock, and the executions of a vehicle workshop. It is a NestJS program
with two ways in, HTTP requests of operators and RabbitMQ messages of an order saga,
and one MySQL database of its own. The deployment runs two to five replicas
(`k8s/deployment.yaml`, `k8s/hpa.yaml`), each handling one message at a time per
channel (`prefetch(1)`) and any number of HTTP requests.

Paths below are relative to `src/src/` unless they start with `k8s`, `test` or
`docker`.

## 1. The system

### Components, their state and their operations

| Component | State | Operations |
|---|---|---|
| Consumed-message ledger, `messaging/consumed-message.repository.ts` | table `consumed_messages`: status, claim token, lease, per consumer and event id | `claim`, `markProcessed`, `markFailed` |
| Message delivery, `messaging/rabbitmq-broker.ts` (`handleMessage`, `republishFailure`) | copies of a message in queue, retry queue and dead letters; `x-retry-count` | deliver, acknowledge, republish, nack |
| Connection and subscriptions, `messaging/rabbitmq-broker.ts` | fields of `RabbitMqConnection` and `RabbitMqConsumer`, the recovery timer | `getChannel`, `subscribe`, `restoreSubscriptions`, `invalidateConnection`, `invalidateChannel` |
| Stock reservation, `messaging/stock-events.service.ts` (`consumeReserve`), `part/application/services/stock-reservation.service.ts` | tables `parts`, `stock_reservations` | `reserveStock` for each item of a message, all at once |
| Stock release, `consumeRelease`, `part/infrastructure/persistence/typeorm-stock-release-unit-of-work.ts` | the same tables and `stock_release_operations` | one transaction with row locks for each command |
| Parts, `part/application/services/part.service.ts`, `part/domain/entities/part.entity.ts` | table `parts` | create, update, delete, and add, remove, reserve, release, commit stock by hand |
| Executions, `execution/`, `messaging/execution-events.service.ts`, `messaging/execution-rabbitmq.publisher.ts` | table `executions` | create from `execution.requested`; `startDiagnosis`, `startRepair`, `finish`, `fail` |
| Service catalog, `service-catalog/` | table `service_catalog_items` | create, update, delete |
| Authentication, configuration, logging, metrics, filters, health, migrations, DTOs | none that the others read | not modelled, see section 8 |

### How they interact

- A message reaches `handleMessage`, which calls one of `consumeReserve`,
  `consumeRelease`, `consumeExecutionRequested`. Each claims the event id in the
  ledger, does its work, publishes a result and marks the message processed. A
  handler that throws has its message republished with a higher retry count, or sent
  to the dead letters.
- Reservations, releases and the commands of operators share the rows of `parts`
  and of `stock_reservations`. The release locks them: the writes of the others wait
  for it, their plain reads do not. The others read, change an entity in memory and
  save it: TypeORM loads the row again and writes the columns that differ. A release
  command can arrive before, during or after the reserve command of its order.
- A handler publishes its result on the channel of the moment, which may be another
  than the one it was called on, and awaits the broker's confirmation.
- Every publication and both subscriptions share one connection and one channel per
  replica; the consumer is told through a listener when the channel changes.

### What is hard, and what makes each component correct

- *Ledger.* Deliveries of one message overlap statement by statement, a replica dies
  with a claim, a worker outlives its lease. Correct: two deliveries overlap only
  after a lease has run out, only the latest claim completes the message, a
  processed message is never claimed again.
- *Delivery.* A channel is lost between publication, confirmation and
  acknowledgement; a replica dies; the refusals of a live lease use up retries.
  Correct: an unprocessed message is never lost, copies do not multiply, a processed
  message has its result with the broker, every copy comes to rest.
- *Connection.* Attempts, losses, publishers and the timer come in any order.
  Correct: no queue is left without a consumer and without a recovery under way,
  unless the broker has cancelled its consumer on the channel that is open, of which
  the code takes no notice.
- *Reservation.* The items of a message interleave, and a handler whose message has
  been rejected may still have items at work. Correct: units are neither lost nor
  invented, a command has one answer, the answer agrees with the rows, no more is
  promised than there is.
- *Release.* Transactions overlap on shared parts, a duplicate runs beside its
  original, snapshots differ from locked reads. Correct: stock, reservations and
  report change together or not at all, one envelope for each command, no deadlock.
- *Parts.* A part is saved as it was read. Correct: quantities balance, what orders
  have reserved is covered, a deactivated part is taken up by nobody.
- *Executions.* Two keys (saga and order) are looked up and inserted by overlapping
  deliveries; a row is saved and its event is not published. Correct: an accepted
  message has its execution, the events agree with the row, a transition whose
  command ended well has been announced, the row follows the lifecycle, terminal
  states are final.
- *Catalog.* A name is looked up and then written. Correct: names are distinct, a
  deactivated item stays so.

`PROJECT.json` lists each hazard at its line with the properties that cover it.

## 2. The modules

| Module | Models | Runs |
|---|---|---|
| `FencedJob` | what the ledger promises: a job under a fencing token | refined by `ConsumedMessages` |
| `ConsumedMessages` | the statements of `claim`, `markProcessed`, `markFailed` | `consumed_messages` |
| `ConsumedMessagesProofs` | the proofs about it | |
| `MessageDelivery` | extends `ConsumedMessages` with broker, channels and replicas | `message_delivery` |
| `MessageDeliveryProofs` | the proofs about it | |
| `BrokerSubscriptions` | the connection of one replica and its recovery | `broker_subscriptions`, `broker_setup_lost` |
| `BrokerSubscriptionsProofs` | the proofs about it | |
| `StockTables` | the two tables that reservation, release and parts share, and TypeORM's save | |
| `StockReservation` | `consumeReserve` and `reserveStock` | `stock_oversell`, `stock_taken_twice` |
| `PartStock` | extends `StockReservation` with everything operators do to a part | in `shared_stock` |
| `SharedStock` | composes `PartStock` and an instance of `StockRelease` on the same tables | `shared_stock`, `release_lost` |
| `SharedStockProofs` | the proofs about it | |
| `AtomicRelease` | what a release promises: a command is decided in one step | refined by `StockRelease` |
| `StockRelease` | the unit of work, with row locks and snapshots, and the publication | `stock_release` |
| `StockReleaseProofs` | the proofs about it | |
| `ExecutionLifecycle` | what the status of an execution may do | refined by `Executions` |
| `Executions` | creation, the four commands, saves and publications | `executions`, `executions_concurrent` |
| `ExecutionsProofs` | the proofs about it | |
| `ServiceCatalog` | the catalog's requests on its table | `service_catalog` |
| `ServiceCatalogProofs` | the proofs about it | |
| `SumTheorems` | facts about sums, for the proofs that count units and copies | |
| `MC...` | the instances of TLC | |

### State and code

*Names.* State keeps the names of the columns and fields it stands for, with these
liberties. An `ABSENT` status or `NULL` is a row that is not there. `pc`, `phase` or
`stage` says which awaited call a handler is at. `attempts`, `now` and `clock` are
the time. Variables described as *history* are not in the code; they record what
happened, for the properties.

*Steps.* An action is one database statement, one call of amqplib, or the code
between two awaits. The reads and changes of memory that follow an awaited answer
belong to the action of that answer. A request whose first answer makes it end
without an effect is no step.

*`ConsumedMessages`.* A worker is one delivery. `StartClaim` takes the time and the
token before the first await; `InsertRow`, `ReadRow`, `UpdateFailed` and
`UpdateExpired` are the four statements of `claim`; `Operate` is the end of the
operation, `MarkProcessed` and `MarkFailed` are guarded by the token as the UPDATEs
are. The column `lease_expires_at` has no fraction of a second, so `Stored` rounds
to `Precision`. The initial states include the rows that the migration of the lease
columns found `PROCESSING`, without token and lease.

*`MessageDelivery`.* `answered` says that the broker has taken a result, `sent` that
a handler awaits the confirmation of one. A channel that closes then tells the
handler nothing: the broker may have the result or not, and the publication may fail
or never settle. In the second case the handler takes no further step, which is the
same as a dead one: its claim stays until the lease is over. `queue` counts copies
by retry count: the delay of the retry exchange is not visible, so a copy in it is a
copy in the queue. `delivery` is the message in a handler, with the state of its
channel and of the handler's promise. `handleMessage` acknowledges inside its `try`,
so `Acknowledge` on a closed channel ends the delivery either way.

*`BrokerSubscriptions`.* `link` is the four fields of `RabbitMqConnection`,
`consumer` those of `RabbitMqConsumer`, `applying` the one `applySubscriptions` in
progress. Steps of one turn of the event loop are one action; in particular the
listener, which `createChannel` calls, runs in the action that opens or loses a
channel. `unguarded` is who awaits a setup without a catch: a failure of that setup
ends the process, as Node ends on an unhandled rejection or a rejected boot.
`ConsumerCancelled` is the broker's cancellation of a consumer, as when a queue is
deleted or moves to another node: amqplib calls the callback with `null`,
`handleMessage` returns, and no field changes. `cancelled` keeps the queue and the
channel on which that happened.

*`StockReservation`.* A worker is a delivery, its `task` sequence the `reserveStock`
calls that `Promise.all` started, each with its own Part in memory. `SaveColumns` is
TypeORM's save. Saga and order are one name: the unique key has both, and the
messages of a saga carry its order. What remains of a rejected delivery are tasks of
a worker that will not answer.

*`PartStock`.* Adds operators, whose `Command`s are the endpoints of
`PartController`. `code` tells the rows that exist from those that may be created;
`findById` and `findByCode` do not see inactive parts, so for them a row that is not
there is an inactive one. The module has steps and no specification of its own.

*`SharedStock`.* Its steps are those of `PartStock` and of `Release`, an instance of
`StockRelease` whose tables are the same variables. The two meet in two places. A write
to a part waits while a release holds the part's lock (`PartIsFree`), and an insert of a
reservation waits while one holds the row, or the gap where a locking read has found no
row (`KeyIsFree`). And the release's save compares with the snapshot of its transaction,
which the writes of the others leave behind. Everything overlaps with everything. Two
variables are history. `calm`: no two requests have overlapped so far (`OneAtATime`).
`clashed`: the parts on which a command of an operator has been at work together with
another command, a call of `reserveStock` or a release; a part is in it for good.
`CommandsOn`, `CallsOn` and `ReleasesOn` say who is at work on a part: who has read it
and may still write it.

*`StockRelease`.* A worker's transaction has its `snapshot`, taken by its first
plain SELECT, its locks `held`, the rows it will `write`. Locking reads see the last
committed row and writes become visible at `Commit`, as InnoDB's REPEATABLE READ
does. The loser of a duplicate insert reads the winner's result in `Recover`.

*`Executions`.* Consumers do the two lookups and the insert in three steps. Callers
load, change, reload, save, reread and publish; `Interrupt` ends them at any step. Event
ids are derived from the name and the execution, so an event's content must not change
when it is published again. `Legacy` stands for executions from before the columns
`request_event_id` and `correlation_id`: they take commands and are saved, and the
publisher throws on them. A failure is a code and a reason, in two columns. The service
normalises the code (`normalizeFailureCode`), compares it with the row's and publishes
it; the entity keeps its first 100 characters (`sanitizeFailureCode`), which is
`KeptCode`. A request has no longer code, but in upper case it can be longer:
`FailureCode` are the codes as the service makes them. `missed` is history: the commands
that have saved a transition and broken before its event was confirmed.

*`ServiceCatalog`.* Clients look up, load, reload and write. `Fold` is what the
collation keeps of a name: the lookups and the unique index use it, the service
compares exactly.

## 3. What the runs show

| Run | Instance | Shows |
|---|---|---|
| `consumed_messages` | 2 workers, lease 2, precision 3, 4 claims, clock to 6 | `NoOverlapWithinLease`, `OnlyLatestClaimCompletes`, `ProcessedIsFinal`, and that the ledger implements `FencedJob` |
| `message_delivery` | 2 workers, 1 retry, 2 faults, 6 claims, clock to 1 with lease 1 | `NeverLost`, `CopiesAreBounded`, `ProcessedIsAnswered`, `EventuallySettled` |
| `broker_subscriptions` | 2 subscriptions, 4 faults, of which a cancelled consumer is one | `RecoveryIsPending`, `ConsumedOnce`, `EventuallyConsuming` |
| `shared_stock` | 2 reserve deliveries of 3 messages, 1 release delivery of 2 commands, 1 operator with commands of every kind, 2 parts, any 3 requests in all, few of their items at once where operators and releases take part | `OrdersAreCounted`, `Balanced`, `DeactivatedIsFrozen`, `CodesAreDistinct`, `SameAnswer`, `AnswerIsBacked`, `LeftoversAreReported`, `ReleasesArePhysical`, `DecidedAtCommit` |
| `stock_release` | 2 deliveries at a time of 4 messages with 3 ids, 2 orders, 2 parts, 4 deliveries in all | `StockConserved`, `ReportIsPhysical`, `SameEnvelope`, `NoDeadlock`, and that the transactions implement `AtomicRelease` |
| `executions` | 2 consumers, 1 caller, 2 messages of one saga, at first no execution or one without message context that shares a key with a message or two, 3 failures that share codes and reasons, 3 deliveries, 3 commands | `AcceptedHasExecution`, `EventsAgreeWithRow`, `OneContentPerEventId`, `EventsAreComplete`, and that the rows implement `ExecutionLifecycle` |
| `service_catalog` | 2 clients, 2 items, 3 names of which 2 fold together, 2 prices, 5 requests | `NamesAreDistinct`, `StaysDeactivated`, `NothingIsLost` |

Every one of these has a type invariant too. Five more runs end in a violation,
and each is a finding:

- `stock_oversell` (`NoOversell`): two replicas that reserve one part for two orders
  both read it before either saves. Both reservations are stored and both orders are
  told `stock.reserved`; the part covers one. `reserveStock` takes no lock and no
  version, unlike the release.
- `stock_taken_twice` (`TakenOnce`): a replica dies after saving the part and before
  inserting the reservation. The repeated command finds no reservation and takes its
  units again, which nothing gives back.
- `release_lost` (`ReleaseReturnsUnits`): a release transaction begins, and a
  reservation of another order for the same quantity then saves the part. The
  release locks the part, which by now has that quantity less than in its snapshot.
  Giving its own units back makes both quantities equal to the snapshot's, so
  `parts.save` writes neither (`updated_at` at most), and the release reports
  `RELEASED`. The units stay set aside for no order.
- `executions_concurrent` (`TerminalIsFinal`): `startDiagnosis` loads a `QUEUED`
  execution, `fail` saves `FAILED`, and the slower save writes `IN_DIAGNOSIS` over
  it.
- `broker_setup_lost` (`FailedSetupIsRetried`): the listener discards the promise of
  `restoreSubscriptions`. A channel lost while the subscriptions are being set up
  after a reconnection rejects it, which ends the process, although the code
  schedules a retry for this case and the tests expect one.

`LeftoversAreReported` says how far a saga can rely on a release that overtakes the
reservation: whatever is still `RESERVED` for the order was reported as not
released, as missing, of another quantity, or of a part without the units.
`DecidedAtCommit` says what `IsAtomicRelease` cannot, since there releases are alone:
with reserve deliveries and operators between its statements, a release still changes
in one step the reservations that can be released when it commits, reports just
these as `RELEASED`, and changes no other. Its seeded fault leaves the gap of a
missing reservation unlocked: the row is then inserted after the release has judged
it missing, and the release commits a report that is no longer so.
`ReleasesArePhysical` says that the report stays true. Both are about reservations
and reports; the units of the part are `Balanced` and, as a finding, `release_lost`.

`OrdersAreCounted` rests on the messages as well as on the calm. A reserve message
may name a part twice, and nothing in `asStockRequest` rejects it. Its items run at
the same time; when they ask for different quantities, one row is inserted and the
other call throws, while both have saved the part, and the units set aside can be
fewer than the row promises. The messages of `shared_stock` do not do that, and the
theorem has it as a hypothesis, `ItemsAgree`.

`EventsAreComplete` says which announcements can be missing: only those of commands
that broke after their save. `finish` and `fail` can be repeated to announce them;
an `execution.started` cannot once the execution has moved on. Executions without
message context announce nothing at all. `OneContentPerEventId` compares what the
row keeps of a failure code. A code that is over 100 characters in upper case is
never equal to the stored one, so the row is saved again, unchanged, and the event
says the whole code; two such codes with one beginning are two contents under one
event id.

`DeactivatedIsFrozen` is about all overlaps. Whoever had read a part before it was
deactivated may still save it, and so make it active again; nobody else reads it to
change it, and once they are gone (`IsFrozen`) it only takes units back.
`Balanced` is about the parts that are not `clashed`: a command that works on a part
together with another request can undo the quantities of either, in the way that
`stock_oversell` shows of two reservations. Other parts, and requests that overlap
on a part without a command, are not touched by that.

`RecoveryIsPending` and `EventuallyConsuming` except a queue whose consumer the broker
has cancelled on the channel that is open. Nothing then recovers it: not the
subscription, which is marked as applied, nor the timer, nor a publisher. It is
consumed again when the channel is lost, or the process is restarted.

The catalog shows two more things that no test or document rules out. An update that
overlaps a deactivation makes the item active again; `StaysDeactivated` shows that
an update which starts later cannot. And an item cannot be renamed to another
spelling of its own name: the exact comparison sees a change, the lookup under
MySQL's default collation finds the item itself.

### The bounds

A bound limits how often something happens, never what may happen. They were chosen
from the scenario that each property fears.

- *Ledger.* An overlap needs two workers. With four claims a worker can lose its
  row, see it taken over, and return; with lease 2 and precision 3 a stored lease is
  longer than asked, as long, or shorter, and the clock sees two leases out, one
  after the other. The proofs remove these bounds.
- *Delivery.* One retry has both a republication and a dead letter. Two faults
  suffice to close a channel between confirmation and acknowledgement, and then to
  lose the copy's next holder. Six claims is more than can be made: two for the
  first copy and two for each fault. A lost confirmation is a fault too. One tick
  lets a lease of one tick run out, and claims can come before and after; how leases
  follow one another is the question of the run on the ledger.
- *Connection.* Four faults: a lost channel, a lost recovery from it, a killed
  process and one more; each attempt that is given up uses a fault, so the attempts
  are not bounded besides.
- *Shared stock.* A behaviour has at most three requests, reserve deliveries,
  releases and operators' commands in any number (`FewRequests`). Every pair needs
  two, of one sort or of two: a reserve command repeated after a crash, two
  reservations that overlap, a release before, inside and after its reservation, a
  command that saves what it read before a reservation, a release repeated or for
  another order. The first part has just the units that both orders want, so that a
  repeated or a lost subtraction shows; the second need not exist at first. Two
  commands delete a part and then do something to it, or create a part and use it,
  while a reservation of the first part is under way. The third request is what meets
  the outcome of two others: a release of two reservations that overlapped, a
  reservation between a release and its repetition, a command before or after two
  requests that overlap. `FewAtOnce` keeps the instance small: once there has been a
  command or a release, there are as many calls of `reserveStock` at one time as make
  three with all commands and releases so far. It rules out messages with three or
  four items between them beside a command or a release, and a message with two
  items beside two of these; reservations alone are not limited. Four requests are left to the
  proofs, which have no bound.
- *Release.* Two transactions can deadlock on two parts; the four messages are a
  command, its conflicting reuse, a second command for the same reservations and one
  of another order.
- *Executions.* Two keys go wrong with a message that meets one execution by saga and
  another by order: the second message does, with the first one's execution and an
  old one. Of the three failures two share the code, two the reason, and two what
  the row keeps of them. Three commands reach a terminal state and try to leave it.
- *Catalog.* Creating two items takes two requests, three more rename, deactivate
  and overlap.

Symmetry is declared for workers, clients and names that no definition tells apart,
and never in a run with a liveness property. Deadlock checking is off because every
model may stop: requests end, and bounds are reached. That no release waits for ever
is `NoDeadlock`, a property of the lock graph, which has the locks of `FOR UPDATE`;
the shared locks that InnoDB takes on a duplicate key are not in it, and three
inserts of one key whose first is rolled back can deadlock there. InnoDB then ends
one of them, as any failing statement ends its transaction.

### Fairness

- `MessageDelivery`: weak fairness of `Receive` (RabbitMQ serves a consumer with a
  free slot), of a handler's statements and publication (the database answers or
  fails, and so does the broker on a channel that stays open), of `Acknowledge` and
  of `Republish`. No fairness for the clock and for faults. A handler whose channel
  closes during its publication may wait for ever; the model lets it go, with its
  claim left behind, and the next channel has handlers of its own, as in the code.
- `BrokerSubscriptions`: amqplib's calls return or fail, the recovery timer fires,
  the boot goes on to its `subscribe` calls, and the deployment restarts a dead
  process. No fairness for publishers and faults; a bounded number of faults stands
  for "once the broker stays up".

No other module claims liveness. Whether an operator repeats a command, or the saga
sends another message, is not this program's to promise.

## 4. What is proved

TLC checks the instances above; the theorems hold for every number of workers,
commands, parts, items, retries and faults, and every bound. They assume what the
named `ASSUME`s of the modules say of the constants, which TLC evaluates on the
instances too: finite sets where something is counted or ordered (`Part`, `Order`,
`Worker`), messages that pass the validation (`RequestAssumption`,
`ReleaseAssumption`), tables that exist in the database (`InitialAssumption`, and
`CodeAssumption` for the codes they start with), that an actor is of one kind
(`ActorAssumption`), and that `NULL` is none of the values it stands in for. Some
theorems have a hypothesis besides, which their statement shows: that commands on
executions do not overlap (`OneCaller`), or that the items of a message agree
(`ItemsAgree`). Without them the properties fail, as said below.

Each module has an inductive invariant, made of named parts. The properties
themselves are not inductive: they speak of rows and of the broker, and a step can
break them from states in which a handler knows something that is not so. The parts
that are added say what each handler knows at each of its awaits.

### The ledger: `ConsumedMessagesProofs`

- `TypeCorrect`: `[]TypeOK`;
- `Exclusion`: `[]NoOverlapWithinLease`;
- `Fencing`: `OnlyLatestClaimCompletes`, as an invariant;
- `Finality`: `ProcessedIsFinal`, an action property;
- `Refinement`: `IsFencedJob`, that the statements implement `FencedJob`.

The invariant is `IInv`:

1. `TokensDistinct`: tokens come from a counter (`randomUUID` in the code), so two
   workers never share one;
2. `StartedInPast`: the time a claim took is not in the future, so a lease that has
   run out stays so;
3. `RowIsLatestClaim`: a token in the row is that of the latest claim, and the row
   is `PROCESSING`; so an UPDATE guarded by the token is one by the latest claimer;
4. `ReadersFoundRow`: a worker that has read a row will not find it gone;
5. `EngagedHoldOrExpired`: a worker with a claim still holds the row, or its lease
   is over, or the message is processed;
6. `ProcessedOnce`: a processed row was completed by exactly the latest claim.

`StoredNat` and `LeaseEndNat` state the arithmetic of the rounding once.

### Delivery: `MessageDeliveryProofs`

- `DeliveryUsesLedger`: every step of a delivery is a step of the ledger or leaves
  it alone, so all that is proved of the ledger holds here;
- `DeliveryTypeCorrect`: `[]DeliveryTypeOK`;
- `NoMessageIsLost`: `[]NeverLost`;
- `CopiesDoNotMultiply`: `[]CopiesAreBounded`;
- `ProcessedMessageIsAnswered`: `[]ProcessedIsAnswered`.

`DeliveryIInv` adds to `IInv` the parts `Kept`, which does not count a copy whose
failure has been republished already (such a copy can go without another in its
place), and `ConfirmedFirst`: a handler that is about to mark the message processed
has a confirmed result. The bound on the copies rests on what each step moves:
`WaitingMoves` for the queue, `HeldMoves` for the handlers.

### Connection: `BrokerSubscriptionsProofs`

- `SubscriptionsTypeCorrect`: `[]TypeOK`;
- `NoSubscriptionIsForgotten`: `[]RecoveryIsPending`;
- `NoQueueIsConsumedTwice`: `[]ConsumedOnce`.

`RecoveryInv` says how the fields of connection and consumer hang together
(`Linked`), that a subscription is marked as applied on the present channel exactly
when its queue is consumed there, or was until the broker cancelled the consumer
(`AppliedIsConsumed`), that a setup works on what is
not applied yet (`SetupIsNeeded`), and that everything is applied where neither a
setup nor a timer is under way (`NothingForgotten`).

### Release: `StockReleaseProofs`

- `ReleaseTypeCorrect`: `[]TypeOK`;
- `UnitsAreConserved`: `[]StockConserved`;
- `ReportsArePhysical`: `[]ReportIsPhysical`;
- `EnvelopesAreTheSame`: `[]SameEnvelope`;
- `ReleasesDoNotDeadlock`: `[]NoDeadlock`;
- `ReleaseIsAtomic`: `IsAtomicRelease`, that transactions with row locks and
  snapshot reads, statement by statement, implement `AtomicRelease`.

The refinement maps `Commit` to `Decide` and all else to a stutter. A commit decides
against the rows as they are then, although it judged them earlier, for these
reasons, which are the parts of `ReleaseInv`:

1. `LocksAreExclusive`: no row is locked by two transactions;
2. `PhaseHolds`: what each statement may rely on, with the locks behind it;
3. `JudgementsHold`: each verdict is still right, since the rows it rests on are
   locked; the part row to be written is the current one with the units moved;
4. `SnapshotIsOlder`: since the snapshot units have only come back, so the entity
   differs from the snapshot in both quantities and `parts.save` writes both. This is
   what fails in `release_lost`, where reservations run beside;
5. `ReleaserIsKnown` and `ReportIsPhysical`: a reservation released by this command
   means that the command was decided, so `RELEASED` is never reported of an earlier
   release;
6. `PublishedIsStored`: an envelope is that of the command row.

`NoDeadlock` rests on `LockOrder` as well: the rows a transaction holds are of the
items it has judged, which come before the one it is at. So whoever is waited for is
at a later item, or at the same one and past its reservation (`WaitersComeFirst`);
a circle would have a last item, at which nobody can wait.

### Catalog: `ServiceCatalogProofs`

- `CatalogTypeCorrect`: `[]TypeOK`;
- `NamesStayDistinct`: `[]NamesAreDistinct`, from the unique index alone;
- `OnlyOverlapsLose`: `[]NothingIsLost`;
- `OnlyOverlapsReactivate`: `StaysDeactivated`, an action property.

`CatalogInv` says that a request has what its phase needs and that, unless requests
on an item have overlapped, there is one at most and the entity it works on is the
row (`AloneUnlessOverlapped`, `WorksOnItsRow`).

### Executions: `ExecutionsProofs`

For any messages, and any number of deliveries and of commands that overlap:

- `ExecutionsTypeCorrect`: `[]TypeOK`;
- `AcceptedMessagesHaveExecutions`: `[]AcceptedHasExecution`.

Their invariant is `TableInv`: the two keys are unique (`KeysAreUnique`), rows stay
and keep their message, so what a delivery has looked up is still there
(`ConsumerKnows`) and what a command has in memory is of the row's message
(`CallerKnows`).

If there is one command at a time (`OneCaller`), but still any number of deliveries,
broken commands and repetitions:

- `EventsStayTrue`: `[]EventsAgreeWithRow`;
- `EventsDoNotDiffer`: `[]OneContentPerEventId`;
- `EventsCanBeCompleted`: `[]EventsAreComplete`;
- `TerminalStaysTerminal`: `TerminalIsFinal`;
- `ExecutionsAreLifecycles`: `IsLifecycle`, that the rows implement
  `ExecutionLifecycle`.

`OneCaller` is what the code leaves to its operators: nothing locks the row between the
load of a command and its save, and `executions_concurrent` shows `FAILED` overwritten,
after which the events disagree with the row as well. `SoleInv` is the invariant. What a
row has not reached yet is empty (`WellFormed`); the entity in memory is what the
command makes of the row as it is (`WorksOnItsRow`), so a save writes just that, and
what is to be published is of a row that is where the command takes it (`AtGoal`), by
what it keeps of a failure code; an event has the content its name and row determine
(`PlainEvents`); and each stage that a row has behind it has its event, or a command
that broke after its save or has yet to publish (`StagesAreAnnounced`).

### Shared stock: `SharedStockProofs`

Every theorem is about `SharedSpec`, in which everything overlaps. There are four
invariants. The first three rest one on the other, the last on the first.

*Whatever overlaps* (`SharedSpec`), from `OverlapInv`:

- `SharedStockTypeCorrect`: `[]SharedTypeOK`. No quantity becomes negative, although
  saves overwrite one another: a save writes a column as the entity has it, and the
  entity has checked it, or leaves it (`CountedRow`);
- `ReserveAnswersAgree`: `[]SameAnswer`;
- `ReserveAnswersAreBacked`: `[]AnswerIsBacked`;
- `LeftoversStayReported`: `[]LeftoversAreReported`;
- `CodesStayDistinct`: `[]CodesAreDistinct`.

A reservation's row, once inserted, keeps its quantity, failure code and time, and
only moves from `RESERVED` to `RELEASED` (`RowMoves`). So a call that has returned
keeps a row to return (`TaskHolds`), a published answer is what the rows still say
(`IsAnswered`), and a verdict on a row that is not left over can never be overtaken
by a new reservation (`ReleaseHolds`, `OperationHolds`, `ReportHolds`).

*Of every part that is not `clashed`*, whatever overlaps elsewhere, or on this part
without a command, from `BalanceInv`:

- `UnitsStayBalanced`: `[]Balanced`.

`Balanced` is not inductive, because a save mixes an entity with the row of the
moment. What makes it so is that every entity, every row loaded again, every
snapshot and every row to be written has the same sum of units as the part
(`TaskBalances`, `ReleaseBalances`): then a save that changes one quantity changes
the other too, and whichever columns it overwrites, the sum is right
(`SaveKeepsUnits`). An operator's command changes the sum, so all of these must be
gone when it is saved: on a part that is not `clashed`, it is alone
(`CommandIsAlone`) and has the part as it is (`CommandHolds`). Commands on the other
parts, and all that follows from them, are steps of the same behaviour.

*While no two requests overlap*, and if the items of a message that name the same
part ask for the same quantity (`ItemsAgree`), from `CountedInv`:

- `OrdersStayCounted`: `[]OrdersAreCounted`.

`CountedInv` says how much a part must have set aside for the row that a call of
`reserveStock` is going to insert (`Bound`): its entity has that much from the
moment it is changed, and the part from the save to the insert (`TaskCounts`).
Other items of the same message may save the same part in between, but none of them
less than `Bound`. A transaction still has the tables of its snapshot, and the rows
it will release are `RESERVED` with the quantities it gives back (`ReleaseCounts`).
With overlapping requests the property fails, which `stock_oversell` shows, and
without `ItemsAgree` too, as said in section 3.

*Whatever overlaps*, for the row locks of a release, from `LockInv`:

- `LockInvariant`: `[]LockInv`, a release's verdicts are true when it commits;
- `ReleasesStayPhysical`: `[]ReleasesArePhysical`;
- `CommandsAreDecidedAtCommit`: `DecidedAtCommit`, an action property;
- `DeactivatedStaysFrozen`: `DeactivatedIsFrozen`, an action property. A release locks
  a part whatever its state, and what it is going to write has the row's own flag
  (`FlagsKept`), also where its snapshot still shows the part active;
- `ReleaseAnswersAgree`: all envelopes published for a release command are the same;
- `ReservationsAreMadeOnce`: a reservation is inserted once, as `RESERVED` or
  `FAILED`, and changes at most once after that, from `RESERVED` to `RELEASED` by a
  command that is decided in that step (`RowsLive`);
- `SharedReleasesDoNotDeadlock`: no releases wait in a circle for row locks.

Here the rows that a release judges are also written by requests that hold no lock
between their statements, so `LockInv` needs more than `ReleaseInv`. A verdict is
taken under the locks of the rows it rests on (`TransactionHolds`), these are its own
(`LocksAreExclusive`), and every other step leaves locked rows as they are
(`ReserveStepLeavesLocked`, `OperatorStepLeavesLocked`, `ReleaseStepLeavesLocked`). So
the verdict is still right at the commit (`VerdictsHold`, `IsBacked`). One step is
not kept out by a lock: an operator who creates a part has no row to wait for. That
the row cannot be one that a release has locked takes an invariant of the parts
(`PartsExist`): what is reserved, moved or locked is there, and what is being created
is not. `SnapshotIsOlder`, on which `ReleaseInv` rests, is false here; nothing in
these theorems needs it. What it gives in `StockReleaseProofs`, that `parts.save`
writes both quantities, is what `release_lost` refutes.

Deadlock takes `LockOrder` again (`LocksAreOrdered`), about releases only: the others
lock one row in one statement and hold it no longer. Two releases that find no row in
a gap take turns in the model, where InnoDB lets both lock it; as neither inserts,
no verdict differs.

### Sums

The modules add up quantities with `SumFunctionOnSet` of the community modules, a
fold. The library's induction theorems take an operator as a parameter, which the
provers cannot instantiate. `SumTheorems` gets by without: the subsets of a
finite set are well-founded, so a false statement about sums has a smallest
counterexample (`SmallestSet`), and there it contradicts itself. `SumTakesAny` says
that the order of a sum does not matter, `SumIsInteger` that it is a number,
`SameValuesSameSum` that it depends on nothing but the values.

### Only model-checked

- Liveness, for good: the prover has neither `ENABLED` nor fairness.
- What the runs find violated: `NoOversell`, `TakenOnce`, `ReleaseReturnsUnits` and
  `FailedSetupIsRetried` are false, and so is `TerminalIsFinal` when commands
  overlap.

Every other property of a passing run has a theorem. Two things in them are relative
to what the modules take as steps: a database statement is one step, and the locks
of InnoDB and the save of TypeORM do what `StockTables`, `StockRelease` and
`SharedStock` say of them.

No module declares a `RECURSIVE` operator.

## 5. Seeded faults

Each property of a passing run has, in `PROJECT.json`, a plausible bug of the code
that breaks it: an operator that stands in the module just before the definition it
would replace, with the same parameters, under a comment *Seeded fault of ...*.
Nothing else uses these operators. Examples: completing by status instead of by
token, nacking without requeue, not comparing the quantity of a release, leaving
uniqueness to the lookup.

## 6. Plan

Done: the ledger, delivery with its results, connection, release, catalog,
executions, and the stock that reservation, release and parts share, all with
proofs. What is left:

1. *Clashing commands*: say what still holds of the units of a part that is `clashed`:
   by how much its quantities can be off, given the requests that have met on it.
2. *Broken reservations*: an invariant of the units that a crash between the two
   statements of `reserveStock` leaves set aside for nobody.

## 7. Not modelled inside the modelled parts

- Validation and normalisation of messages and DTOs: models take valid ones; an
  invalid one throws before it changes anything. For messages this is a rejected
  handler, which `MessageDelivery` has. The one normalisation that is modelled is
  that of a failure code, since two functions do it differently.
- The answer `PART_NOT_FOUND` of a release: reservations refer to parts that exist,
  and no part is removed.
- Deadlocks of InnoDB's shared locks on duplicate keys, see section 3.
- `releaseStockReservation` and `commitStockReservation`, the `delete` methods of
  the repositories and `activate` of the catalog item: nothing in the program calls
  them.
- `onModuleDestroy`: `main.ts` enables no shutdown hooks, so it does not run.
- The back-off before a recovery and the delay of the retry queue: a timer may fire,
  and a copy arrive, at any later time.
- Queries, listings and their pagination: they read only.
- Columns that no property tells apart: descriptions, units, prices of parts,
  minimum quantities, `created_at` where it is not published.

## 8. Components left out

Authentication verifies a token with a library and keeps no state. Configuration,
logging, metrics and exception filters observe and report: no control of the system
depends on them. Health checks read. Migrations run once before the service starts;
their unique keys and column types are in the models of the tables. Start-up is
wiring, except for `subscribe`, which `BrokerSubscriptions` has.
