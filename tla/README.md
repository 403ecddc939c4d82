# excalibase-watcher: models, model checks and proofs

excalibase-watcher streams the changes of a Postgres or MySQL database to NATS
JetStream. Its promise is at-least-once delivery: the position the database
would resume from is only moved past a change once JetStream has acknowledged
it, and a change that is sent twice carries the same message id. This project
states that promise in TLA+, models the code that keeps it, checks the model
with TLC on small instances and proves its safety with TLAPS for all of them.

## The system

| part | source | what it does |
|---|---|---|
| Postgres listener | `internal/postgres/listener.go`, `parser.go` | streams pgoutput messages, numbers changes, hands them to the bus, reports a position to the primary |
| ack gate | `internal/postgres/ackgate.go` | which position may be reported |
| lag tracker | `internal/postgres/lag.go` | whether the watcher has caught up |
| slot setup and recovery | `setup.go`, `slotstats.go`, `listener.go` | creates the slot, samples it, recreates a lost one |
| slot ownership and cleanup | `slotregistry.go`, `slotcleanup.go` | owners heartbeat their slots; a cleaner drops orphans |
| MySQL listener, commit gate, offset file | `internal/mysql/` | the same job over the binlog, with the resume position in a file |
| event bus | `internal/cdc/service.go` | bounded channels from listeners to subscribers; a full one blocks its producer |
| publisher | `internal/nats/publisher.go`, `connection.go` | drains its subscription, publishes with retries, tells the gates what was acked |
| life cycle, health | `main.go`, `internal/health/` | start order, readiness, reaction to signals and fatal errors, stop order |
| snapshots | `snapshot_chunked.go`, `snapshot_dump.go` | publishes existing rows before streaming |
| schema history | `internal/schema/history.go` | relation layouts, cached and on disk |
| configuration, metrics, TLS, JSON escaping | `internal/config`, `metrics`, `jsonutil`, `mysql/tls.go` | |

How they interact: the walsender's messages reach the listener in order; the
listener's goroutine hands every publishable event a sequence number and passes
it to the bus, which blocks it when the publisher's buffer is full; the
publisher's goroutine publishes one event at a time, in that order, and calls
the gate's observer after each ack; the listener settles its gate against the
acked number whenever it reports a status. The MySQL side has the same shape:
canal's goroutine calls the handler, which passes events to the bus and counts
them; the publisher counts its acks; a ticker writes the newest boundary whose
events are all acked to a file.

## Modules

| module | models | state and actions |
|---|---|---|
| `AckGate` | `ackgate.go` | the gate is a record of the struct's fields, each method an operator on it |
| `Publisher` | `publisher.go`, `connection.go`, the publisher's subscription in `service.go` | `chan` (the subscription), `cur` (the event in `publish`), `pub` (where the goroutine is), `nats`, `failed`, `ctxDone`; JetStream's `stream` and duplicate window `remembered` |
| `PgPipeline` | `listener.go`, `parser.go`, `setup.go`, `lag.go`, composed with the two above | the log, the slot, the replication session, the process, the gate; one action per kind of message and per step of the session's life |
| `CommitGate` | `mysql/ackgate.go` | the MySQL gate, in the same form as `AckGate` |
| `MySQLPipeline` | `mysql/listener.go`, `mysql/offset.go`, composed with `CommitGate` and `Publisher` | the binlog, the offset file, how far canal has called the handler, the handler's and the listener's fields; one action per callback, the saver, start, stop, crash |
| `DeliveryContract` | README "Ack ordering" | abstract: log, resume position, delivered changes, skipped transactions |
| `Bus` | `service.go` | the read-write lock with its queue, the subscriber lists, where each goroutine is; one action between two points where another goroutine can be seen |
| `Subscription` | | abstract: the atomic bounded channel that `Publisher` assumes of the bus |
| `SlotOwnership` | `slotregistry.go`, `slotcleanup.go`, their use in `listener.go` | slots, the registry table, watchers with their restarts, cleanup passes that have read rows and act on them later |
| `Lifecycle` | `main.go`, `health.go`, `slotstats.go` | where `run` is, its deferred calls, both listeners, the publisher, the probes' inputs |
| `ChunkedSnapshot` | `snapshot_chunked.go`, `runSnapshot` | a table that changes, the cursor of the snapshot, the WAL since the slot exists, a consumer's replica |
| `SchemaHistory` | `schema/history.go` | cache, file and temporary file of one table |
| `MySQLDump` | `mysql/snapshot_dump.go` | mysqldump writing a VALUES list and `parseValuesList` reading it, byte class by byte class |
| `PgInvariant`, `MySQLInvariant` | | the inductive invariants of the pipelines |
| `PublisherProofs` | | facts about the publisher, its queue and the stream, for both pipelines |
| `PgStepProofs`, `PgProofs` | | proofs about the Postgres pipeline |
| `MySQLAccountProofs`, `MySQLStepProofs`, `MySQLProofs` | | proofs about the MySQL pipeline |
| `BusProofs` | | proofs about `Bus`, with its inductive invariants |
| `ComponentProofs` | | proofs about `SlotOwnership`, `SchemaHistory`, `Lifecycle` and `ChunkedSnapshot`, each with its inductive invariant |
| `MC...` | | instances for TLC; those of the pipelines also say (`Scenario`, a state constraint) which failures are combined with which transactions |

How the modules fit together: the two pipelines compose a gate, a listener and
`Publisher`, and take the bus to be one atomic bounded channel. `Bus` justifies
that: with its one subscriber it implements `Subscription`, which is proved. `Lifecycle` reduces
the pipelines to what starting and stopping depend on, a listener that may be
blocked on a full buffer. `SlotOwnership` and `ChunkedSnapshot` look at two
parts of `Start` that `PgPipeline` leaves out.

### What is abstracted

* A log position is the rank of an LSN: how many transactions have committed at
  or before it. The gate compares positions and takes maxima; rank preserves
  both. The commit of the t-th transaction ends at position t.
* A change is its kind: `row`, `large` (fits once truncated to its key), `wide`
  (fits once stripped), `huge` (never fits), `filtered` (hidden by the table
  filter), `bad` (its row image is not JSON, the bus refuses it).
* The message id is the pair (transaction, index), as `SourceID` is made of
  `TransactionLSN` and `txnIndex`.
* `wal` is chosen at the start and never changes; `committed` tells how much of
  it is in the log. Clients may commit at any moment.
* Time: the status interval, the heartbeat interval and every delay have
  elapsed or not, nondeterministically. A heartbeat that follows a change which
  blocked for the whole heartbeat interval is left to the keepalive action.
* `Idle` reads the atomic counter twice; the model reads it once. The counter
  only grows, so the second reading can only allow more, and it allows what a
  later keepalive would.
* After the context is cancelled a message in hand is still handled; the model
  does not count how many, which over-approximates the code. An ack that
  arrives after the cancellation is treated as lost.
* A binlog position keeps its file and its offset, because ids and boundaries
  are made of both. Every entry (transaction, compressed transaction, DDL
  statement, rotation) is `Span` wide; its GTID event and each of its rows events
  end at offsets of their own, and the XID of a compressed one has position 0. A
  source id is the pair of a position and an index together with which of the
  three formats (`file:pos:row`, `file:pos:txn:row`, `file:pos:ddl`) it has.
* `emit` in the MySQL handler is two steps: the bus takes the event, then the
  gate counts it. The publisher may ack the event in between.
* The gate is always enabled: without a publisher there is nothing to promise.
* In `Bus` what happens under the write lock is one step, from the moment the
  last reader is out to the unlock; readers that come while a writer waits queue
  behind it, as with `sync.RWMutex`.
* In `SlotOwnership` time is a count of ticks per heartbeat, capped where nothing
  depends on it. A cleaner's clock runs ahead of the database's by at most `Skew`.
  A pass and a heartbeat are short against a tick; a start, with its snapshot,
  takes any time. Any registration and any heartbeat may fail. How the watchers
  are deployed (slots of their own or one for both) is chosen at the start.
* In `ChunkedSnapshot` a key is a pair whose first part orders the chunks: a
  one-column key, a composite key and no key at all are three choices of which
  pairs exist. One table is enough, tables share nothing.
* `Lifecycle` chooses the configuration at the start: one database or
  both, with or without NATS.

### The environment

Postgres, JetStream and the NATS client are external and modelled from how the
code uses them: the slot advances on a status and never moves back, a status is
lost with its connection or processed late, the slot is invalidated or dropped,
the connection to NATS comes and goes or is closed for good, a publish is stored
and acked, stored and not acked, or refused for its size, and ids leave the
duplicate window. Canal calls its handler from one goroutine, one event at a
time; its own reconnections resume where it was and are not visible, and an
error it returns ends it. A write of the offset file succeeds or fails as a
whole, since it ends in a rename.

## Runs

Every bound is a constant of the configuration: `MaxLsn` transactions, `BufCap`
events in the bus buffer, and how often the process ends (`MaxCrashes`), the
replication connection drops (`MaxDrops`), the slot is lost (`MaxLosses`) and an
id leaves the duplicate window (`MaxExpiries`); for MySQL, `MaxEntries` binlog
entries and `MaxSaveFails` failed writes. Outages of NATS and lost acks
are not bounded.

| run | question | bounds |
|---|---|---|
| `pg_core` | slot, stream, ids, lag flag, gate and contract through outages, a missing stream, reconnections, lost slots, refused and oversized events | 2 transactions of up to 3 changes, buffer 1, up to 2 failures |
| `pg_live` | everything is delivered, the slot catches up | 1 transaction of up to 2 changes, buffer 1, 1 crash, 1 lost slot |
| `mysql_core` | offset file, ids and gate over multi-row and compressed transactions, DDL and rotations | 3 entries, buffer 1, 1 crash, stop or canal failure, 1 failed write, 1 expiry |
| `mysql_live` | the inductive invariant and the contract; everything is delivered, a stop completes, the offset catches up | 2 entries, 1 crash, stop or canal failure, 1 failed write |
| `bus` | the lock, the walk and the selects of `deliver` | 2 producers with 2 and 1 events, 1 subscriber, 1 health reader, 1 shutdown, buffer 1 |
| `slots` | two watchers, on two slots or on one, and the cleanups of one of them | 3 starts in all, stale after 2 ticks, heartbeat every tick |
| `lifecycle` | start, failures, signals and stops of every configuration; the probes | none needed |
| `history` | the schema history file | 4 entries, 2 failed writes, 3 restarts |
| `snapshot` | a snapshot of a changing table, and the stream after it | up to 4 keys, chunks of 2, 3 changes, 1 restart |
| `pg_refused` | the slot passes an event JetStream never acked (violation) | 1 transaction |
| `pg_gap` | a slot created at start hides a gap (violation) | 1 transaction |
| `dump_values` | bare values of a MySQL dump (violation) | 6 bytes |

Two transactions are what the hazards need: one that is pending or re-streamed
while the other moves the slot; a buffer of one makes the listener block in
every position; one failure of each kind can fall between any two steps. The
runs for liveness are smaller because fairness multiplies the work; failures
they leave out are in the safety runs. `mysql_core` has three entries because
two rows at equal offsets of two files need a rotation between them. The bus has
one subscriber because main has one; what does not depend on that is proved for
any number. Stale after two ticks is the smallest value above a heartbeat period
and the clocks' difference together, and a start can outlast it.

Deadlock is checked where something can always happen. It is not in the MySQL
runs, `slots`, `lifecycle`, `history` and `snapshot`, where processes end or are
down for good, and in `dump_values`, where a statement ends.

The properties, each with the code it is about:

* `ConfirmedIsDelivered`: the slot never passes a deliverable change JetStream
  does not store. `StreamHasNoGaps`: nor does the stream itself.
* `IdNamesOneChange`, `StoredOnce`: ids are stable over sessions and restarts,
  so retries and re-streaming leave each change once.
* `FlushNeverRetreats`, `OneEntryPerEvent`: the gate over re-streamed
  transactions and a stalled publisher.
* `CaughtUpIsDelivered`: a lag of zero is honest.
* `EventuallyDelivered`, `SlotCatchesUp`: liveness, also when the stream is
  missing at first, which ends the process, or NATS closes the connection.
* `OffsetIsDelivered`, `OffsetIsBoundary`, `OffsetNeverRetreats`: the offset file
  only ever moves forward, to the start of an entry before which everything is
  delivered, though the gate merely counts. `OffsetCatchesUp`: it gets there.
* `ImplementsContract`: refinement of `DeliveryContract` by both pipelines.
* `IInv`: the inductive invariants that the proofs rest on, one per pipeline.
* `NoSendOnClosed`, `ReceivedInOrder`, `CallsReturn`, `HandleEventReturns`: the
  bus neither panics, reorders nor deadlocks. A stalled subscriber holds up
  producers, and only those: unsubscribing, `Shutdown` and the health handler
  return. `ImplementsSubscription`: refinement of `Subscription`.
* `HeardOwnerKeepsSlot`: a cleanup takes no slot from an owner that runs and whose
  last heartbeat went through. `CleanupSeesOwners`, `ReleasedMeansStopped`: slots
  without a row, and owners at work under a released row, come of failed
  registrations alone. `OrphansAreDropped`, `RunningGetsItsSlot`: abandoned slots go
  and running watchers have theirs.
* `BusOutlivesListeners`: the bus closes after the listeners. `SignalEnds`,
  `FailureEnds`: after a signal or a reported failure the context is cancelled
  first, so each deferred stop can finish although NATS is down and a listener
  blocked. `ReturnEnds`: after a failed start, where nothing has been cancelled
  when the first `Stop` waits, the process ends if NATS does not stay down.
* `ProbesFollow`: the probes follow the process's state.
* `LatestSurvives`, `FileKeepsUp`: the newest saved entry survives crashes and
  failed writes, and what a process has saved is in the file once Save returned.
* `ReplicaConverges`, `UntouchedOnce`, `SnapshotEnds`: snapshot and stream
  together reproduce the table.

Three runs end in a violation on purpose; they show where the code and a
statement of the repository differ (see `findings` in PROJECT.json).
`AdvancesPastAckedOnly` is the README's sentence on ack ordering, which a
refused event breaks: a numeric NaN is written unquoted and makes the row image
invalid JSON. `GapIsCounted` is what the recreation counter's help text says; a
slot created by `Start` after a loss is not counted. `ValuesAreParsed` is what
`parseValuesList` says of itself: numbers and NULL, which mysqldump writes
without quotes, come out as empty strings.

### Fairness

`FairSpec` assumes what the code and its libraries do for ever: the listener
reconnects (`listenLoop`), the server sends what it has and keepalives when
idle, main ends once its context is cancelled or a failure is reported and the
orchestrator starts the process again, the NATS client reconnects
(`MaxReconnects(-1)`). Receiving, waiting for NATS and publishing are strongly
fair because outages may keep disabling them in between: a broker that fails
every single attempt for ever delivers nothing, and no code could. For MySQL the
steps of a stop are separate: main cancels the context, the publisher leaves and
frees a blocked handler, and only then does `Stop` write the last offset.

A compressed transaction offers no boundary at its end, so the offset passes it
only when another entry follows; `OffsetCatchesUp` says so. An event too large
in every form is never acked. The Postgres gate then waits for the next ack; the
MySQL gate, which counts, stays one event behind until the process ends. Both
are safe, and both are left out of the liveness runs.

`Bus`: the scheduler runs every goroutine that can go on, and a writer is not
overtaken for ever. Subscribers need not receive, leave or shut down; that they
receive is a premise of `HandleEventReturns` alone. `SlotOwnership`: time passes,
a running watcher heartbeats, reconnects and cleans up; nobody has to start or
stop, and a snapshot need not end. `Lifecycle`: main and the goroutines go on, and
every start fails once the context is cancelled. NATS need never come back and no
signal has to come; that Postgres answers is a premise of `FailureEnds`, and that
NATS is not down for good one of `ReturnEnds`. `ChunkedSnapshot`: the process
goes on after its last restart.

## Proofs

Every safety property that a passing run checks is proved, and so are the three
refinements: both pipelines implement `DeliveryContract`, the bus implements
`Subscription`. What TLC alone checks is liveness.

Three conventions of the proof modules keep the obligations small. A leaf that
names no prover is Zenon's (`USE ZenonT(40)`); one that needs arithmetic,
sequences or records says `SMTT(40)`. In the pipelines' modules the lemmas speak
of `Typed` and `Sound`, which are `TypeOK` and `IInv` under names that a leaf
does not expand by accident. And the laws of finite sets they use are a
hypothesis, `SetLaws`, which `SetLawsHold` proves from the library's theorems
where the results are concluded; `FiniteLaws` and `FiniteLawsHold` do the same
for the chunked snapshot, whose theorems therefore end `ComponentProofs`.

### The Postgres pipeline

For every `MaxLsn`, every set of transaction shapes, every buffer size and every
bound on failures, TLAPS proves in `PgProofs`:

* `Invariant`: `Spec => [](TypeOK /\ IInv)`, from which the others follow;
* `TypeCorrect`: `Spec => []TypeOK`;
* `Safety`: `Spec => []ConfirmedIsDelivered`;
* `NoGaps`: `Spec => []StreamHasNoGaps`;
* `IdsNameOneChange`: `Spec => []IdNamesOneChange`;
* `NoRepeats`: `Spec => []StoredOnce`;
* `LagIsHonest`: `Spec => []CaughtUpIsDelivered`;
* `FlushAdvances`: `Spec => FlushNeverRetreats`;
* `EntriesAreOrdered`: `Spec => []OneEntryPerEvent`;
* `KeepsContract`: `Spec => ImplementsContract`.

The assumptions are those on the constants (`MaxLsnAssumption`,
`PublisherAssumption`, `PgAssumption`): naturals, a buffer of at least one, and
shapes that are sequences of kinds.

`ConfirmedIsDelivered` is not inductive: it says nothing of the events under
way. `IInv` is an account of every change between the walsender and the stream.
A change the session has passed is *accounted for up to s* if it is stored, or
waits in the publisher's queue with a number of at most s, or the publisher has
stopped for good before acking s. Then:

* acks follow hand-off order (`AcksInOrder`): whatever is in the queue has a
  number above `acked`. So once s is acked, what was accounted for up to s is
  stored;
* each pending commit is accounted for up to its last sequence
  (`CommitsAreAccounted`), so settling it confirms delivered changes only;
* everything the session has passed is accounted for up to `handed`
  (`StreamedIsAccounted`), so an idle keepalive with nothing pending confirms
  delivered changes only;
* every position in flight, in the gate, in a status or in the slot, is
  delivered (`PositionsAreDelivered`);
* ids are those of their changes (`EventsAreChanges`, `MessagesAreChanges`), so
  a repeat the duplicate window drops is a repeat of the same change: without
  this an ack would not imply that the change is stored.

* what waits has no gaps (`QueueHasNoGaps`): before a change in the queue, every
  change owed is stored, waits too, or was lost with a publisher that has ended.

The proofs follow that split. `PublisherProofs` has the publisher's types, its
queue and the stream. `PgStepProofs` has the facts about the gate (`settle`,
`Committed`, `Idle`), type correctness, the message ids and the account
(`CarriesKeeps`: a step that carries every event in flight along keeps the account
of every change), and the steps of the publisher, the database and the process;
`PgProofs` has the receive actions and the theorems.

Three of the results need more than `IInv`. `StreamHasNoGaps` is kept because the
event the publisher holds is the first in the queue, so by `QueueHasNoGaps` all
that is owed before it is stored when it is (`PublishInOrder`). `StoredOnce`
needs that the duplicate window knows every message while no id has expired
(`WindowIsComplete`). `CaughtUpIsDelivered` holds because a keepalive sets
the flag only when nothing is pending: every hand-off is acked, so everything the
session has passed is stored (`NothingPending`). For the contract, storing a message is a delivery, unless the
change was delivered before, and a status the slot takes is an advance over
delivered changes (`StoreDelivers`, `AdvanceConfirms`); every other step leaves
the contract's variables alone, commits, or skips.

`FlushAdvances` and `EntriesAreOrdered` rest on the gate alone: every operator on
it, and so every step but the end of the process, leads to a gate that is no
further back and, if it was in order, still is (`Onward`).

### The MySQL pipeline

For every binlog of any length, made of any entries the assumption describes,
every buffer size and every bound on failures, TLAPS proves in `MySQLProofs`:

* `Invariant`: `Spec => [](TypeOK /\ IInv)`, with the `IInv` of `MySQLInvariant`;
* `TypesHold`: `Spec => []TypeOK`;
* `OffsetDelivered`: `Spec => []OffsetIsDelivered`;
* `OffsetBoundary`: `Spec => []OffsetIsBoundary`;
* `OffsetHolds`: `Spec => OffsetNeverRetreats`;
* `IdsNameChanges`: `Spec => []IdNamesOneChange`;
* `OneEntry`: `Spec => []OneEntryPerEvent`;
* `KeepsContract`: `Spec => ImplementsContract`.

`MySQLAssumption` says what an entry of a binlog is: the rows of one rows event
are together, a DDL statement is one event, a rotation has no rows, an entry
fits in `Span` bytes and a file in `FileSpan`.

The argument differs from the Postgres one because the commit gate does not
number events: it counts hand-offs and acks, and an ack may even be counted
before `Hand` counted its event (`emit` hands to the bus first). A boundary is
confirmed once as many events are acked as had been handed over at it. The
invariant therefore counts what waits:

* the events in the queue are in the order of the log (`QueueInOrder`), and no
  more is acked than was emitted and no longer waits (`WaitingIsCounted`:
  `acked` and the number waiting add up to at most `Emitted`);
* an entry of the gate with count n at boundary t *divides* the events
  (`Divides`): while an event from before t still waits, all `Emitted - n` events
  from behind t wait too, so that with the one from before t more than
  `Emitted - n` wait and fewer than n are acked;
* so when n is reached nothing from before t waits, and by the account all of it
  is stored (`CommitsAreAccounted`, `StreamedIsAccounted`);
* the offset file, the gate's position, its entries and the session follow one
  another in the log (`PositionsAreDelivered`, `CommitsInOrder`), which gives
  `OffsetNeverRetreats` across restarts.

`Rank` turns a position into the number of entries before it, so that positions
can be compared without their file names; ids are read off the log alone (`Id`),
and `IdInjective` shows that two rows never share one: offsets in one file are
apart, files are apart by `FileSpan`, and the three formats of an id differ.
`IdsNameChanges` also needs that a marker, which has no id, is never published
(`MarkersAreEmpty`). `MySQLAccountProofs` has the gate, the log, the ids, the types,
the account, the publisher's steps and what keeps each conjunct;
`MySQLStepProofs` the steps of the server and of the handler; `MySQLProofs` the
saver, stop, crash and start, and the theorems.

### Slot ownership

For `SlotOwnership`, any number of watchers and slots, any deployment, any bound
on restarts and any failed registrations and heartbeats (`SlotAssumption`):

* `SlotInvariant`: `SlotSpec => []SlotInv`, from which the others follow;
* `ReleasesAreSafe` and `PassesSeeOwners`: `ReleasedMeansStopped` and
  `CleanupSeesOwners` always hold;
* `OwnersKeepSlots`: if `Beat + Skew < Stale` then `SlotSpec => HeardOwnerKeepsSlot`.
  The inequality is what an operator has to configure: the code does not check
  it. `MCSlotOwnership` assumes the same. Nothing is assumed of how long a start
  takes.

`SlotInv` has, beside the types, three parts. `OwnerInv`: a row names a watcher of
its slot, a released one names a watcher without a registry, and a slot that
exists, or is about to be created, has a row or a watcher that could not register.
`FreshInv`: the row of an owner whose last heartbeat went through is no older than
the time since its ticker fired, which `Tick` keeps within `Beat`, since it waits
for a heartbeat that is due. `PassInv`: the rows a cleanup pass has read were such
rows when it read them; it carries the facts over the time between reading and
dropping, which the properties are about.

### The bus

For `Bus`, any number of producers, subscribers, readers and calls of `Shutdown`
and any capacity (`BusAssumption`: the goroutines are distinct):

* `SendsAreOpen`: `Spec => []NoSendOnClosed`;
* `BusTypes`: `Spec => []TypeOK`, with the bound on every channel;
* `BusIsSubscription`: `Spec => ImplementsSubscription` if there is one subscriber
  and it subscribes to every table (`OneSubscriber`), as in main. `MCBus` assumes
  the same of its instance.

The invariant (`BusInv`) says that a producer in `deliver` is among the lock's
readers, so that no writer is inside, and that the channels in the lists, and
those of subscribers that are still to come, are open. `NoSendOnClosed` then
follows for what the producer has found in the lists and not yet sent to.

For the refinement, the subscription's buffer is what the subscriber got and has
not taken while it is listed, not gone and the bus not shut down (`HeldBuffer`),
and an event counts as handled when its producer has nothing left to do
(`Handled`). `OneInv` adds to `BusInv` that the subscriber is listed at most once
and that a producer in `deliver` has just its newest event to send: then each
lock, walk and select step maps to a step of `Subscription` or to none, and the
two ways out of a blocked `deliver` map to a subscription that has ended.

`ReceivedWithoutGaps`: `Spec => []ReceivedInOrder`, for any number of subscribers
of any tables. Channels, lists and goroutines have to be followed together, which
is `FlowInv`:

* a list holds those who subscribed and have not unsubscribed, each once
  (`OnceInv`), so a walk sends an event to each once (`TodoInv`);
* what is in a channel is in order and concerns its subscriber, and the newest
  event of a producer is not in a channel it is still to be put into (`PutInv`);
* nothing that concerns a subscriber is missing from its channel, except the
  newest event of a producer that is still to be sent, or that `deliver` dropped
  because of the Shutdown (`CompleteInv`); then no event of that producer follows,
  since `HandleEvent` returns at once (`closed`);
* this does not hold for a subscriber that leaves, for `deliver` lets go of it and
  goes on. But it receives no more: what it had received when it called `unsub`
  was in order, and stays so (`GoneInv`).

### The schema history

For any number of entries, failed writes and restarts (`HistorySpec`):

* `LatestIsKept`: `HistorySpec => []LatestSurvives`;
* `FileFollowsCache`: `HistorySpec => []FileKeepsUp`.

`HistoryInv` says that while `Save` runs its entry ends the cache, that the
temporary file is the cache once it is complete, and that the file, which only a
rename replaces, ends with the newest entry whose `Save` succeeded.

### The life of the process

`BusClosesLast`: `LifeSpec => []BusOutlivesListeners`, for every set of
configurations, that is, for every way in which `run` can start and end.
`StopsAreDeferred` follows the stack of deferred calls: the context's `stop` and
the bus's `Shutdown` are its first two, at their places and nowhere else, and a
listener that runs or is being stopped has its own `Stop` above them. The bus is
closed when the stack has been unwound below its `Shutdown`.

### The chunked snapshot

For any table of finitely many keys, any size of a chunk, any changes between two
chunks and any number of processes that start again (`SnapshotAssumption`):

* `UntouchedRowsOnce`: `Spec => []UntouchedOnce`;
* `ReplicaCatchesUp`: `Spec => []ReplicaConverges`, if a table from which rows are
  deleted has a primary key. Without one OFFSET skips rows, and the property is
  false; `MCChunkedSnapshot` assumes the same of its tables.

`EmittedInv` says where the cursor is: of the rows nobody touched, those up to the
last key read have been emitted once, the others not at all, and ties may
straddle the end of a chunk. `LogInv` says that the last change of a row in the
log is what the table holds. `ReplicaInv` joins the two halves: a row that no
change still to be streamed corrects is in the replica as in the table, or it is
missing and the cursor has not come to it (by key, or by the number of rows
before it), or it is tied (`Right`). That a chunk by key is an initial piece of
the rows ahead (`ChunkByKey`) and how far a chunk by position gets
(`PositionMoves`) are lemmas about `FirstOf`, the model of ORDER BY and LIMIT.

### Only model-checked

Liveness, and what needs ENABLED, is out of the prover's reach. It stays with TLC:
`EventuallyDelivered`, `SlotCatchesUp`, `OffsetCatchesUp`, `CallsReturn`,
`HandleEventReturns`, `OrphansAreDropped`, `RunningGetsItsSlot`, `SignalEnds`,
`FailureEnds`, `ReturnEnds`, `ProbesFollow` and `SnapshotEnds`.

The types of both pipelines and of the bus are proved and not checked again by a
run.

## Limits of the code met while modelling

The properties are stated so that they hold beside these; a change of the code may
do better. The first differs from what the repository says. So does, after a failed
registration, "a concurrent cleanup never sees an unowned slot"
(`listener.go:148-149`).

* "WithStartup returns a checker that reports alive but not ready while isStarting
  is true" (`health.go:50-51`). It is alive, but `notReadyReason` never reads
  `isStarting`: with both databases, /readyz answers ready once Postgres runs while
  MySQL still starts. `ProbesFollow` keeps the first half of the sentence, and of
  the second only that /readyz is not ready before a database has started.
* `main.go:83` returns without `stop()`. If MySQL's start fails while the Postgres
  listener is blocked on a full buffer and NATS is down, the deferred `Stop` waits
  for a listener that only the publisher can free, and the publisher is stopped
  after it: the process hangs until NATS is back or a signal comes. `ReturnEnds`
  therefore has a premise on NATS, without which TLC finds that hang.
* Chunks continue with `>` on one column. Of rows that share its value, in a
  table with a composite key, those behind the end of a chunk are skipped
  (`Tied`: `ReplicaConverges` and `UntouchedOnce` do not ask for them). Without a primary key OFFSET skips a row when one before it is deleted or
  moves.
* A cleaner decides on what it read. It may drop a slot whose owner was gone then
  and has come back since; the owner recreates it, with a gap. `RunningGetsItsSlot`
  says that it gets a slot again, no property that the gap does not happen.
* The first heartbeat follows the snapshot. A snapshot longer than `stale_after`
  makes its owner look dead while nobody streams from the slot, and another
  watcher may drop it. So may it the slot of a watcher whose registration failed,
  which is only logged (`listener.go:198-201`), when its connection is down: the
  slot has no row, or one that is still marked released.
* In a slot that two watchers share, only the last to register is its owner; the
  other one, still at work, is not protected.
* /healthz stays UP after the listeners have stopped: the running flag is never
  cleared.
* The schema history file loses older entries when the first Save after a restart
  comes before any read of that table. The newest is never lost.
* An event that is too large in every form is never acked. The Postgres slot
  stays where it is until the next ack, the MySQL offset until a restart.
* A reconnection resets the delay only when the session ended without an error.
* Dump rows carry no source id and no number, so neither the gates nor the
  duplicate window see them; escapes in a MySQL dump stay in the data.
* With several subscribers, one of them stalled, the health handler waits when
  another one unsubscribes. Main has only one.

## Not modelled

* The line scanners of the dump files and the parser of COPY data, the reset of
  the offset file at the start of a MySQL dump, and running without an offset
  file: input formats and a one-shot path without concurrency.
* The wire format of pgoutput and the rendering of rows, beyond whether the result
  is valid JSON; binlog offsets beyond 32 bits.
* The lengths of delays and back-offs, which are nondeterministic; `dry_run` of the
  cleanup; `create_slot: false`, with which a missing slot is not created
  again (`listener.go:330`); owner ids configured to be equal; the DDL trigger and publication,
  which are set up once.
* That `loadEntries` fills the cache under the read lock: no two goroutines of the
  program read the history.
* Configuration, metrics (but the recreation counter), TLS and JSON escaping have
  no control a property depends on. Credentials, subjects and payload layout are
  left out. `internal/natstest` is a test server.
