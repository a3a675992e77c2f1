# Verification of fronius-bridge

fronius-bridge polls Fronius inverters and energy meters and forwards what it
reads to an MQTT broker, optionally to PostgreSQL/TimescaleDB, and optionally
to Modbus clients that see the meter as a SunSpec device. This directory holds
TLA+ models of its components, the TLC configurations that check them on small
instances, and TLAPS proofs of their main properties for every value of the
constants.

Run everything from this directory: `tlc -config mqtt.cfg MCMqttClient`,
`tlapm MqttClientProofs.tla`, and likewise for the others. `PROJECT.json` lists
the runs, the source lines every definition models, the hazards and the
theorems.

## 1. Inventory

### Components, their state and operations

| Component | State | Operations | Runs on |
|---|---|---|---|
| `InverterMaster`, `FroniusMeter` | `connected_`, last device, values, events and their change gates | bus callbacks (ready, unavailable, error, retry), poll loop, availability, destructor | one poll thread each, plus libfronius bus threads |
| `EasyMeter` | serial port, telegram buffer, device gate | connect, read telegram, parse, disconnect, poll loop | one thread |
| `MqttClient` | per-topic queues, last payload hashes, `connected_` | `publish`, `run`, `networkLoop`, `onConnect`, `onDisconnect`, destructor | producers, worker thread, network thread |
| `PostgresClient` | one event queue, connection, device caches, `extensionsChecked_` | `onInverter...`/`onMeter...`, `run`, `connectAndPrepare`, `syncRegistry`, upserts, inserts, destructor | producers, worker thread |
| `SchemaMigrator` | none of its own; the database's `schema_version` tables and advisory lock | `migrate`, `verify`, `checkExtensions` | the Postgres worker of every bridge process |
| `pg`, `DbError` | a libpq connection, a transaction guard | exec, begin, commit, classify | the caller |
| `MeterSlave` | atomic pointer to the register map, client threads | `updateValues`, `updateDevice`, accept loop, client loop | master's thread, listener thread, client threads |
| `SignalHandler` | `running_`, `failed_`, reason, signal | `shutdown`, `wait`, the POSIX handler | any thread, signal context |
| `config_yaml` | none | parse, validate, derive buses and registry | main, before threads |
| SQL rollups (`db/`) | daily tables | `compute_*_energy` | pg_cron |
| `main` | owns all of it | construct, wire callbacks, connect buses, wait, destroy in reverse order | main |

### How they interact

The masters call back on their own threads; the lambdas in `main.cpp` publish
JSON to `MqttClient`, enqueue typed events to `PostgresClient` and update the
`MeterSlave`. Everyone reads `SignalHandler::isRunning()`; a fatal error
anywhere calls `shutdown(true, ...)`, which ends every loop. On shutdown
`main` destroys the masters first (each publishes a final "disconnected"), then
the buses, the slaves, `PostgresClient` and `MqttClient`.

### What is hard

* Condition variables whose predicates read atomics that are written, and
  notified, without the mutex (`MqttClient`, `PostgresClient`).
* A mutex released around `mosquitto_publish` and taken again to pop.
* Two threads sleeping on one condition variable with `notify_one`.
* Duplicate suppression against a queue that drops.
* Reconnects: state cached across connections, setup that fails half way, a
  COMMIT whose answer is lost, backoff that must grow and be interruptible.
* Several processes, also of different releases, migrating one database.
* Bus callbacks racing the poll loop over `connected_`; availability decided
  under a lock and delivered outside it; callbacks wired after a thread starts.
* Register maps swapped under Modbus clients; descriptors closed twice; client
  threads that accumulate.
* A POSIX signal handler that locks a mutex, on the thread that may hold it.
* Energy arithmetic in SQL.

`PROJECT.json` lists each hazard at its line with the properties that cover it.

### What makes each component correct

* `MqttClient`: bounded queues; messages in order, none twice, the newest never
  lost; nothing popped from an empty queue; both threads live as long as the
  bridge; retries are paced and always re-armed; shutdown ends the threads and
  delivers the final availabilities.
* `PostgresClient`: nothing is written without a connection, before the registry
  is in sync, or before known devices are refreshed; a cached device has a
  schema; the worker survives outages and stops on shutdown.
* `SchemaMigrator`: one migration at a time, whole upgrades only, a schema
  reported ready is current, nobody waits for ever.
* Masters: what the change gates accept reaches the consumers; the last word
  about a device that is gone is not "connected".
* `MeterSlave`: a client never sees an older block than before; every thread is
  joined and every descriptor released.
* Lifecycle: main hears every stop; every destructor returns; the exit status
  tells a failure from a requested stop.
* Configuration: devices on one line share one bus with compatible settings;
  names are unique.
* Rollups: the intervals of a day add up to the day's energy.

## 2. Plan

Done:

1. `MqttClient`, with `LatestWins` as its abstract specification and
   `MqttClientProofs`.
2. `PostgresClient` with `PostgresClientProofs`.
3. `SchemaMigrator`, with `SchemaUpgrade` as its abstract specification and
   `SchemaMigratorProofs`.
4. The device masters (`InverterMaster`, `FroniusMeter`, `EasyMeter`), the
   `MeterSlave`, the `SignalHandler` and their composition with main, `Bridge`,
   with `BridgeProofs`.
5. `Config`: parsing, validation and derivation, with `ConfigProofs`.

Every safety invariant, action property and refinement that a run checks is
proved. Left:

6. The safety parts of the liveness properties, as far as they can be stated
   without fairness (which thread a stop request waits for).
7. The `DbError` classifier as an operator.

## 3. Modules

### MqttClient.tla (`src/mqtt_client.cpp`)

One action per step of `publish`, `run` and `networkLoop` between two points
where another thread can interfere: taking or releasing `mutex_`, evaluating a
wait predicate, blocking, and the library calls. `connected_` and the handler's
flag are written without the mutex, so a predicate and the sleep that follows
it are separate steps (`WorkerPred`/`WorkerBlock`, `NetPred`/`NetBlock`).
`sleepers` is the set of threads blocked on `cv_` and not notified;
`notify_one` removes any one, `notify_all` all. `OnConnect` and `OnDisconnect`
are what `mosquitto_loop` may do on the network thread, with the three CONNACK
classes and two error classes the code tells apart.

Abstractions: a message is the number of its acceptance on its topic; a payload
matters through its hash. `topicQueues_` is a total function (a `std::map`
iterator stays valid when a topic is inserted, and a topic inserted during a
pass is one whose queue fills during it). Spurious wakeups are left out: they
only re-evaluate a predicate. `droppedCount_` feeds log lines only.
libmosquitto is external: it takes or refuses a message (`handed`), and writes
what it took on the network thread while connected (`unwritten`).

`LatestWins.tla` is the promise: per topic, ordered delivery without
duplicates, losing old messages at will but never the newest.

### PostgresClient.tla (`src/postgres_client.cpp`)

`Enqueue` with its callers; `run` as the outer loop (`Outer`, `Connect`,
`PrepareOnce`, `Replay`, `ReplayDone`, `SleepBackoff`) and the inner one
(`Inner`, `Pred`, `Block`, `Wake`, `Take`, then `Migrate`/`Upsert` or
`Insert`). Every database call may fail with each error the worker tells apart
(broken link, fatal, transient), up to `MaxFaults` failures; a call that
commits may take effect although it fails. A device's cache entry is absent,
blank (created by the migration step with default values) or known. The
database is the registry, the set of devices with a schema and the kinds of
sample written. `SleepBackoff` is one step: the wait is timed, so it ends
whether notified or not.

### SchemaMigrator.tla (`src/schema_migrator.cpp`)

Processes with their own embedded migration lists on one database. A
transaction stages its migrations, commits them at once and loses them when it
fails; the advisory lock belongs to the transaction. `Fail` is a crash, a lost
link or a refused statement anywhere, with the lost-COMMIT-answer case.
`currentVersion` keeps the fall-through of the search path to `public`.
`SchemaUpgrade.tla` is the promise: a schema changes by one whole upgrade.

### SignalHandler.tla (`include/signal_handler.h`)

The running and the failed flag, the mutex both are written under, and main's
`wait` on it. `waiter` is where the main thread stands: in its own `shutdown`
with the mutex held (`lockMtx`, then `shutdownByMain`), in `wait` between the
predicate and the sleep (still holding it), asleep, notified, or hung.
Linux delivers a signal sent to the process to its main thread as long as that
thread does not block it, and main never does; the handler therefore runs on
the main thread, finds the mutex free or hangs on its own lock
(`signalHandler`), and may itself be interrupted by the other signal under the
lock (`nestedSignal`; `sa_mask` is empty). The standard calls a second lock of a
`std::mutex` by its holder undefined; the model has what glibc does, which is to
block. Other threads are not interrupted inside `shutdown`, so their call is one
step that needs the mutex. `stoppedBy` is a history variable that remembers who
was first.

### DeviceMaster.tla, ModbusMaster.tla

`DeviceMaster` is what the masters share: the callbacks main has installed, the
change gate (`include/change_gate.h`), and, as history, what the consumers were
told last. `ModbusMaster` adds a device on a `FroniusBus`. libfronius is not in
this repository, so its part is external and as liberal as its use allows: a bus
thread reports ready and unavailable in turn, a retry thread revalidates after
`scheduleDeviceRetry`, each executes one callback at a time, none starts after
`unregisterDevice`, and unregistering waits for those in flight. A register read
that fails reports through the device error callback; a getter only returns.

### InverterMaster.tla, FroniusMeter.tla

The poll loop, step by step between the points where a bus thread may change
`connected_` or the stop flag may change: an update call and the publication
that follows it are two steps, since the code looks at the flag in both. The
three classes of device error are the disjuncts of `onDeviceError`; a read may
fail after the stop as well as before, which is the third.
`publishAvailability` decides under the lock and fires outside it, hence
`decideAvailability` and `fireAvailability`; the meter has no gate and no
decision. Measured values are abstracted to their being read, identities and
events to members of small sets.

### EasyMeter.tla

The one thread from opening the line to publishing. A telegram is the identity
it carries; a read returns part of one, the end of one, an error, or not at all.

### MeterSlave.tla

The meter's thread copies the register block, fills the copy in and stores it;
the listener accepts clients, whose threads receive and reply, or serves the RTU
line itself. A block is the update it carries and whether it has the identity.
Descriptors are numbers that `accept` reuses from the lowest, because the code
closes each socket twice (`modbus_close`, then `close`).

### Bridge.tla (`src/main.cpp`)

main, from starting the slaves to destroying the consumers, with the signal and
one device, whose kind is chosen initially: two devices share only the stop flag
and main, so four compositions are checked side by side rather than multiplied.
Where the kind is `slave`, the meter behind it is the sequence of its updates.
The consumers' threads have modules of their own; here they are the one thread
main joins last, a worker (of either client). It may stop the bridge by a fatal
error (`ConsumerFails`), and when its destructor notifies, without the mutex,
just before it sleeps, it is `lost` and `joinConsumers` never returns, the
behaviour that `postgres_join` finds in `PostgresClient`. A worker that is awake
sees the flag and returns; only the join observes when, so that is one step with
it.

### Config.tla (`src/config_yaml.cpp`)

A document is a nested function on the keys it has. Every parser is a predicate
(it does not throw) and the record it returns; `loadConfig` is a sequence of
steps, one per section, each of which may reject the document. `As` reads a
value with its default, which also stands for a value of the wrong type, as
yaml-cpp's `as<T>(default)` does. `validateConfig` has one operator per check of
the code, over the positions of the devices, inverters first; the loops of
`deriveBuses` take one device per step, meters first, so that the buses are an
invariant of the visited devices rather than a recursive definition. Real
numbers are integers in hundredths (an infinity is a number beyond every bound)
or `NaN`, with which every comparison is false, so that the range checks, which
reject what compares badly, let it through. The characters of a name are left to
the constant `LegalNames`. Bus keys are strings in the code, a serial path or
host, colon and port, and a path may read like an endpoint: the constant
`Spelled` gives for every such path its endpoint, which is then its key.

The operators named `...Bug` are plausible faults of the code. No specification
uses them; each shows that a property can fail, by being put in the place of
the definition that `PROJECT.json` names.

## 4. Runs

| Run | Result | What it shows |
|---|---|---|
| `mqtt` | holds | `TypeOK` (queue and delay bounds), `PopFindsMessage`, `NewestKept`, `ThreadsOutliveRun`, `BackoffSchedule`, `ImplementsLatestWins`, `NetworkStops`, `RetryRearmed` |
| `mqtt_pop_race` | violated | a publish that overflows the queue during `mosquitto_publish` makes the pop discard a message that was never published |
| `mqtt_flush` | violated | the final availabilities are handed to libmosquitto after its loop thread has ended, and destroyed unwritten |
| `postgres` | holds | `TypeOK`, `NoInternalError`, `RegistryFirst`, `RefreshedOnReconnect`, `CachedSchemaExists`, `WorkerOutlivesRun`, `BackoffSchedule`, `StopsDuringOutage`, `RecoversOrBlank` |
| `postgres_replay` | violated | a link lost between a device's migration and first upsert makes every later setup fail |
| `postgres_join` | violated | a lost wakeup leaves the destructor's join waiting |
| `migrator` | holds | `TypeOK`, `NoConflict`, `ReadyIsCurrent`, `ImplementsUpgrade`, `LockGranted` |
| `migrator_verify` | violated | `--no-migrate` accepts a device schema that does not exist |
| `bridge` | holds | `TypeOK`, `CallersJoined`, `FinalOffline`, `GatedReachConsumers`, `IdentityCurrent`, `AvailabilityFollowsPort`, `FatalExitsNonZero`, `DescriptorsReleased`, `StopReachesMain`, `ServedNeverReverts`, `Terminates` |
| `easymeter_silent` | violated | a stop request waits for ever while the Easymeter's line is silent |
| `easymeter_wiring` | violated | the Easymeter's thread reads a callback without the mutex while main assigns it |
| `config` | holds | `TypeOK`, `OneOwnerPerLine`, `DevicesFindTheirBus`, `BusPolicy`, `RosterComplete`, `OrderIrrelevant` |

The seven violated runs state what a comment or document of the repository says;
`PROJECT.json` quotes it under "findings".

### Bounds

* `mqtt`: two topics (the pass over the map, a second queue to leave behind),
  queues of two (full, overflow, and overflow twice in the unlocked window),
  at most four messages on one topic and one on the other, two payloads, delays
  1 to 2 (one doubling reaches the maximum). Failures are unbounded.
* `postgres`: a hybrid inverter and a meter, a retired registry row, a queue of
  two, two value events, two database failures (one failure and one while
  recovering from it), delays 1 to 3 (a doubling and a clamped one), both
  migration modes, any subset of the schemas existing.
* `migrator`: an old and a new release with lists {1,2} and {1,2,3}, one device
  schema and `public`, two failures, each process in either mode.
* `bridge`: two identities (an Easymeter's changes and changes back), one event
  snapshot, a bus and a retry thread (two publications may overlap), two clients
  on one descriptor number (every reuse of a number hits the other client), one
  value update beside the identity (an update that loses the other's work is
  visible), both transports of a slave. Reconnects, retries, telegrams and
  failures are unbounded. The size is chosen for `Terminates`; the invariants and
  `ServedNeverReverts` are proved for any sets, and TLC finds them to hold with
  two events and two descriptors as well. The two `easymeter` runs have an Easymeter only.
* `config`: one inverter and two meters on a serial line, a gateway and a serial
  line that has the gateway's name, with two unit ids, two speeds and two reconnect policies (three masters, so that
  the conflicting two need not be neighbours); two meters of both kinds with and
  without a slave on any of the lines beside an inverter; names and site roles of
  three devices; and every single value at and beyond its bounds. Each family is
  enumerated completely, some 7400 documents in all. Their values have the right
  types; the proofs cover any documents.

Deadlock checking is off in all runs: after shutdown, once every schema is
ready, or once a document is loaded or rejected, the system has nothing left to
do.

### Fairness

Weak fairness of each thread and of the destructor: the operating system runs a
thread that can run, and a mutex that is free again and again is eventually
obtained. Nothing obliges producers to publish or anyone to request the
shutdown. In `PostgresClient` the database works once it has failed `MaxFaults`
times, which is what "after an outage" means. In `SchemaMigrator` the lock is
granted with strong fairness, since PostgreSQL queues the waiters of a lock;
nothing obliges a failed process to be restarted.

In `Bridge` every thread is fair: its waits are timed, its Modbus calls end with
a response or an indication timeout, and `poll` ends after 500 ms. Nothing makes
the bus report, a client connect or a signal arrive. `read` on the Easymeter's
line has no bound; `SilentSpec` says so, and `Spec` adds that the meter keeps
sending (it does so every second), which `Terminates` needs: `easymeter_silent`
shows that it fails without. main is fair unless it hangs in a signal handler or
joins a consumer's worker that is lost. The three poll loops share one fairness
condition: a process has one kind of device.

### What the properties of the bridge and the configuration leave open

`Terminates` names two ways to wait for good. The worker of a consumer may miss
its destructor's notification (`postgres_join` shows how), and the join then
waits. And a signal may interrupt main while it holds the handler's mutex, in
its own `shutdown` after a start-up failure, between the predicate and the sleep
of `wait`, or in a signal handler: the second lock never returns, so that
"wait() returns immediately" (`src/main.cpp:341-343`) fails. `StopReachesMain`
confines this to processes whose flag has not been cleared; no other thread can
clear it from then on.

`DevicesFindTheirBus` promises a device the transport it was configured with
among the devices of its own kind of transport only. A serial path that reads
like `gw:502` and a TCP device on host `gw`, port 502, have one bus key; they
load and share a bus, although `src/config_yaml.cpp:836-842` has
`validateConfig` guarantee that sharers agree. The documents of `config` include
the case. So they do the power factor `.nan` and coordinates that are not
numbers, which pass range checks that only reject what compares badly
(`src/config_yaml.cpp:394-400`, 665-677); no property claims that they are in
range.

`FinalOffline` excludes runs in which two library threads were inside
`publishAvailability` at once: they may deliver in the other order than they
decided, and the gate then suppresses the destructor's publication.
`IdentityCurrent` speaks of consumers that have been told an identity at all: a
telegram complete before main has installed the callbacks is taken by the gate
and not published. A master whose `connected_` was cleared by a failing getter,
or after the retry thread had set it, rests until the bus reports again; the
model has these behaviours, and no property claims otherwise.

## 5. Proofs

Each is checked by `tlapm` on its module. They hold for every value of the
constants that satisfies the named assumptions of the component's module:

* `MqttClientProofs`, for every number of topics, queue size and delay that the
  configuration parser accepts (`ConfigAssumption`): `TypeCorrect`, `PopIsSafe`,
  `NewestIsKept`, `ThreadsStayAlive`, `BackoffFollowsSchedule` and, for queues
  of two messages and more, `Refinement` of `LatestWins`.
* `PostgresClientProofs`, for every set of devices, queue size and delay
  (`ConfigAssumption`): `TypeCorrect`, `ConnectionHeld`, `RegistryIsFirst`,
  `DevicesRefreshed`, `SchemasExist`, `WorkerStaysAlive`,
  `BackoffFollowsSchedule`.
* `SchemaMigratorProofs`, for any processes, schemas and releases, provided
  that of two releases' migration lists one is the beginning of the other and
  that every list has a last version (`MigrationsAssumption`): `TypeCorrect`,
  `NeverConflicts`, `ReadyStaysCurrent` and `Refinement` of `SchemaUpgrade`.
* `BridgeProofs`, for any identities, event snapshots, clients, descriptors and
  updates (`BridgeAssumption`, which otherwise says that `None` is none of the
  values it stands beside): `TypeCorrect`, `FatalIsVisible`, `CallersAreJoined`,
  `LastWordIsOffline`, `GatedReach`, `IdentityIsCurrent`,
  `AvailabilityIsCurrent`, `DescriptorsAreReleased`, `ServedIsMonotone`,
  `MainIsWoken`.
* `ConfigProofs`, for any set of documents, with any number of devices and
  whatever values in them, any legal names, and any serial paths that read like
  endpoints, provided that a path reads like one endpoint and no two like the
  same one (`SpelledAssumption`): `TypeCorrect`, `OneOwner`, `BusesAreFound`,
  `PolicyIsTightest`, `RosterIsComplete`, `OrderIsIrrelevant`. (`NaNAssumption`
  says that `NaN` is no integer; no proof uses it.)

The arguments. None of the MQTT properties is inductive alone. `DataInv`
strengthens them by the order of every queue (numbers increase and end at the
last accepted one: `QueueInv`, `NewestInv`), what is newer than what libmosquitto
took (`FreshInv`), and the unlocked window (`WindowInv`: between `WorkerPass`
and `WorkerRelock` the topic's queue is not empty, and its head is the copied
message or, after an overflow, a newer one). The refinement maps the pending
messages to those queued beyond what was taken, with the worker's copy;
`PendingInv` follows from `DataInv`, and `StepRefines` shows every step to be an
acceptance, a delivery, a loss or a stutter. The network thread's properties
rest on `NetInv` alone.

The Postgres properties share `SafeInv`: the connection is held wherever the
setup has passed `Connect` (`ConnInv`), the one-time flag implies a synchronised
registry (`OnceInv`), and during the replay every known device is either yet to
be replayed or fresh (`ReplayInv`). The delay bounds (`DelayInv`) and the shape
of the queue and the event in hand (`QueueInv`) are separate invariants.

`NoConflict` and `ReadyIsCurrent` of the migrator rest on `MigratorInv`: only the
holder of the advisory lock is past it (`LockInv`), what is committed is nothing
or some release's whole list (`WholeInv`), and what the holder's transaction has
read and staged still fits what is committed (`TransactionInv`). `CommitUpgrades`
then says that a COMMIT writes nothing or completes an upgrade, which is also
the step of `SchemaUpgrade`.

The properties of the bridge are about different parts of one state, so each has
an invariant of its own, and `Steps` with the lemmas beside it says once which
variables a step of another part leaves alone:

* `StopReachesMain` is inductive as it stands: `shutdown` needs the mutex, which
  main holds from its look at the flag until it sleeps, and for good when it
  hangs in the signal handler (`MainIsWoken`);
* `SlaveInv` (a thread that runs owns its socket, an update in progress works on
  a copy of the current block, no client has seen more than that block) gives
  `ServedIsMonotone` and, with the next one, `DescriptorsAreReleased`;
* `LifeInv` (what each stage of the destruction has ended stays ended) gives
  `CallersAreJoined`, and tells the others who is still running;
* `WiredInv` (a consumer was told something only through an installed callback,
  which a Modbus master has before it can be connected) and `GateInv` (what the
  gate took was delivered, or its poll loop is about to) give `GatedReach`;
* `PortInv` (the last word follows the serial line, but for the moment between
  `open` and the announcement) gives `AvailabilityIsCurrent`;
* `LastWordInv` gives `LastWordIsOffline`. Its part `CallInv` is the interesting
  one: as long as no two library threads met in `publishAvailability`, the
  gate holds what the one that fires is about to say, and otherwise what the
  consumers heard last, so the destructor's decision is right.

`ConfigProofs` has two invariants. `SectionsInv` is what the parsers let through
(`MasterOK`, `MeterOK`), from the step that parsed a section to the end, with
the verdict of `validateConfig` from the step that reached it; `OneOwner`,
`RosterIsComplete` and `OrderIsIrrelevant` follow from it, with
`SharedLine` (comparing everyone with the first user of a serial device compares
every pair) and `Rearranged` (devices that are valid together are valid in any
order and selection, of which the reversed lists are an instance). `BusInv` says
that the buses are right about the devices visited so far (`BusOK`: line,
policy, members); `Joins` adds one device, and `KeyIsLine` says that two devices
with the same bus key and the same kind of transport have the same line. It replaces the induction over the
list of devices that a recursive fold would need.

TLC also finds the inductive invariants of `SchemaMigrator`, `Bridge` and
`Config` to hold on the instances of the runs.

Only model-checked: the liveness properties (`NetworkStops`, `RetryRearmed`,
`StopsDuringOutage`, `RecoversOrBlank`, `LockGranted`, `Terminates`), which
depend on fairness and `ENABLED`, out of this prover's reach; and the violated
runs, whose counterexamples are TLC's.

## 6. Not modelled

Message and SQL text, logging, libpq tracing, TLS setup, privilege dropping and
unit conversion carry no state that the properties depend on. The register
encodings of the slave, the decoding of SunSpec registers and OBIS lines, and
the quantities derived from them are data; their failing is modelled. The SQL
rollups, continuous aggregates and retention are executed by the database. The
failure classes of `DbError` appear as the errors the worker tells apart, not as
the table of SQLSTATEs. In `Bridge` only one device runs at a time, so what two
devices on one bus do to each other inside libfronius is outside the model.
