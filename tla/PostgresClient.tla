--------------------------- MODULE PostgresClient ---------------------------
(***************************************************************************)
(* The PostgreSQL consumer of fronius-bridge (src/postgres_client.cpp):    *)
(* the masters' callbacks push device and value events onto one bounded    *)
(* queue, a worker thread connects, prepares the shared schema once, and   *)
(* writes the events one by one, reconnecting with backoff.                *)
(*                                                                         *)
(* A device is its configured name (and schema); inverters and meters take *)
(* the same path, a meter being a device that is not hybrid.  The cached   *)
(* descriptor of a device is absent, blank (built with its default values, *)
(* before the first upsert succeeded) or known.  A database call succeeds  *)
(* or fails with one of the errors the worker tells apart: "protocol" (the *)
(* link is down), "fatal", or "transient" (everything else).               *)
(***************************************************************************)
EXTENDS Naturals, Sequences

CONSTANTS
  Devices,      \* the configured devices
  Hybrid,       \* those whose descriptor says isHybrid
  QueueSize,    \* cfg_.queueSize
  MinDelay,     \* cfg_.reconnectDelay.min
  MaxDelay,     \* cfg_.reconnectDelay.max
  Exponential,  \* cfg_.reconnectDelay.exponential
  Retired,      \* a device of an earlier configuration
  MaxValues,    \* bound: value events in one behaviour
  MaxFaults     \* bound: failures of the database in one behaviour

\* parsePositiveSize() and parseReconnectDelay() reject everything else.
ASSUME ConfigAssumption ==
  /\ Hybrid \subseteq Devices
  /\ Retired \notin Devices
  /\ QueueSize \in Nat \ {0}
  /\ MinDelay \in Nat \ {0}
  /\ MaxDelay \in Nat
  /\ MinDelay < MaxDelay
  /\ Exponential \in BOOLEAN
  /\ MaxValues \in Nat
  /\ MaxFaults \in Nat

Event == [dev : Devices, kind : {"device", "values"}]
Errors == {"protocol", "transient", "fatal"}

VARIABLES
  queue,        \* queue_
  running,      \* handler_.isRunning()
  mutex,        \* the owner of queueMutex_: "free" or "worker"
  sleeping,     \* the worker is blocked on queueCv_ and not yet notified
  pc,           \* where run() stands
  event,        \* the event run() took, as a sequence of at most one
  conn,         \* conn_ holds a connection
  checked,      \* extensionsChecked_
  cache,        \* cachedInverters_ and cachedMeters_
  toReplay,     \* the cached devices connectAndPrepare() has yet to upsert
  backoff,      \* run()'s current delay
  autoMigrate,  \* cfg_.autoMigrate, set by the command line
  mainPc,       \* whether the client is alive, and how far its destructor is
  announced,    \* the devices whose master has emitted its Device event
  valuesSent,   \* number of value events so far
  faults,       \* number of database failures so far
  registry,     \* database: the names in public.device_registry
  schemas,      \* database: the devices whose schema is up to date
  samples,      \* database: the kinds of sample written by this process
  fresh         \* the devices upserted over the current connection

producerVars == <<queue, announced, valuesSent>>
lockVars     == <<mutex, sleeping>>
dbVars       == <<registry, schemas, samples>>
vars == <<producerVars, running, lockVars, pc, event, conn, checked, cache,
          toReplay, backoff, autoMigrate, mainPc, faults, dbVars, fresh>>

\* The schemas of some devices may be there from an earlier process, and so
\* may rows of the registry.
Init ==
  /\ queue = <<>>
  /\ running = TRUE
  /\ mutex = "free"
  /\ sleeping = FALSE
  /\ pc = "outer"
  /\ event = <<>>
  /\ conn = FALSE
  /\ checked = FALSE
  /\ cache = [d \in Devices |-> "absent"]
  /\ toReplay = {}
  /\ backoff = MinDelay
  /\ autoMigrate \in BOOLEAN
  /\ mainPc = "alive"
  /\ announced = {}
  /\ valuesSent = 0
  /\ faults = 0
  /\ registry = {Retired}
  /\ schemas \in SUBSET Devices
  /\ samples = {}
  /\ fresh = {}

-----------------------------------------------------------------------------
(* Producers: enqueue(), called by the masters' callbacks.                 *)

\* Fault (named ...Bug, like those below; no specification uses them): the
\* bound is off by one.
EnqueueOffByOneBug(ev) ==
  /\ mutex = "free"
  /\ queue' = Append(IF Len(queue) > QueueSize THEN Tail(queue) ELSE queue, ev)
  /\ sleeping' = FALSE
  /\ UNCHANGED mutex

\* Drop the oldest event when full, push, notify.
Enqueue(ev) ==
  /\ mutex = "free"
  /\ queue' = Append(IF Len(queue) >= QueueSize THEN Tail(queue) ELSE queue, ev)
  /\ sleeping' = FALSE
  /\ UNCHANGED mutex

\* A master's device callback fires once per process: its change gate keeps
\* the first identity it reads (an EBZ meter's gate compares every telegram,
\* but the identity of a meter does not change).
OnDevice(d) ==
  /\ mainPc = "alive"
  /\ d \notin announced
  /\ announced' = announced \union {d}
  /\ Enqueue([dev |-> d, kind |-> "device"])
  /\ UNCHANGED <<valuesSent, running, pc, event, conn, checked, cache,
                 toReplay, backoff, autoMigrate, mainPc, faults, dbVars, fresh>>

\* Values may precede the device: its identity is read in a separate
\* request, which may fail.
OnValues(d) ==
  /\ mainPc = "alive"
  /\ valuesSent < MaxValues
  /\ valuesSent' = valuesSent + 1
  /\ Enqueue([dev |-> d, kind |-> "values"])
  /\ UNCHANGED <<announced, running, pc, event, conn, checked, cache, toReplay,
                 backoff, autoMigrate, mainPc, faults, dbVars, fresh>>

-----------------------------------------------------------------------------
(* The worker: run(), the outer loop with connectAndPrepare().             *)

\* Fault: the loop does not look at the shutdown flag.
OuterIgnoresShutdownBug ==
  /\ pc = "outer"
  /\ pc' = "connect"
  /\ UNCHANGED <<producerVars, running, lockVars, event, conn, checked, cache,
                 toReplay, backoff, autoMigrate, mainPc, faults, dbVars, fresh>>

\* Leaving run() closes the connection.
Outer ==
  /\ pc = "outer"
  /\ \/ running /\ pc' = "connect" /\ UNCHANGED conn
     \/ ~running /\ pc' = "done" /\ conn' = FALSE
  /\ UNCHANGED <<producerVars, running, lockVars, event, checked, cache,
                 toReplay, backoff, autoMigrate, mainPc, faults, dbVars, fresh>>

\* Fault: a fatal setup error only ends the worker.
SetupFailsSilentlyBug(err) ==
  /\ UNCHANGED running
  /\ pc' = IF err = "fatal" THEN "done" ELSE "backoff"

\* What run() does with an error of connectAndPrepare().
SetupFails(err) ==
  /\ running' = (running /\ err # "fatal")
  /\ pc' = IF err = "fatal" THEN "done" ELSE "backoff"

\* A database call fails.
Fault == faults < MaxFaults /\ faults' = faults + 1

\* Fault: the replay is left to the first connection.
ConnectWithoutReplayBug ==
  /\ pc = "connect"
  /\ conn' = TRUE
  /\ fresh' = {}
  /\ toReplay' = {}
  /\ pc' = IF checked THEN "replay" ELSE "once"
  /\ UNCHANGED <<producerVars, running, lockVars, event, checked, cache,
                 backoff, autoMigrate, mainPc, faults, dbVars>>

\* Fault: the delay is reset as soon as the server accepts a connection.
ConnectResetsBackoffBug ==
  /\ pc = "connect"
  /\ conn' = TRUE
  /\ fresh' = {}
  /\ toReplay' = {d \in Devices : cache[d] # "absent"}
  /\ backoff' = MinDelay
  /\ pc' = IF checked THEN "replay" ELSE "once"
  /\ UNCHANGED <<producerVars, running, lockVars, event, checked, cache,
                 autoMigrate, mainPc, faults, dbVars>>

\* A new connection, on which every cached device has yet to be upserted.
\* A failed one is released, and always transient (Kind::CONNECT).
Connect ==
  /\ pc = "connect"
  /\ fresh' = {}
  /\ \/ /\ conn' = TRUE
        /\ toReplay' = {d \in Devices : cache[d] # "absent"}
        /\ pc' = IF checked THEN "replay" ELSE "once"
        /\ UNCHANGED <<running, faults>>
     \/ /\ Fault
        /\ conn' = FALSE
        /\ SetupFails("transient")
        /\ UNCHANGED toReplay
  /\ UNCHANGED <<producerVars, lockVars, event, checked, cache, backoff,
                 autoMigrate, mainPc, dbVars>>

\* Fault: the flag is set before the block has succeeded.
CheckedTooEarlyBug ==
  /\ pc = "once"
  /\ checked' = TRUE
  /\ \/ /\ registry' = Devices
        /\ pc' = "replay"
        /\ UNCHANGED <<running, faults>>
     \/ /\ Fault
        /\ \E err \in Errors : SetupFails(err)
        /\ registry' \in {registry, Devices}
  /\ UNCHANGED <<producerVars, lockVars, event, conn, cache, toReplay, backoff,
                 autoMigrate, mainPc, schemas, samples, fresh>>

\* syncRegistry(): one transaction replaces the roster of an earlier
\* configuration by this one's.
syncRegistry == registry' = Devices

\* Once per process: the extension check, the public schema and
\* syncRegistry(). Any of them may fail, the COMMIT after it took effect
\* included; then all are repeated.
PrepareOnce ==
  /\ pc = "once"
  /\ \/ /\ checked' = TRUE
        /\ syncRegistry
        /\ pc' = "replay"
        /\ UNCHANGED <<running, faults>>
     \/ /\ Fault
        /\ \E err \in Errors : SetupFails(err)
        /\ syncRegistry \/ UNCHANGED registry
        /\ UNCHANGED checked
  /\ UNCHANGED <<producerVars, lockVars, event, conn, cache, toReplay, backoff,
                 autoMigrate, mainPc, schemas, samples, fresh>>

\* Fault: the upsert is a plain INSERT, which the row of a device that is
\* known already makes fail every time.
ReplayConflictsBug(d) ==
  /\ pc = "replay"
  /\ d \in toReplay
  /\ SetupFails(IF d \in schemas THEN "transient" ELSE "fatal")
  /\ UNCHANGED <<toReplay, fresh, faults>>
  /\ UNCHANGED <<producerVars, lockVars, event, conn, checked, cache, backoff,
                 autoMigrate, mainPc, dbVars>>

\* upsertInverterDevice()/upsertMeterDevice() with the cached descriptor. A
\* blank one has no phases, which the CHECKs of the device table refuse
\* every time (a TRANSIENT QUERY error; without the schema it is a fatal one).
Replay(d) ==
  /\ pc = "replay"
  /\ d \in toReplay
  /\ \/ /\ cache[d] = "known"
        /\ toReplay' = toReplay \ {d}
        /\ fresh' = fresh \union {d}
        /\ UNCHANGED <<pc, running, faults>>
     \/ /\ cache[d] = "known"
        /\ Fault
        /\ \E err \in Errors : SetupFails(err)
        /\ UNCHANGED <<toReplay, fresh>>
     \/ /\ cache[d] = "blank"
        /\ SetupFails(IF d \in schemas THEN "transient" ELSE "fatal")
        /\ UNCHANGED <<toReplay, fresh, faults>>
  /\ UNCHANGED <<producerVars, lockVars, event, conn, checked, cache, backoff,
                 autoMigrate, mainPc, dbVars>>

\* The setup has succeeded: the delay starts over.
ReplayDone ==
  /\ pc = "replay"
  /\ toReplay = {}
  /\ backoff' = MinDelay
  /\ pc' = "inner"
  /\ UNCHANGED <<producerVars, running, lockVars, event, conn, checked, cache,
                 toReplay, autoMigrate, mainPc, faults, dbVars, fresh>>

NextBackoff(b) ==
  IF Exponential THEN (IF 2 * b < MaxDelay THEN 2 * b ELSE MaxDelay)
  ELSE MinDelay

\* sleepBackoff(): the wait is timed, so it ends, notified or not.
SleepBackoff ==
  /\ pc = "backoff"
  /\ mutex = "free"
  /\ backoff' = NextBackoff(backoff)
  /\ pc' = "outer"
  /\ UNCHANGED <<producerVars, running, lockVars, event, conn, checked, cache,
                 toReplay, autoMigrate, mainPc, faults, dbVars, fresh>>

-----------------------------------------------------------------------------
(* The inner loop: take an event, write it.                                *)

Inner ==
  /\ pc = "inner"
  /\ \/ /\ running
        /\ mutex = "free"
        /\ mutex' = "worker"
        /\ pc' = "pred"
     \/ /\ ~running
        /\ pc' = "outer"
        /\ UNCHANGED mutex
  /\ UNCHANGED <<producerVars, running, sleeping, event, conn, checked, cache,
                 toReplay, backoff, autoMigrate, mainPc, faults, dbVars, fresh>>

\* queueCv_.wait evaluates its predicate with queueMutex_ held ...
Pred ==
  /\ pc = "pred"
  /\ pc' = IF queue # <<>> \/ ~running THEN "take" ELSE "block"
  /\ UNCHANGED <<producerVars, running, lockVars, event, conn, checked, cache,
                 toReplay, backoff, autoMigrate, mainPc, faults, dbVars, fresh>>

\* ... and only then sleeps, releasing it ...
Block ==
  /\ pc = "block"
  /\ mutex' = "free"
  /\ sleeping' = TRUE
  /\ pc' = "asleep"
  /\ UNCHANGED <<producerVars, running, event, conn, checked, cache, toReplay,
                 backoff, autoMigrate, mainPc, faults, dbVars, fresh>>

\* ... until notified.
Wake ==
  /\ pc = "asleep"
  /\ ~sleeping
  /\ mutex = "free"
  /\ mutex' = "worker"
  /\ pc' = "pred"
  /\ UNCHANGED <<producerVars, running, sleeping, event, conn, checked, cache,
                 toReplay, backoff, autoMigrate, mainPc, faults, dbVars, fresh>>

\* The step of processEvent() an event starts with: a device seen for the
\* first time gets its schema.
Handler(ev) ==
  IF ev.kind = "values" THEN "insert"
  ELSE IF cache[ev.dev] = "absent" THEN "migrate" ELSE "upsert"

\* Stop when nothing is left, else move the front out of the queue; either
\* way queueMutex_ is released.
Take ==
  /\ pc = "take"
  /\ mutex' = "free"
  /\ \/ /\ queue = <<>> /\ ~running
        /\ pc' = "outer"
        /\ UNCHANGED <<queue, event>>
     \/ /\ queue # <<>>
        /\ event' = <<Head(queue)>>
        /\ queue' = Tail(queue)
        /\ pc' = Handler(Head(queue))
  /\ UNCHANGED <<announced, valuesSent, running, sleeping, conn, checked,
                 cache, toReplay, backoff, autoMigrate, mainPc, faults, dbVars,
                 fresh>>

dev == event[1].dev

\* Fault: after a broken link the worker stays in the inner loop.
EventFailsStaysBug(err) ==
  /\ running' = (running /\ err # "fatal")
  /\ conn' = (conn /\ err # "protocol")
  /\ pc' = IF err = "fatal" THEN "outer" ELSE "inner"
  /\ event' = <<>>

\* What run() does with an error of processEvent(); the event is lost.
EventFails(err) ==
  /\ running' = (running /\ err # "fatal")
  /\ conn' = (conn /\ err # "protocol")
  /\ pc' = IF err = "transient" THEN "inner" ELSE "outer"
  /\ event' = <<>>

\* Fault: the cache entry is made before the schema is.
CacheBeforeMigrateBug ==
  /\ pc = "migrate"
  /\ cache' = [cache EXCEPT ![dev] = "blank"]
  /\ \/ /\ schemas' = IF autoMigrate THEN schemas \union {dev} ELSE schemas
        /\ pc' = "upsert"
        /\ UNCHANGED <<running, conn, event, faults>>
     \/ /\ Fault
        /\ \E err \in Errors : EventFails(err)
        /\ UNCHANGED schemas
  /\ UNCHANGED <<producerVars, lockVars, checked, toReplay, backoff,
                 autoMigrate, mainPc, registry, samples, fresh>>

\* First sight of a device: migrate() (whose COMMIT may take effect although
\* it fails) or verify(), then a cache entry with default values. verify()
\* of a missing schema either fails or, reading the version of public, does
\* not notice.
Migrate ==
  /\ pc = "migrate"
  /\ \/ /\ schemas' = IF autoMigrate THEN schemas \union {dev} ELSE schemas
        /\ cache' = [cache EXCEPT ![dev] = "blank"]
        /\ pc' = "upsert"
        /\ UNCHANGED <<running, conn, event, faults>>
     \/ /\ Fault
        /\ \E err \in Errors : EventFails(err)
        /\ schemas' \in {schemas} \union
             (IF autoMigrate THEN {schemas \union {dev}} ELSE {})
        /\ UNCHANGED cache
     \/ /\ ~autoMigrate /\ dev \notin schemas
        /\ EventFails("fatal")
        /\ UNCHANGED <<schemas, cache, faults>>
  /\ UNCHANGED <<producerVars, lockVars, checked, toReplay, backoff,
                 autoMigrate, mainPc, registry, samples, fresh>>

\* The upsert, and the descriptor into the cache. Without the schema it fails
\* with SQLSTATE class 42, which is fatal.
Upsert ==
  /\ pc = "upsert"
  /\ \/ /\ dev \in schemas
        /\ cache' = [cache EXCEPT ![dev] = "known"]
        /\ fresh' = fresh \union {dev}
        /\ pc' = "inner"
        /\ event' = <<>>
        /\ UNCHANGED <<running, conn, faults>>
     \/ /\ Fault
        /\ \E err \in Errors : EventFails(err)
        /\ UNCHANGED <<cache, fresh>>
     \/ /\ dev \notin schemas
        /\ EventFails("fatal")
        /\ UNCHANGED <<cache, fresh, faults>>
  /\ UNCHANGED <<producerVars, lockVars, checked, toReplay, backoff,
                 autoMigrate, mainPc, dbVars>>

\* How the transaction of a value event writes dc_energy: the cached flags of
\* the device decide.
Sample(d) ==
  [dev |-> d,
   dcEnergy |-> IF cache[d] = "known" /\ d \in Hybrid THEN "null" ELSE "number"]

\* One transaction per value event; without a cache entry the event is
\* dropped, and without the schema the failure is fatal (class 42). When the
\* link breaks, the COMMIT may have taken effect.
Insert ==
  /\ pc = "insert"
  /\ \/ /\ cache[dev] = "absent"
        /\ EventFails("transient")
        /\ UNCHANGED <<samples, faults>>
     \/ /\ cache[dev] # "absent" /\ dev \notin schemas
        /\ EventFails("fatal")
        /\ UNCHANGED <<samples, faults>>
     \/ /\ cache[dev] # "absent" /\ dev \in schemas
        /\ samples' = samples \union {Sample(dev)}
        /\ pc' = "inner"
        /\ event' = <<>>
        /\ UNCHANGED <<running, conn, faults>>
     \/ /\ cache[dev] # "absent" /\ dev \in schemas
        /\ Fault
        /\ \E err \in Errors :
             /\ EventFails(err)
             /\ samples' \in {samples} \union
                  (IF err = "protocol" THEN {samples \union {Sample(dev)}}
                   ELSE {})
  /\ UNCHANGED <<producerVars, lockVars, checked, cache, toReplay, backoff,
                 autoMigrate, mainPc, registry, schemas, fresh>>

Worker ==
  \/ Outer \/ Connect \/ PrepareOnce
  \/ \E d \in Devices : Replay(d)
  \/ ReplayDone \/ SleepBackoff
  \/ Inner \/ Pred \/ Block \/ Wake \/ Take
  \/ Migrate \/ Upsert \/ Insert

-----------------------------------------------------------------------------
(* The rest of the bridge.                                                 *)

\* A signal, or a fatal error of another component.
Shutdown ==
  /\ running
  /\ running' = FALSE
  /\ UNCHANGED <<producerVars, lockVars, pc, event, conn, checked, cache,
                 toReplay, backoff, autoMigrate, mainPc, faults, dbVars, fresh>>

\* ~PostgresClient: notify_all (without queueMutex_), then the jthread's join.
Destroy ==
  /\ \/ /\ mainPc = "alive" /\ ~running
        /\ sleeping' = FALSE
        /\ mainPc' = "join"
     \/ /\ mainPc = "join" /\ pc = "done"
        /\ mainPc' = "destroyed"
        /\ UNCHANGED sleeping
  /\ UNCHANGED <<producerVars, running, mutex, pc, event, conn, checked, cache,
                 toReplay, backoff, autoMigrate, faults, dbVars, fresh>>

Next ==
  \/ \E d \in Devices : OnDevice(d) \/ OnValues(d)
  \/ Worker
  \/ Shutdown
  \/ Destroy

\* The scheduler runs the worker and the destructor; the database, once it
\* has failed MaxFaults times, works.
Fairness == WF_vars(Worker) /\ WF_vars(Destroy)

Spec == Init /\ [][Next]_vars /\ Fairness

-----------------------------------------------------------------------------
(* What the client promises.                                               *)

QueueType ==
  /\ queue \in Seq(Event)
  /\ Len(queue) <= QueueSize
  /\ announced \subseteq Devices
  /\ valuesSent \in Nat
  /\ mutex \in {"free", "worker"}
  /\ sleeping \in BOOLEAN
  /\ mainPc \in {"alive", "join", "destroyed"}

WorkerType ==
  /\ pc \in {"outer", "connect", "once", "replay", "backoff", "inner", "pred",
             "block", "asleep", "take", "migrate", "upsert", "insert", "done"}
  /\ event \in {<<>>} \union {<<ev>> : ev \in Event}
  /\ running \in BOOLEAN
  /\ conn \in BOOLEAN
  /\ checked \in BOOLEAN
  /\ cache \in [Devices -> {"absent", "blank", "known"}]
  /\ toReplay \subseteq Devices
  /\ backoff \in MinDelay..MaxDelay

DbType ==
  /\ autoMigrate \in BOOLEAN
  /\ faults \in Nat
  /\ registry \subseteq Devices \union {Retired}
  /\ schemas \subseteq Devices
  /\ samples \subseteq [dev : Devices, dcEnergy : {"null", "number"}]
  /\ fresh \subseteq Devices

\* The types, with two bounds: the queue stays within queueSize and the delay
\* between its minimum and maximum.
TypeOK == QueueType /\ WorkerType /\ DbType

\* The states in which run() is draining the queue over a connection.
Draining ==
  pc \in {"inner", "pred", "block", "asleep", "take", "migrate", "upsert",
          "insert"}

\* Whatever failed before, an event is only ever processed over a connection
\* (without one the SQL paths report an INTERNAL error, which shuts the
\* bridge down for a mere reconnect).
NoInternalError == Draining => conn

\* The one-time block is repeated until all of it has succeeded: no schema of
\* this process's devices is touched before the registry lists exactly the
\* configured devices.
RegistryFirst == Draining => registry = Devices

\* After a reconnect every device the process knows has been upserted over
\* the new connection before the next event is taken.
RefreshedOnReconnect ==
  Draining => \A d \in Devices : cache[d] = "known" => d \in fresh

\* Unless the operator owns the schemas (--no-migrate), a cached device has
\* its schema whatever failed on first sight: a missing one would turn its
\* next value event into a fatal error and shut the bridge down.
CachedSchemaExists ==
  autoMigrate => \A d \in Devices : cache[d] # "absent" => d \in schemas

\* The worker leaves its loop only with the whole bridge.
WorkerOutlivesRun == running => pc # "done"

\* The delay shrinks only once a whole setup has succeeded, so a server that
\* accepts connections and then fails is not hammered.
BackoffSchedule ==
  [][backoff' < backoff =>
       backoff' = MinDelay /\ conn /\ checked /\ toReplay = {}]_vars

\* A shutdown during the setup or its backoff ends the worker: the wait is
\* timed and the loops look at the flag.
StopsDuringOutage ==
  (~running /\ ~Draining) ~> pc = "done"

\* After an outage the worker drains again, unless a device's descriptor was
\* lost between its schema and its upsert.
RecoversOrBlank ==
  pc = "backoff" ~>
    (Draining \/ ~running \/ \E d \in Devices : cache[d] = "blank")

\* src/postgres_client.cpp:226: after a broken link "the caches persist, so
\* the reconnect replays the device upserts", and include/db_error.h:37: a
\* transient error is "expected to clear on retry". So once the database
\* works again, the worker does.
RecoversFromOutage == pc = "backoff" ~> (Draining \/ ~running)

\* include/postgres_client.h:54: "the destructor wakes and joins the worker".
DestructorJoins == mainPc = "join" ~> mainPc = "destroyed"
=============================================================================
