------------------------ MODULE PostgresClientProofs ------------------------
(***************************************************************************)
(* Proofs about PostgresClient for every set of devices, queue size, delay *)
(* policy and number of events and database failures.                      *)
(***************************************************************************)
EXTENDS PostgresClient, TLAPS

USE DEF producerVars, lockVars, dbVars

\* The states of the setup in which a connection is open, and those in which
\* an event is being written.
Preparing == pc \in {"once", "replay"}
Writing == pc \in {"migrate", "upsert", "insert"}

\* There is a connection from the setup on, and an event while one is written.
ConnInv ==
  /\ Preparing \/ Draining => conn
  /\ Writing => event # <<>>

\* The one-time block has succeeded before anything is replayed or drained.
OnceInv ==
  /\ pc = "replay" \/ Draining => checked
  /\ checked => registry = Devices

\* Every known device is upserted over this connection, or is still to be.
ReplayInv ==
  /\ Preparing =>
       \A d \in Devices : cache[d] = "known" => d \in fresh \/ d \in toReplay
  /\ Draining => \A d \in Devices : cache[d] = "known" => d \in fresh

\* Without exponential backoff the delay never leaves its minimum.
DelayInv ==
  /\ backoff \in MinDelay..MaxDelay
  /\ ~Exponential => backoff = MinDelay

\* The event being written is one of the masters'.
EventInv ==
  /\ event = <<>> \/ \E ev \in Event : event = <<ev>>
  /\ Writing => dev \in Devices

-----------------------------------------------------------------------------

LEMMA DelayFacts ==
  /\ MinDelay \in MinDelay..MaxDelay
  /\ \A b \in MinDelay..MaxDelay :
       /\ NextBackoff(b) \in MinDelay..MaxDelay
       /\ Exponential => NextBackoff(b) >= b
       /\ ~Exponential => NextBackoff(b) = MinDelay
  BY ConfigAssumption DEF NextBackoff

\* Pushing onto the queue respects its bound.
LEMMA EnqueueBound ==
  ASSUME QueueType, NEW ev \in Event, Enqueue(ev)
  PROVE  queue' \in Seq(Event) /\ Len(queue') <= QueueSize
  <1>1. QueueSize \in Nat \ {0}
    BY ConfigAssumption
  <1>2. queue \in Seq(Event) /\ Len(queue) <= QueueSize
    BY DEF QueueType
  <1>3. CASE Len(queue) < QueueSize
    <2>1. queue' = Append(queue, ev)
      BY <1>1, <1>2, <1>3 DEF Enqueue
    <2>2. QED
      BY <1>1, <1>2, <1>3, <2>1
  <1>4. CASE Len(queue) = QueueSize
    <2>1. queue' = Append(Tail(queue), ev)
      BY <1>1, <1>2, <1>4 DEF Enqueue
    <2>2. Tail(queue) \in Seq(Event) /\ Len(Tail(queue)) = QueueSize - 1
      BY <1>1, <1>2, <1>4
    <2>3. QED
      BY <1>1, <2>1, <2>2
  <1>5. QED
    BY <1>1, <1>2, <1>3, <1>4

\* The steps of the worker, one by one.
LEMMA Steps ==
  ASSUME [Next]_vars
  PROVE  \/ \E d \in Devices : OnDevice(d)
         \/ \E d \in Devices : OnValues(d)
         \/ Outer \/ Connect \/ PrepareOnce
         \/ \E d \in Devices : Replay(d)
         \/ ReplayDone \/ SleepBackoff
         \/ Inner \/ Pred \/ Block \/ Wake \/ Take
         \/ Migrate \/ Upsert \/ Insert
         \/ Shutdown \/ Destroy \/ UNCHANGED vars
  BY DEF Next, Worker

-----------------------------------------------------------------------------
(* The delay.                                                              *)

\* Only the end of a setup and of a backoff touch the delay.
LEMMA DelaySteps ==
  ASSUME [Next]_vars
  PROVE  \/ UNCHANGED backoff
         \/ ReplayDone
         \/ SleepBackoff
  BY Steps DEF OnDevice, OnValues, Outer, Connect, PrepareOnce, Replay, Inner,
               Pred, Block, Wake, Take, Migrate, Upsert, Insert, Shutdown,
               Destroy, vars

\* The delay stays within the configured bounds.
THEOREM DelayInvariant == Spec => []DelayInv
  <1>1. Init => DelayInv
    BY DelayFacts DEF Init, DelayInv
  <1>2. DelayInv /\ [Next]_vars => DelayInv'
    <2> SUFFICES ASSUME DelayInv, [Next]_vars PROVE DelayInv'
      OBVIOUS
    <2>1. CASE UNCHANGED backoff
      BY <2>1 DEF DelayInv
    <2>2. CASE ReplayDone
      BY <2>2, DelayFacts DEF ReplayDone, DelayInv
    <2>3. CASE SleepBackoff
      BY <2>3, DelayFacts DEF SleepBackoff, DelayInv
    <2>4. QED
      BY <2>1, <2>2, <2>3, DelaySteps
  <1>3. QED
    BY <1>1, <1>2, PTL DEF Spec

-----------------------------------------------------------------------------
(* The connection, the one-time block, the replay and the schemas.         *)

SafeInv ==
  /\ ConnInv
  /\ OnceInv
  /\ ReplayInv
  /\ CachedSchemaExists
  /\ WorkerOutlivesRun
  /\ toReplay \subseteq Devices
  /\ cache \in [Devices -> {"absent", "blank", "known"}]

\* It holds initially, and the steps of each part of run() preserve it.
LEMMA SafeInit == Init => SafeInv
  BY DEF Init, SafeInv, ConnInv, OnceInv, ReplayInv, CachedSchemaExists,
         WorkerOutlivesRun, Preparing, Draining, Writing

\* Steps outside the setup and the writing of an event.
LEMMA SafeLoops ==
  ASSUME SafeInv,
         \/ \E d \in Devices : OnDevice(d) \/ OnValues(d)
         \/ Outer \/ SleepBackoff \/ Inner \/ Pred \/ Block \/ Wake
         \/ Shutdown \/ Destroy \/ UNCHANGED vars
  PROVE  SafeInv'
  <1>1. CASE \E d \in Devices : OnDevice(d) \/ OnValues(d)
    BY <1>1 DEF OnDevice, OnValues, SafeInv, ConnInv, OnceInv, ReplayInv,
                CachedSchemaExists, WorkerOutlivesRun, Preparing, Draining,
                Writing
  <1>2. CASE Outer \/ SleepBackoff
    BY <1>2 DEF Outer, SleepBackoff, SafeInv, ConnInv, OnceInv, ReplayInv,
                CachedSchemaExists, WorkerOutlivesRun, Preparing, Draining,
                Writing
  <1>3. CASE Inner \/ Pred \/ Block \/ Wake
    BY <1>3 DEF Inner, Pred, Block, Wake, SafeInv, ConnInv, OnceInv, ReplayInv,
                CachedSchemaExists, WorkerOutlivesRun, Preparing, Draining,
                Writing
  <1>4. CASE Shutdown \/ Destroy \/ UNCHANGED vars
    BY <1>4 DEF Shutdown, Destroy, vars, SafeInv, ConnInv, OnceInv, ReplayInv,
                CachedSchemaExists, WorkerOutlivesRun, Preparing, Draining,
                Writing
  <1>5. QED
    BY <1>1, <1>2, <1>3, <1>4

\* connectAndPrepare().
LEMMA SafeSetup ==
  ASSUME SafeInv,
         Connect \/ PrepareOnce \/ (\E d \in Devices : Replay(d)) \/ ReplayDone
  PROVE  SafeInv'
  <1>1. CASE Connect
    BY <1>1 DEF Connect, SetupFails, Fault, SafeInv, ConnInv, OnceInv,
                ReplayInv, CachedSchemaExists, WorkerOutlivesRun, Preparing,
                Draining, Writing
  <1>2. CASE PrepareOnce
    <2>1. /\ pc = "once"
          /\ UNCHANGED <<event, conn, cache, toReplay, autoMigrate, schemas,
                         fresh>>
      BY <1>2 DEF PrepareOnce
    <2>2. CASE pc' = "replay" /\ checked' = TRUE /\ registry' = Devices
      <3>1. UNCHANGED running \/ running' = FALSE
        BY <1>2 DEF PrepareOnce, SetupFails, syncRegistry
      <3>2. QED
        BY <2>1, <2>2, <3>1
           DEF SafeInv, ConnInv, OnceInv, ReplayInv, CachedSchemaExists,
               WorkerOutlivesRun, Preparing, Draining, Writing
    <2>3. CASE /\ pc' \in {"backoff", "done"}
               /\ pc' = "done" => ~running'
               /\ UNCHANGED checked
               /\ registry' = registry \/ registry' = Devices
      BY <2>1, <2>3
         DEF SafeInv, ConnInv, OnceInv, ReplayInv, CachedSchemaExists,
             WorkerOutlivesRun, Preparing, Draining, Writing
    <2>4. QED
      BY <1>2, <2>2, <2>3 DEF PrepareOnce, SetupFails, syncRegistry
  <1>3. ASSUME NEW d \in Devices, Replay(d) PROVE SafeInv'
    BY <1>3 DEF Replay, SetupFails, Fault, SafeInv, ConnInv, OnceInv,
                ReplayInv, CachedSchemaExists, WorkerOutlivesRun, Preparing,
                Draining, Writing
  <1>4. CASE ReplayDone
    BY <1>4 DEF ReplayDone, SafeInv, ConnInv, OnceInv, ReplayInv,
                CachedSchemaExists, WorkerOutlivesRun, Preparing, Draining,
                Writing
  <1>5. QED
    BY <1>1, <1>2, <1>3, <1>4

\* The events.
LEMMA SafeEvents ==
  ASSUME SafeInv, Take \/ Migrate \/ Upsert \/ Insert
  PROVE  SafeInv'
  <1>1. CASE Take
    <2>1. /\ pc = "take"
          /\ UNCHANGED <<running, conn, checked, cache, toReplay, autoMigrate,
                         registry, schemas, fresh>>
      BY <1>1 DEF Take
    <2>2. \/ pc' = "outer"
          \/ event' # <<>> /\ pc' \in {"migrate", "upsert", "insert"}
      <3>1. \A ev : <<ev>> # <<>> /\ Handler(ev) \in {"migrate", "upsert", "insert"}
        BY DEF Handler
      <3>2. QED
        BY <1>1, <3>1 DEF Take
    <2>3. QED
      BY <2>1, <2>2
         DEF SafeInv, ConnInv, OnceInv, ReplayInv, CachedSchemaExists,
             WorkerOutlivesRun, Preparing, Draining, Writing
  <1>2. CASE Migrate
    BY <1>2 DEF Migrate, EventFails, Fault, SafeInv, ConnInv, OnceInv,
                ReplayInv, CachedSchemaExists, WorkerOutlivesRun, Preparing,
                Draining, Writing
  <1>3. CASE Upsert
    BY <1>3 DEF Upsert, EventFails, Fault, SafeInv, ConnInv, OnceInv,
                ReplayInv, CachedSchemaExists, WorkerOutlivesRun, Preparing,
                Draining, Writing
  <1>4. CASE Insert
    BY <1>4 DEF Insert, EventFails, Fault, SafeInv, ConnInv, OnceInv,
                ReplayInv, CachedSchemaExists, WorkerOutlivesRun, Preparing,
                Draining, Writing
  <1>5. QED
    BY <1>1, <1>2, <1>3, <1>4

\* The inductive invariant of the worker.
THEOREM SafeInvariant == Spec => []SafeInv
  <1>1. SafeInv /\ [Next]_vars => SafeInv'
    BY Steps, SafeLoops, SafeSetup, SafeEvents
  <1>2. QED
    BY <1>1, SafeInit, PTL DEF Spec

\* An event is only ever processed over a connection.
THEOREM ConnectionHeld == Spec => []NoInternalError
  <1>1. SafeInv => NoInternalError
    BY DEF SafeInv, ConnInv, NoInternalError
  <1>2. QED
    BY <1>1, SafeInvariant, PTL

\* The registry lists the configured devices before any event is processed.
THEOREM RegistryIsFirst == Spec => []RegistryFirst
  <1>1. SafeInv => RegistryFirst
    BY DEF SafeInv, OnceInv, RegistryFirst
  <1>2. QED
    BY <1>1, SafeInvariant, PTL

\* Every known device is upserted over the connection that events use.
THEOREM DevicesRefreshed == Spec => []RefreshedOnReconnect
  <1>1. SafeInv => RefreshedOnReconnect
    BY DEF SafeInv, ReplayInv, RefreshedOnReconnect
  <1>2. QED
    BY <1>1, SafeInvariant, PTL

\* With automatic migration a cached device has its schema.
THEOREM SchemasExist == Spec => []CachedSchemaExists
  <1>1. SafeInv => CachedSchemaExists
    BY DEF SafeInv
  <1>2. QED
    BY <1>1, SafeInvariant, PTL

\* The worker leaves its loop only with the whole bridge.
THEOREM WorkerStaysAlive == Spec => []WorkerOutlivesRun
  <1>1. SafeInv => WorkerOutlivesRun
    BY DEF SafeInv
  <1>2. QED
    BY <1>1, SafeInvariant, PTL

\* The delay shrinks only when a whole setup has succeeded.
THEOREM BackoffFollowsSchedule == Spec => BackoffSchedule
  <1>1. DelayInv /\ SafeInv /\ [Next]_vars
          => [backoff' < backoff =>
                backoff' = MinDelay /\ conn /\ checked /\ toReplay = {}]_vars
    <2> SUFFICES ASSUME DelayInv, SafeInv, [Next]_vars, backoff' < backoff
                 PROVE  backoff' = MinDelay /\ conn /\ checked /\ toReplay = {}
      OBVIOUS
    <2>1. backoff \in Nat /\ backoff >= MinDelay /\ MinDelay \in Nat
      BY ConfigAssumption DEF DelayInv
    <2>2. CASE UNCHANGED backoff
      BY <2>1, <2>2
    <2>3. CASE ReplayDone
      BY <2>3 DEF ReplayDone, SafeInv, ConnInv, OnceInv, Preparing
    <2>4. CASE SleepBackoff
      <3>1. backoff' = NextBackoff(backoff)
        BY <2>4 DEF SleepBackoff
      <3>2. NextBackoff(backoff) \in Nat /\ NextBackoff(backoff) >= backoff
        <4>1. CASE Exponential
          BY <2>1, <4>1, DelayFacts, ConfigAssumption DEF DelayInv
        <4>2. CASE ~Exponential
          BY <2>1, <4>2, DelayFacts DEF DelayInv
        <4>3. QED
          BY <4>1, <4>2
      <3>3. QED
        BY <2>1, <3>1, <3>2
    <2>5. QED
      BY <2>2, <2>3, <2>4, DelaySteps
  <1>2. QED
    BY <1>1, DelayInvariant, SafeInvariant, PTL DEF Spec, BackoffSchedule

-----------------------------------------------------------------------------
(* The types.                                                              *)

QueueInv == QueueType /\ EventInv

LEMMA QueueStep ==
  ASSUME QueueInv, [Next]_vars
  PROVE  QueueInv'
  <1>1. ASSUME NEW d \in Devices, OnDevice(d) \/ OnValues(d)
        PROVE  QueueInv'
    <2>1. /\ [dev |-> d, kind |-> "device"] \in Event
          /\ [dev |-> d, kind |-> "values"] \in Event
      BY DEF Event
    <2>2. queue' \in Seq(Event) /\ Len(queue') <= QueueSize
      BY <1>1, <2>1, EnqueueBound DEF OnDevice, OnValues, QueueInv
    <2>3. /\ announced' \subseteq Devices /\ valuesSent' \in Nat
          /\ sleeping' = FALSE /\ UNCHANGED <<mutex, mainPc, pc, event>>
      BY <1>1 DEF OnDevice, OnValues, Enqueue, QueueInv, QueueType
    <2>4. QueueType'
      BY <2>2, <2>3 DEF QueueInv, QueueType
    <2>5. EventInv'
      BY <2>3 DEF QueueInv, EventInv, Writing, dev
    <2>6. QED
      BY <2>4, <2>5 DEF QueueInv
  <1>2. CASE Take
    <2>1. queue \in Seq(Event) /\ Len(queue) <= QueueSize /\ QueueSize \in Nat
      BY ConfigAssumption DEF QueueInv, QueueType
    <2>2. CASE pc' = "outer" /\ UNCHANGED <<queue, event>>
      BY <1>2, <2>2 DEF Take, QueueInv, QueueType, EventInv, Writing
    <2>3. CASE queue # <<>> /\ queue' = Tail(queue) /\ event' = <<Head(queue)>>
      <3>1. /\ Head(queue) \in Event /\ Tail(queue) \in Seq(Event)
            /\ Len(Tail(queue)) <= QueueSize
        BY <2>1, <2>3
      <3>2. event'[1] = Head(queue) /\ Head(queue).dev \in Devices
        BY <2>3, <3>1 DEF Event
      <3>3. EventInv'
        BY <2>3, <3>1, <3>2 DEF EventInv, dev
      <3>4. QueueType'
        BY <1>2, <2>3, <3>1 DEF Take, QueueInv, QueueType
      <3>5. QED
        BY <3>3, <3>4 DEF QueueInv
    <2>4. QED
      BY <1>2, <2>2, <2>3 DEF Take
  <1>3. CASE Migrate \/ Upsert \/ Insert
    <2>1. UNCHANGED <<producerVars, lockVars, mainPc>>
      BY <1>3 DEF Migrate, Upsert, Insert
    <2>2. \/ event' = <<>> /\ pc' \in {"inner", "outer"}
          \/ UNCHANGED event /\ Writing
      BY <1>3 DEF Migrate, Upsert, Insert, EventFails, Writing
    <2>3. QED
      BY <2>1, <2>2 DEF QueueInv, QueueType, EventInv, Writing, dev
  <1>4. CASE \/ Outer \/ Connect \/ PrepareOnce
             \/ \E d \in Devices : Replay(d)
             \/ ReplayDone \/ SleepBackoff
    <2>1. UNCHANGED <<producerVars, lockVars, mainPc, event>> /\ ~Writing'
      BY <1>4 DEF Outer, Connect, PrepareOnce, Replay, ReplayDone,
                  SleepBackoff, SetupFails, Writing
    <2>2. QED
      BY <2>1 DEF QueueInv, QueueType, EventInv
  <1>5. CASE Inner \/ Pred \/ Block \/ Wake
    BY <1>5 DEF Inner, Pred, Block, Wake, QueueInv, QueueType, EventInv,
                Writing
  <1>6. CASE Shutdown \/ Destroy \/ UNCHANGED vars
    BY <1>6 DEF Shutdown, Destroy, vars, QueueInv, QueueType, EventInv,
                Writing, dev
  <1>7. QED
    BY <1>1, <1>2, <1>3, <1>4, <1>5, <1>6, Steps

\* The queue stays within its bound, and holds events of configured devices.
THEOREM QueueInvariant == Spec => []QueueInv
  <1>1. Init => QueueInv
    <2>1. QueueSize \in Nat
      BY ConfigAssumption
    <2>2. Init => QueueType
      <3>1. <<>> \in Seq(Event) /\ Len(<<>>) <= QueueSize /\ 0 \in Nat
        BY <2>1
      <3>2. QED
        BY <3>1, Zenon DEF Init, QueueType
    <2>3. Init => EventInv
      BY DEF Init, EventInv, Writing
    <2>4. QED
      BY <2>2, <2>3 DEF QueueInv
  <1>2. QED
    BY <1>1, QueueStep, PTL DEF Spec

\* The rest of the worker's state, and the database.
RestInv ==
  /\ pc \in {"outer", "connect", "once", "replay", "backoff", "inner", "pred",
             "block", "asleep", "take", "migrate", "upsert", "insert", "done"}
  /\ running \in BOOLEAN
  /\ conn \in BOOLEAN
  /\ checked \in BOOLEAN
  /\ DbType

\* The flags after an error.
LEMMA FailTypes ==
  ASSUME running \in BOOLEAN, conn \in BOOLEAN, NEW err
  PROVE  /\ SetupFails(err) => running' \in BOOLEAN /\ pc' \in {"done", "backoff"}
         /\ EventFails(err) => /\ running' \in BOOLEAN /\ conn' \in BOOLEAN
                              /\ pc' \in {"inner", "outer"}
  BY Zenon DEF SetupFails, EventFails

LEMMA RestStep ==
  ASSUME QueueInv, SafeInv, RestInv, [Next]_vars
  PROVE  RestInv'
  <1>1. CASE \/ \E d \in Devices : OnDevice(d) \/ OnValues(d)
             \/ Shutdown \/ Destroy \/ UNCHANGED vars
    BY <1>1 DEF OnDevice, OnValues, Shutdown, Destroy, vars, RestInv, DbType
  <1>2. CASE Outer \/ ReplayDone \/ SleepBackoff
    BY <1>2 DEF Outer, ReplayDone, SleepBackoff, RestInv, DbType
  <1>3. CASE Connect
    <2>1. /\ pc' \in {"once", "replay", "backoff", "done"}
          /\ running' \in BOOLEAN /\ conn' \in BOOLEAN
      BY <1>3, FailTypes DEF Connect, RestInv
    <2>2. QED
      BY <1>3, <2>1 DEF Connect, Fault, RestInv, DbType
  <1>4. CASE PrepareOnce
    <2>1. /\ pc' \in {"replay", "backoff", "done"}
          /\ running' \in BOOLEAN /\ checked' \in BOOLEAN
      BY <1>4, FailTypes DEF PrepareOnce, RestInv
    <2>2. QED
      BY <1>4, <2>1 DEF PrepareOnce, syncRegistry, Fault, RestInv, DbType
  <1>5. ASSUME NEW d \in Devices, Replay(d) PROVE RestInv'
    <2>1. pc' \in {"replay", "backoff", "done"} /\ running' \in BOOLEAN
      BY <1>5, FailTypes DEF Replay, RestInv
    <2>2. QED
      BY <1>5, <2>1 DEF Replay, Fault, RestInv, DbType
  <1>6. CASE Inner \/ Pred \/ Block \/ Wake
    BY <1>6 DEF Inner, Pred, Block, Wake, RestInv, DbType
  <1>7. CASE Take
    <2>1. pc' \in {"outer", "insert", "migrate", "upsert"}
      BY <1>7 DEF Take, Handler
    <2>2. QED
      BY <1>7, <2>1 DEF Take, RestInv, DbType
  <1>8. CASE Migrate
    <2>1. dev \in Devices
      BY <1>8 DEF Migrate, QueueInv, EventInv, Writing
    <2>2. /\ pc' \in {"upsert", "inner", "outer"}
          /\ running' \in BOOLEAN /\ conn' \in BOOLEAN
      BY <1>8, FailTypes DEF Migrate, RestInv
    <2>3. QED
      BY <1>8, <2>1, <2>2 DEF Migrate, Fault, RestInv, DbType
  <1>9. CASE Upsert
    <2>1. dev \in Devices
      BY <1>9 DEF Upsert, QueueInv, EventInv, Writing
    <2>2. /\ pc' \in {"upsert", "inner", "outer"}
          /\ running' \in BOOLEAN /\ conn' \in BOOLEAN
      BY <1>9, FailTypes DEF Upsert, RestInv
    <2>3. QED
      BY <1>9, <2>1, <2>2 DEF Upsert, Fault, RestInv, DbType
  <1>10. CASE Insert
    <2>1. dev \in Devices
      BY <1>10 DEF Insert, QueueInv, EventInv, Writing
    <2>2. Sample(dev) \in [dev : Devices, dcEnergy : {"null", "number"}]
      BY <2>1 DEF Sample
    <2>3. samples' \subseteq [dev : Devices, dcEnergy : {"null", "number"}]
      BY <1>10, <2>2 DEF Insert, RestInv, DbType
    <2>4. /\ pc' \in {"inner", "outer"}
          /\ running' \in BOOLEAN /\ conn' \in BOOLEAN
      BY <1>10, FailTypes DEF Insert, RestInv
    <2>5. QED
      BY <1>10, <2>3, <2>4 DEF Insert, Fault, RestInv, DbType
  <1>11. QED
    BY <1>1, <1>2, <1>3, <1>4, <1>5, <1>6, <1>7, <1>8, <1>9, <1>10, Steps

\* Every variable keeps its type: in particular the queue never outgrows
\* queueSize and the delay stays within the configured bounds.
THEOREM TypeCorrect == Spec => []TypeOK
  <1>1. Init => RestInv
    <2>1. 0 \in Nat
      OBVIOUS
    <2>2. QED
      BY <2>1, Zenon DEF Init, RestInv, DbType
  <1>2. Spec => []RestInv
    BY <1>1, RestStep, QueueInvariant, SafeInvariant, PTL DEF Spec
  <1>3. QueueInv /\ SafeInv /\ RestInv /\ DelayInv => TypeOK
    <2> SUFFICES ASSUME QueueInv, SafeInv, RestInv, DelayInv PROVE TypeOK
      OBVIOUS
    <2>1. event \in {<<>>} \union {<<ev>> : ev \in Event}
      BY DEF QueueInv, EventInv
    <2>2. QED
      BY <2>1 DEF QueueInv, SafeInv, RestInv, DelayInv, TypeOK, WorkerType
  <1>4. QED
    BY <1>2, <1>3, QueueInvariant, SafeInvariant, DelayInvariant, PTL
=============================================================================
