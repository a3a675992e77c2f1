------------------------------- MODULE Bridge -------------------------------
(***************************************************************************)
(* The life of a fronius-bridge process: main (src/main.cpp) starts the    *)
(* slaves and the consumers, constructs a master, installs its callbacks,  *)
(* connects the buses, waits for the stop flag and destroys everything in  *)
(* reverse order, while the threads of the devices run.                    *)
(*                                                                         *)
(* The process is composed with one device of each kind in turn, chosen    *)
(* initially: masters and slaves share nothing with each other but the     *)
(* stop flag and main, and a slave only hears its meter's callbacks. The   *)
(* consumers have modules of their own (MqttClient, PostgresClient); here  *)
(* they are the thread main joins last, the worker of either, which waits  *)
(* for something to publish and may miss the destructor's notify_all().    *)
(***************************************************************************)
EXTENDS ModbusMaster, Naturals

CONSTANTS
  Kinds,       \* the kinds of device to compose the process with
  Events,      \* event snapshots of an inverter
  Clients,     \* Modbus clients of a slave
  Fds,         \* descriptor numbers of a slave's process
  MaxUpdates   \* bound: value updates of a slave

ASSUME BridgeAssumption ==
  /\ Kinds \subseteq {"inverter", "fronius", "ebz", "slave"}
  /\ None \notin Idents \union Events \union Clients
  /\ None \notin {"connected", "disconnected", "new", "same", "failed",
                  "failure", "success"}
  /\ Fds \subseteq Nat \ {0}
  /\ MaxUpdates \in Nat

VARIABLES
  kind,     \* the kind of device this process has
  main,     \* where main stands
  status,   \* the exit status, None before it is decided
  consumers, \* a consumer's worker: "new", "alive", "done" after a fatal
             \* error, "lost" when it missed the destructor's notify_all()
  avail, evt, seenEvt, overlap,                     \* InverterMaster
  port, parsed,                                     \* EasyMeter
  mode, listener, srv, client, sock, conn, regs,    \* MeterSlave
  copy, feed, latched, served

Inv == INSTANCE InverterMaster
Fron == INSTANCE FroniusMeter
Ebz == INSTANCE EasyMeter
Slave == INSTANCE MeterSlave WITH Nobody <- None

mainVars == <<kind, main, status, consumers>>
inverterVars == <<avail, evt, seenEvt, overlap>>
easyVars == <<port, parsed>>
slaveVars == <<mode, listener, srv, client, sock, conn, regs, copy, feed,
               latched, served>>

vars == <<mainVars, handlerVars, masterVars, busVars, inverterVars,
          easyVars, slaveVars>>

Init ==
  /\ kind \in Kinds
  /\ main = "start slaves"
  /\ status = None
  /\ consumers = "new"
  /\ HandlerInit
  /\ MasterInit
  /\ BusInit
  /\ Inv!InverterInit
  /\ Ebz!EasyInit
  /\ Slave!SlaveInit
  /\ kind # "slave" => mode = "tcp"

Modbus == {"inverter", "fronius"}

-----------------------------------------------------------------------------
\* main, up to wait().

\* A constructor or connect() that throws ends the start-up: the process
\* stops as failed, by a shutdown() on the main thread.
startupFails ==
  /\ main \in {"start slaves", "start consumers", "construct", "connect"}
  /\ lockMtx
  /\ main' = "failing"
  /\ UNCHANGED <<kind, status, consumers, masterVars, busVars, inverterVars,
                 easyVars, slaveVars>>

reportFailure ==
  /\ main = "failing"
  /\ shutdownByMain
  /\ main' = "wait"
  /\ UNCHANGED <<kind, status, consumers, masterVars, busVars, inverterVars,
                 easyVars, slaveVars>>

startSlaves ==
  /\ main = "start slaves"
  /\ main' = "start consumers"
  /\ IF kind = "slave" THEN Slave!startListener
     ELSE UNCHANGED <<handlerVars, slaveVars>>
  /\ UNCHANGED <<kind, status, consumers, masterVars, busVars, inverterVars,
                 easyVars>>

startConsumers ==
  /\ main = "start consumers"
  /\ main' = "construct"
  /\ consumers' = "alive"
  /\ UNCHANGED <<kind, status, handlerVars, masterVars, busVars, inverterVars,
                 easyVars, slaveVars>>

\* The constructor of a master starts its thread.
constructMaster ==
  /\ main = "construct"
  /\ main' = "wire device"
  /\ worker' = IF kind = "slave" THEN worker ELSE "top"
  /\ UNCHANGED <<kind, status, consumers, handlerVars, wired, gate, seen,
                 last, busVars, inverterVars, easyVars, slaveVars>>

\* Fault: the buses are connected before the callbacks are installed.
WireAfterConnectBug ==
  /\ main = "wire device"
  /\ main' = "wire availability"
  /\ connectBus
  /\ UNCHANGED <<kind, status, consumers, handlerVars, masterVars, connected,
                 result, cb, inverterVars, easyVars, slaveVars>>

wireDevice ==
  /\ main = "wire device"
  /\ main' = "wire availability"
  /\ setDeviceCallback
  /\ UNCHANGED <<kind, status, consumers, handlerVars, worker, gate, seen,
                 last, busVars, inverterVars, easyVars, slaveVars>>

wireAvailability ==
  /\ main = "wire availability"
  /\ main' = "connect"
  /\ setAvailabilityCallback
  /\ UNCHANGED <<kind, status, consumers, handlerVars, worker, gate, seen,
                 last, busVars, inverterVars, easyVars, slaveVars>>

\* The buses are connected once every master is complete.
connectBuses ==
  /\ main = "connect"
  /\ main' = "wait"
  /\ IF kind \in Modbus THEN connectBus ELSE UNCHANGED dev
  /\ UNCHANGED <<kind, status, consumers, handlerVars, masterVars, connected,
                 result, cb, inverterVars, easyVars, slaveVars>>

waitForStop ==
  /\ main = "wait"
  /\ checkFlag \/ sleep
  /\ UNCHANGED <<mainVars, masterVars, busVars, inverterVars, easyVars,
                 slaveVars>>

\* wait() returns; the exit status is decided before anything is destroyed.
decideStatus ==
  /\ main = "wait"
  /\ waitReturns
  /\ main' = "unregister"
  /\ status' = IF failed THEN "failure" ELSE "success"
  /\ UNCHANGED <<kind, consumers, masterVars, busVars, inverterVars, easyVars,
                 slaveVars>>

-----------------------------------------------------------------------------
\* Destruction, in the reverse order of declaration.

\* A Modbus master leaves its bus ...
leaveBus ==
  /\ main = "unregister"
  /\ main' = "drain"
  /\ IF kind \in Modbus THEN unregisterDevice ELSE UNCHANGED dev
  /\ UNCHANGED <<kind, status, consumers, handlerVars, masterVars, connected,
                 result, cb, inverterVars, easyVars, slaveVars>>

\* Fault: nobody waits for a callback in flight.
NoDrainBug ==
  /\ main = "drain"
  /\ main' = "join"
  /\ connected' = FALSE
  /\ UNCHANGED <<kind, status, consumers, handlerVars, masterVars, dev,
                 result, cb, inverterVars, easyVars, slaveVars>>

\* ... waits for the callbacks in flight ...
awaitCallbacks ==
  /\ main = "drain"
  /\ Detached
  /\ main' = "join"
  /\ connected' = FALSE
  /\ UNCHANGED <<kind, status, consumers, handlerVars, masterVars, dev,
                 result, cb, inverterVars, easyVars, slaveVars>>

\* ... joins its thread (a slave's meter ends its update) ...
joinWorker ==
  /\ main = "join"
  /\ worker \in {"new", "done"} /\ feed = "none"
  /\ main' = "final"
  /\ UNCHANGED <<kind, status, consumers, handlerVars, masterVars, busVars,
                 inverterVars, easyVars, slaveVars>>

\* Fault: the destructor says nothing.
NoFinalBug ==
  /\ main = "final"
  /\ main' = "destroy slaves"
  /\ UNCHANGED <<kind, status, consumers, handlerVars, masterVars, busVars,
                 inverterVars, easyVars, slaveVars>>

\* ... and tells the consumers that the device is gone. A master that was
\* never constructed does nothing.
finalPublish ==
  /\ main = "final"
  /\ main' = "destroy slaves"
  /\ \/ kind = "inverter" /\ Inv!finalAvailability /\ UNCHANGED easyVars
     \/ /\ kind = "fronius" /\ Fron!finalAvailability
        /\ UNCHANGED <<inverterVars, easyVars>>
     \/ /\ kind = "ebz" /\ Ebz!finalDisconnect
        /\ UNCHANGED <<busVars, inverterVars>>
     \/ /\ kind = "slave"
        /\ UNCHANGED <<handlerVars, masterVars, busVars, inverterVars, easyVars>>
  /\ UNCHANGED <<kind, status, consumers, slaveVars>>

destroySlaves ==
  /\ main = "destroy slaves"
  /\ main' = "destroy consumers"
  /\ Slave!destroySlave
  /\ UNCHANGED <<kind, status, consumers, masterVars, busVars, inverterVars,
                 easyVars>>

\* The destructors of PostgresClient and MqttClient notify without the mutex
\* of the queue: a worker that saw the flag still set and is about to sleep,
\* as it may be at any time, does not hear it, ...
destroyConsumers ==
  /\ main = "destroy consumers"
  /\ main' = "join consumers"
  /\ consumers' \in IF consumers = "alive" THEN {"alive", "lost"}
                    ELSE {consumers}
  /\ UNCHANGED <<kind, status, handlerVars, masterVars, busVars, inverterVars,
                 easyVars, slaveVars>>

\* ... and the join waits for it for good. One that is awake sees the flag
\* and returns; nobody but the join can tell when.
joinConsumers ==
  /\ main = "join consumers"
  /\ consumers # "lost"
  /\ main' = "exited"
  /\ UNCHANGED <<kind, status, consumers, handlerVars, masterVars, busVars,
                 inverterVars, easyVars, slaveVars>>

-----------------------------------------------------------------------------

\* The program of the main thread, as long as no signal handler hangs on it.
Main ==
  /\ waiter # "hung"
  /\ \/ startSlaves \/ startConsumers \/ constructMaster
     \/ wireDevice \/ wireAvailability \/ connectBuses
     \/ reportFailure \/ waitForStop \/ decideStatus
     \/ leaveBus \/ awaitCallbacks \/ joinWorker \/ finalPublish
     \/ destroySlaves \/ destroyConsumers \/ joinConsumers

\* A signal may arrive as long as the handler is installed.
Signal ==
  /\ main # "exited"
  /\ signalHandler \/ nestedSignal
  /\ UNCHANGED <<mainVars, masterVars, busVars, inverterVars, easyVars,
                 slaveVars>>

\* A fatal error of a consumer stops the bridge; it is the worker's own and
\* ends it (PostgresClient) or the network thread's (MqttClient).
ConsumerFails ==
  /\ consumers = "alive" /\ running
  /\ consumers' \in {"alive", "done"}
  /\ shutdown(TRUE)
  /\ UNCHANGED <<kind, main, status, masterVars, busVars, inverterVars,
                 easyVars, slaveVars>>

OnlyInverter == UNCHANGED <<mainVars, easyVars, slaveVars>>

InverterLoop == kind = "inverter" /\ Inv!runLoop /\ OnlyInverter

InverterCallback(t) ==
  kind = "inverter" /\ Inv!publishAvailability(t) /\ OnlyInverter

InverterBus == kind = "inverter" /\ Inv!busReports /\ OnlyInverter

OnlyMeter ==
  UNCHANGED <<mainVars, inverterVars, easyVars, slaveVars>>

MeterLoop == kind = "fronius" /\ Fron!runLoop /\ OnlyMeter

MeterCallback(t) == kind = "fronius" /\ Fron!fireAvailability(t) /\ OnlyMeter

MeterBus == kind = "fronius" /\ Fron!busReports /\ OnlyMeter

OnlyEbz ==
  UNCHANGED <<mainVars, busVars, inverterVars, slaveVars>>

EbzLoop == kind = "ebz" /\ Ebz!runLoop /\ OnlyEbz

EbzRead == kind = "ebz" /\ Ebz!readReturns /\ OnlyEbz

OnlySlave ==
  UNCHANGED <<mainVars, masterVars, busVars, inverterVars, easyVars>>

\* The meter that feeds a slave lives from its wiring to its join.
SlaveFed ==
  /\ kind = "slave"
  /\ main \in {"connect", "wait", "unregister", "drain", "join"}
  /\ Slave!updates
  /\ OnlySlave

SlaveListens == kind = "slave" /\ Slave!Listening /\ OnlySlave

SlaveServes(c) ==
  kind = "slave" /\ Slave!tcpClientWorker(c) /\ OnlySlave

Next ==
  \/ Main \/ startupFails \/ Signal
  \/ ConsumerFails
  \/ InverterLoop \/ InverterBus
  \/ MeterLoop \/ MeterBus
  \/ EbzLoop \/ EbzRead
  \/ SlaveFed \/ SlaveListens
  \/ \E t \in Threads : InverterCallback(t) \/ MeterCallback(t)
  \/ \E c \in Clients : SlaveServes(c)

\* Every thread runs on: its waits are timed, its Modbus calls have response
\* or indication timeouts. Nothing makes the bus report, a client connect or
\* a signal arrive.
Threads_Fair ==
  /\ WF_vars(Main)
  /\ WF_vars(InverterLoop \/ MeterLoop \/ EbzLoop)
  /\ WF_vars(SlaveFed /\ feed # "none")
  /\ WF_vars(SlaveListens)
  /\ \A t \in Threads : WF_vars(InverterCallback(t) \/ MeterCallback(t))
  /\ \A c \in Clients : WF_vars(SlaveServes(c))

\* The code as it is: read() on the serial line has no bound.
SilentSpec == Init /\ [][Next]_vars /\ Threads_Fair

\* With an Easymeter that keeps sending, as it does every second.
Spec == SilentSpec /\ WF_vars(EbzRead)

-----------------------------------------------------------------------------

TypeOK ==
  /\ kind \in Kinds
  /\ main \in {"start slaves", "start consumers", "construct", "wire device",
               "wire availability", "connect", "failing", "wait",
               "unregister", "drain", "join", "final", "destroy slaves",
               "destroy consumers", "join consumers", "exited"}
  /\ status \in {None, "failure", "success"}
  /\ consumers \in {"new", "alive", "lost", "done"}
  /\ worker \in {"new", "top", "device", "values", "events", "wait", "done"}
                \union Ebz!WorkerSteps
  /\ HandlerTypeOK
  /\ MasterTypeOK
  /\ BusTypeOK
  /\ Inv!InverterTypeOK
  /\ Ebz!EasyTypeOK
  /\ Slave!SlaveTypeOK

\* What callbacks touch outlives their callers (src/main.cpp:101-124): when
\* the slaves are destroyed no master thread, bus callback or update is left,
\* and when the consumers are, no thread of a slave either.
CallersJoined ==
  /\ main \in {"destroy slaves", "destroy consumers", "join consumers",
               "exited"} =>
       worker \in {"new", "done"} /\ Detached /\ feed = "none"
  /\ main \in {"destroy consumers", "join consumers", "exited"} =>
       /\ listener \in {"new", "done"}
       /\ \A c \in Clients : Slave!Ended(c)

\* The availability topic is retained, so the last word about a device must
\* not be "connected" when the process has ended - for an inverter as long as
\* no two library threads published at once, since the gate may then suppress
\* the destructor's publication (src/inverter_master.cpp:106-136, 223-236).
FinalOffline ==
  main \in {"destroy slaves", "destroy consumers", "join consumers", "exited"}
    /\ ~overlap => last # "connected"

\* A change gate takes an identity or an event snapshot before it is
\* published, and never offers it again: while the bridge runs, whatever the
\* gate of a Modbus master holds has reached the consumers once the publish
\* step is over (src/inverter_master.cpp:138-197).
GatedReachConsumers ==
  kind \in Modbus /\ running =>
    /\ worker # "device" => seen = gate
    /\ worker # "events" => seenEvt = evt

\* A consumer that was told an Easymeter's identity has its current one,
\* although every telegram carries one and only changes are published
\* (src/easy_meter.cpp:643-652).
IdentityCurrent ==
  kind = "ebz" /\ seen # None =>
    /\ seen = gate
    /\ worker = "values" /\ running => seen = parsed

\* What an Easymeter's consumers heard last is the state of its serial line
\* at every telegram and every retry, however often it was lost
\* (src/easy_meter.cpp:51-66, 216-221).
AvailabilityFollowsPort ==
  kind = "ebz" =>
    /\ worker \in {"blocked", "device", "values"} => last # "disconnected"
    /\ worker = "backoff" => last # "connected"

\* A fatal error that stopped the bridge is visible in its exit status
\* (src/main.cpp:348-357, include/signal_handler.h:44-54).
FatalExitsNonZero ==
  stoppedBy = "failure" /\ status # None => status = "failure"

\* A slave's process leaves no connection open, although its threads close
\* each socket twice and may hit one another's (src/meter_slave.cpp:540-542).
DescriptorsReleased ==
  main = "exited" => \A f \in Fds : conn[f] = None

\* A Modbus client is never answered from an older register block than
\* before, and never loses the identity again, whatever updates and other
\* clients do (src/meter_slave.cpp:167-436).
ServedNeverReverts ==
  [][\A c \in Clients :
       /\ served'[c].value >= served[c].value
       /\ served[c].device => served'[c].device]_served

\* Main does not sleep through a stop, although every thread may stop the
\* bridge at any point of its wait() (include/signal_handler.h:44-61): the
\* flag is never cleared while main has seen it set and is not yet notified,
\* and a signal handler that hangs on main's own lock never came after a stop.
StopReachesMain == waiter \in {"checked", "asleep", "hung"} => running

\* Once the flag is cleared, or main reports a start-up failure, the process
\* ends: main wakes, every thread of a device sees the flag and its join
\* returns (src/main.cpp:330-360 and the destructors of the masters and
\* slaves). Two ways to wait for good are the exceptions: the join of a
\* consumer's worker, when the destructor's notify_all() came just before the
\* worker's sleep (src/postgres_client.cpp:100-106, src/mqtt_client.cpp:173-
\* 177), and a signal that interrupts main inside its own shutdown()
\* (include/signal_handler.h:46, src/main.cpp:341-343).
Terminates ==
  (~running \/ main = "failing")
    ~> (main = "exited" \/ consumers = "lost" \/ waiter = "hung")

\* "Subclasses read the callbacks under cbMutex_ from their worker thread"
\* (include/meter_master.h:29-30): no access to availabilityCallback_ without
\* the mutex is due while main is writing it.
CallbacksReadUnderLock ==
  ~(main = "wire availability" /\ worker \in {"announce", "hangup"})
=============================================================================
