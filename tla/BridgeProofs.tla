---------------------------- MODULE BridgeProofs ----------------------------
(***************************************************************************)
(* Proofs about Bridge for every set of identities, events, clients and    *)
(* descriptors, every number of updates and each kind of device.           *)
(***************************************************************************)
EXTENDS Bridge, TLAPS

USE DEF mainVars, handlerVars, masterVars, busVars, inverterVars, easyVars,
        slaveVars,
        Inv!handlerVars, Inv!masterVars, Inv!busVars, Inv!inverterVars,
        Fron!handlerVars, Fron!masterVars, Fron!busVars,
        Ebz!handlerVars, Ebz!masterVars, Ebz!easyVars,
        Slave!handlerVars, Slave!netVars, Slave!feedVars, Slave!slaveVars

-----------------------------------------------------------------------------
(* The steps, one by one, and what they leave alone.                       *)

InverterStep ==
  \/ InverterLoop \/ InverterBus
  \/ \E t \in Threads : InverterCallback(t)

MeterStep ==
  \/ MeterLoop \/ MeterBus
  \/ \E t \in Threads : MeterCallback(t)

EbzStep == EbzLoop \/ EbzRead

SlaveStep ==
  \/ SlaveFed \/ SlaveListens
  \/ \E c \in Clients : SlaveServes(c)

MainStep == Main \/ startupFails \/ Signal

LEMMA Steps ==
  ASSUME [Next]_vars
  PROVE  \/ MainStep \/ ConsumerFails
         \/ InverterStep \/ MeterStep \/ EbzStep \/ SlaveStep
         \/ UNCHANGED vars
  BY DEF Next, MainStep, InverterStep, MeterStep, EbzStep,
         SlaveStep

\* main's steps change a component's state only where they call it.
LEMMA InverterSteps ==
  ASSUME InverterStep
  PROVE  /\ kind = "inverter" /\ OnlyInverter
         /\ \/ Inv!loopTop
            \/ Inv!updateDeviceAndJson \/ Inv!publishDevice
            \/ Inv!updateValuesAndJson \/ Inv!publishValues
            \/ Inv!updateEventsAndJson \/ Inv!publishEvents
            \/ Inv!waitInterval
            \/ Inv!onUnavailable \/ Inv!onBusError
            \/ \E t \in Threads : \/ Inv!onReady(t)
                                  \/ Inv!decideAvailability(t)
                                  \/ Inv!fireAvailability(t)
  BY DEF InverterStep, InverterLoop, InverterBus, InverterCallback,
         Inv!runLoop, Inv!busReports, Inv!publishAvailability,
         Threads, Inv!Threads

LEMMA MeterSteps ==
  ASSUME MeterStep
  PROVE  /\ kind = "fronius" /\ OnlyMeter
         /\ \/ Fron!loopTop
            \/ Fron!updateDeviceAndJson \/ Fron!publishDevice
            \/ Fron!updateValuesAndJson \/ Fron!publishValues
            \/ Fron!waitInterval
            \/ Fron!onUnavailable \/ Fron!onBusError
            \/ \E t \in Threads : Fron!onReady(t) \/ Fron!fireAvailability(t)
  BY DEF MeterStep, MeterLoop, MeterBus, MeterCallback,
         Fron!runLoop, Fron!busReports, Threads, Fron!Threads

LEMMA EbzSteps ==
  ASSUME EbzStep
  PROVE  /\ kind = "ebz" /\ OnlyEbz
         /\ \/ Ebz!loopTop \/ Ebz!tryConnect \/ Ebz!announceConnected
            \/ Ebz!beforeRead \/ Ebz!readReturns
            \/ Ebz!updateDeviceAndJson \/ Ebz!publishDevice
            \/ Ebz!updateValuesAndJson \/ Ebz!publishValues
            \/ Ebz!disconnect \/ Ebz!backoff
  BY DEF EbzStep, EbzLoop, EbzRead, Ebz!runLoop

LEMMA SlaveSteps ==
  ASSUME SlaveStep
  PROVE  /\ kind = "slave" /\ OnlySlave
         /\ \/ /\ main \in {"connect", "wait", "unregister", "drain", "join"}
               /\ Slave!updates
            \/ Slave!Listening
            \/ \E c \in Clients : Slave!tcpClientWorker(c)
  BY DEF SlaveStep, SlaveFed, SlaveListens, SlaveServes

-----------------------------------------------------------------------------
(* The stop flag and the exit status.                                      *)

\* What a thread may do to the handler: call shutdown() or, on the main
\* thread, take a step of its own.
HandlerStep ==
  \/ UNCHANGED handlerVars
  \/ \E failure \in BOOLEAN : shutdown(failure)
  \/ lockMtx \/ shutdownByMain \/ (running /\ hang)
  \/ checkFlag \/ sleep \/ waitReturns

LEMMA HandlerSteps ==
  ASSUME [Next]_vars
  PROVE  HandlerStep
  <1> USE DEF HandlerStep
  <1>1. CASE MainStep
    BY <1>1 DEF MainStep, Main, startupFails, Signal, signalHandler,
                nestedSignal, reportFailure, waitForStop, joinConsumers,
                startSlaves, startConsumers, constructMaster, wireDevice,
                wireAvailability, connectBuses, decideStatus, leaveBus,
                awaitCallbacks, joinWorker, finalPublish, destroySlaves,
                destroyConsumers, Slave!startListener, Slave!destroySlave,
                Inv!finalAvailability, Fron!finalAvailability,
                Ebz!finalDisconnect
  <1>2. CASE InverterStep
    BY <1>2, InverterSteps
       DEF Inv!loopTop, Inv!updateDeviceAndJson, Inv!publishDevice,
           Inv!updateValuesAndJson, Inv!publishValues,
           Inv!updateEventsAndJson, Inv!publishEvents, Inv!waitInterval,
           Inv!onUnavailable, Inv!onBusError, Inv!onReady, Inv!callBack,
           Inv!decideAvailability, Inv!fireAvailability, Inv!onDeviceError,
           Inv!shutdown,
           Inv!mtxFree, Inv!stop, Inv!notify, shutdown, mtxFree, stop,
           notify
  <1>3. CASE MeterStep
    BY <1>3, MeterSteps
       DEF Fron!loopTop, Fron!updateDeviceAndJson, Fron!publishDevice,
           Fron!updateValuesAndJson, Fron!publishValues, Fron!waitInterval,
           Fron!onUnavailable, Fron!onBusError, Fron!onReady, Fron!callBack,
           Fron!fireAvailability, Fron!onDeviceError, Fron!shutdown,
           Fron!mtxFree, Fron!stop, Fron!notify, shutdown, mtxFree, stop,
           notify
  <1>4. CASE EbzStep
    BY <1>4, EbzSteps
       DEF Ebz!loopTop, Ebz!tryConnect, Ebz!announceConnected,
           Ebz!beforeRead, Ebz!readReturns, Ebz!updateDeviceAndJson,
           Ebz!publishDevice, Ebz!updateValuesAndJson, Ebz!publishValues,
           Ebz!disconnect, Ebz!backoff, Ebz!handleResult, Ebz!shutdown,
           Ebz!mtxFree, Ebz!stop, Ebz!notify, shutdown, mtxFree, stop,
           notify
  <1>5. CASE SlaveStep
    BY <1>5, SlaveSteps
       DEF Slave!updates, Slave!updateDevice, Slave!updateValues,
           Slave!storeRegs, Slave!updateFails, Slave!Listening,
           Slave!rtuClientHandler, Slave!tcpClientHandler, Slave!pollAgain,
           Slave!listenerAt, Slave!listenerFails, Slave!joinClients,
           Slave!rtuReply, Slave!accept, Slave!tcpClientWorker,
           Slave!newContext, Slave!clientAt, Slave!closeSocket,
           Slave!receive, Slave!reply, Slave!hangUp, Slave!shutdown,
           Slave!mtxFree, Slave!stop, Slave!notify, shutdown, mtxFree, stop,
           notify
  <1>6. CASE ConsumerFails
    BY <1>6 DEF ConsumerFails
  <1>7. CASE UNCHANGED vars
    BY <1>7 DEF vars
  <1>8. QED
    BY <1>1, <1>2, <1>3, <1>4, <1>5, <1>6, <1>7, Steps

\* The flags are written by shutdown() only, and after the status is decided
\* the threads may still call it.
LEMMA FlagSteps ==
  ASSUME [Next]_vars
  PROVE  \/ UNCHANGED <<running, failed, stoppedBy>>
         \/ \E failure \in BOOLEAN : stop(failure)
  BY HandlerSteps
     DEF HandlerStep, shutdown, lockMtx, shutdownByMain, hang, checkFlag,
         sleep, waitReturns

\* Main does not sleep through a stop: shutdown() needs mtx_, which main
\* holds from its look at the flag until it sleeps, and for good when it
\* hangs in the signal handler (include/signal_handler.h:44-61).
THEOREM MainIsWoken == Spec => []StopReachesMain
  <1>1. Init => StopReachesMain
    BY DEF Init, HandlerInit, StopReachesMain
  <1>2. StopReachesMain /\ [Next]_vars => StopReachesMain'
    <2> SUFFICES ASSUME StopReachesMain, [Next]_vars
                 PROVE  StopReachesMain'
      OBVIOUS
    <2>1. ASSUME NEW failure \in BOOLEAN, shutdown(failure)
          PROVE  StopReachesMain'
      BY <2>1 DEF shutdown, mtxFree, notify, StopReachesMain
    <2>2. CASE UNCHANGED handlerVars
      BY <2>2 DEF StopReachesMain
    <2>3. CASE \/ lockMtx \/ shutdownByMain \/ (running /\ hang)
               \/ checkFlag \/ sleep \/ waitReturns
      BY <2>3 DEF lockMtx, shutdownByMain, hang, checkFlag, sleep,
                  waitReturns, StopReachesMain
    <2>4. QED
      BY <2>1, <2>2, <2>3, HandlerSteps DEF HandlerStep
  <1>3. QED
    BY <1>1, <1>2, PTL DEF Spec, SilentSpec

\* A failure that stopped the bridge is recorded, and the status is decided
\* after the bridge has stopped.
ExitInv ==
  /\ stoppedBy = "failure" => failed
  /\ status # None => ~running
  /\ FatalExitsNonZero

\* Only main decides the status.
LEMMA StatusSteps ==
  ASSUME [Next]_vars
  PROVE  UNCHANGED status \/ decideStatus
  BY Steps, InverterSteps, MeterSteps, EbzSteps, SlaveSteps
     DEF MainStep, Main, startupFails, Signal, reportFailure,
         waitForStop, joinConsumers, startSlaves, startConsumers,
         constructMaster, wireDevice, wireAvailability, connectBuses,
         leaveBus, awaitCallbacks, joinWorker, finalPublish, destroySlaves,
         destroyConsumers, ConsumerFails, OnlyInverter, OnlyMeter,
         OnlyEbz, OnlySlave, vars

\* A fatal error that stopped the bridge first is visible in its exit status,
\* whichever thread met it and whatever signal follows it.
THEOREM FatalIsVisible == Spec => []FatalExitsNonZero
  <1>1. Init => ExitInv
    BY DEF Init, HandlerInit, ExitInv, FatalExitsNonZero
  <1>2. ExitInv /\ [Next]_vars => ExitInv'
    <2> SUFFICES ASSUME ExitInv, [Next]_vars PROVE ExitInv'
      OBVIOUS
    <2>1. CASE decideStatus
      BY <2>1 DEF decideStatus, waitReturns, ExitInv, FatalExitsNonZero
    <2>2. CASE UNCHANGED <<status, running, failed, stoppedBy>>
      BY <2>2 DEF ExitInv, FatalExitsNonZero
    <2>3. ASSUME UNCHANGED status, NEW failure \in BOOLEAN, stop(failure)
          PROVE  ExitInv'
      BY <2>3 DEF stop, ExitInv, FatalExitsNonZero
    <2>4. QED
      BY <2>1, <2>2, <2>3, FlagSteps, StatusSteps
  <1>3. ExitInv => FatalExitsNonZero
    BY DEF ExitInv
  <1>4. QED
    BY <1>1, <1>2, <1>3, PTL DEF Spec, SilentSpec

-----------------------------------------------------------------------------
(* The slave.                                                              *)

\* A thread that accept() has started and that has not returned.
Alive(c) ==
  client[c] \in {"accepted", "receive", "reply", "modbus_close", "close"}

\* Every open connection has a thread that will close it: although a number
\* closed by one thread may be another's by then, the other closes it too.
SocketInv ==
  \A f \in Fds : conn[f] # None => \E c \in Clients : Alive(c) /\ sock[c] = f

\* Clients are served over TCP only, and none outlives the listener.
ListenerInv ==
  /\ listener \in {"poll", "join"} => mode = "tcp"
  /\ listener \in {"receive", "reply"} => mode = "rtu"
  /\ mode = "rtu" => \A c \in Clients : client[c] = "away"
  /\ listener \in {"new", "done"} => \A c \in Clients : Slave!Ended(c)

\* An update works on a copy of the block that is current until it is stored,
\* and no client has seen more than the current block.
FeedInv ==
  /\ feed # "none" => copy = regs
  /\ feed = "values" => copy.value < MaxUpdates
  /\ \A c \in Clients :
       /\ served[c].value <= regs.value
       /\ served[c].device => regs.device

SlaveInv ==
  /\ Slave!SlaveTypeOK
  /\ SocketInv
  /\ ListenerInv
  /\ FeedInv

\* The slave's state changes only in its own steps, and in main's when main
\* starts and destroys it.
LEMMA SlaveFrame ==
  ASSUME [Next]_vars
  PROVE  \/ UNCHANGED slaveVars
         \/ main = "start slaves" /\ kind = "slave" /\ Slave!startListener
         \/ main = "destroy slaves" /\ Slave!destroySlave
         \/ SlaveStep
  BY Steps, InverterSteps, MeterSteps, EbzSteps
     DEF MainStep, Main, startupFails, Signal, reportFailure,
         waitForStop, joinConsumers, startSlaves, startConsumers,
         constructMaster, wireDevice, wireAvailability, connectBuses,
         decideStatus, leaveBus, awaitCallbacks, joinWorker, finalPublish,
         destroySlaves, destroyConsumers, ConsumerFails, OnlyInverter, OnlyMeter,
         OnlyEbz,
         vars

LEMMA SlaveInvInit == Init => SlaveInv
  <1> SUFFICES ASSUME Init PROVE SlaveInv
    OBVIOUS
  <1>1. Slave!SlaveInit
    BY DEF Init
  <1>2. Slave!Blank \in Slave!Blocks
    BY BridgeAssumption DEF Slave!Blank, Slave!Blocks
  <1>3. Slave!SlaveTypeOK
    BY <1>1, <1>2 DEF Slave!SlaveInit, Slave!SlaveTypeOK
  <1>4. SocketInv /\ ListenerInv
    BY <1>1 DEF Slave!SlaveInit, SocketInv, ListenerInv, Slave!Ended
  <1>5. FeedInv
    BY <1>1 DEF Slave!SlaveInit, FeedInv, Slave!Blank
  <1>6. QED
    BY <1>3, <1>4, <1>5 DEF SlaveInv

\* An update of the register block: the block only grows.
LEMMA SlaveUpdates ==
  ASSUME SlaveInv, Slave!updates
  PROVE  SlaveInv'
  <1> USE DEF SlaveInv
  <1>1. UNCHANGED <<mode, listener, srv, client, sock, conn, served>>
    BY DEF Slave!updates, Slave!updateDevice, Slave!updateValues,
           Slave!storeRegs, Slave!updateFails
  <1>2. SocketInv' /\ ListenerInv'
    BY <1>1 DEF SocketInv, Alive, ListenerInv, Slave!Ended
  <1>3. CASE Slave!storeRegs
    <2>1. /\ copy = regs /\ regs \in Slave!Blocks /\ MaxUpdates \in Nat
          /\ feed \in {"device", "values"}
          /\ feed = "values" => regs.value < MaxUpdates
      BY <1>3, BridgeAssumption DEF Slave!storeRegs, Slave!SlaveTypeOK, FeedInv
    <2>2. regs' = [device |-> regs.device \/ feed = "device",
                   value |-> IF feed = "values" THEN regs.value + 1
                             ELSE regs.value]
      BY <1>3, <2>1 DEF Slave!storeRegs, Slave!Blocks
    <2>3. /\ regs' \in Slave!Blocks /\ regs'.value >= regs.value
          /\ regs.device => regs'.device
      BY <2>1, <2>2 DEF Slave!Blocks
    <2>4. feed' = "none" /\ copy' = Slave!Blank /\ latched' \in BOOLEAN
      BY <1>3 DEF Slave!storeRegs
    <2>5. Slave!Blank \in Slave!Blocks
      BY <2>1 DEF Slave!Blank, Slave!Blocks
    <2>6. Slave!SlaveTypeOK'
      BY <1>1, <2>3, <2>4, <2>5 DEF Slave!SlaveTypeOK
    <2>7. FeedInv'
      BY <1>1, <2>1, <2>3, <2>4 DEF Slave!SlaveTypeOK, Slave!Blocks, FeedInv
    <2>8. QED
      BY <1>2, <2>6, <2>7
  <1>4. CASE Slave!updateDevice \/ Slave!updateValues \/ Slave!updateFails
    <2>1. /\ UNCHANGED <<regs, latched>>
          /\ \/ UNCHANGED <<copy, feed>>
             \/ /\ copy' = regs /\ feed' \in {"device", "values"}
                /\ feed' = "values" => regs.value < MaxUpdates
      BY <1>4 DEF Slave!updateDevice, Slave!updateValues, Slave!updateFails
    <2>2. Slave!SlaveTypeOK'
      BY <1>1, <2>1 DEF Slave!SlaveTypeOK
    <2>3. FeedInv'
      BY <1>1, <2>1 DEF FeedInv
    <2>4. QED
      BY <1>2, <2>2, <2>3
  <1>5. QED
    BY <1>3, <1>4 DEF Slave!updates

\* A step of the listener.
LEMMA SlaveListening ==
  ASSUME SlaveInv, Slave!Listening
  PROVE  SlaveInv'
  <1> USE DEF SlaveInv
  <1>1. ASSUME NEW c \in Clients, Slave!accept(c), mode = "tcp"
        PROVE  SlaveInv'
    <2>1. PICK f \in Fds :
            /\ sock' = [sock EXCEPT ![c] = f]
            /\ conn' = [conn EXCEPT ![f] = c]
            /\ conn[f] = None
      BY <1>1 DEF Slave!accept
    <2>2. /\ listener = "poll" /\ client[c] = "away"
          /\ client' = [client EXCEPT ![c] = "accepted"]
          /\ listener' \in {"poll", "join"}
          /\ UNCHANGED <<mode, srv, served, regs, copy, feed, latched>>
      BY <1>1 DEF Slave!accept, Slave!whileRunning
    <2>3. Slave!SlaveTypeOK'
      BY <2>1, <2>2 DEF Slave!SlaveTypeOK
    <2>4. SocketInv'
      BY <2>1, <2>2 DEF Slave!SlaveTypeOK, SocketInv, Alive
    <2>5. ListenerInv' /\ FeedInv'
      BY <1>1, <2>2 DEF ListenerInv, FeedInv
    <2>6. QED
      BY <2>3, <2>4, <2>5
  <1>2. CASE mode = "tcp" /\ Slave!tcpClientHandler
    <2>1. /\ UNCHANGED <<mode, client, sock, conn, served, regs, copy, feed,
                         latched>>
          /\ srv' \in {srv, "shut"}
          /\ listener' \in {"poll", "join", "done"}
          /\ listener' = "done" => \A c \in Clients : Slave!Ended(c)
      BY <1>2 DEF Slave!tcpClientHandler, Slave!pollAgain, Slave!listenerAt,
                  Slave!listenerFails, Slave!joinClients, Slave!whileRunning
    <2>2. Slave!SlaveTypeOK'
      BY <2>1 DEF Slave!SlaveTypeOK
    <2>3. SocketInv' /\ ListenerInv' /\ FeedInv'
      BY <1>2, <2>1 DEF SocketInv, Alive, ListenerInv, Slave!Ended, FeedInv
    <2>4. QED
      BY <2>2, <2>3
  <1>3. CASE mode = "rtu" /\ Slave!rtuClientHandler
    <2>1. /\ UNCHANGED <<mode, srv, client, sock, conn, regs, copy, feed, latched>>
          /\ listener' \in {"receive", "reply", "done"}
          /\ served' = served \/ served' = [c \in Clients |-> regs]
      BY <1>3 DEF Slave!rtuClientHandler, Slave!listenerAt,
                  Slave!listenerFails, Slave!rtuReply, Slave!whileRunning
    <2>2. Slave!SlaveTypeOK'
      BY <2>1 DEF Slave!SlaveTypeOK
    <2>3. SocketInv' /\ ListenerInv'
      BY <1>3, <2>1 DEF SocketInv, Alive, ListenerInv, Slave!Ended
    <2>4. FeedInv'
      BY <2>1 DEF Slave!SlaveTypeOK, Slave!Blocks, FeedInv
    <2>5. QED
      BY <2>2, <2>3, <2>4
  <1>4. QED
    BY <1>1, <1>2, <1>3 DEF Slave!Listening

\* A step of a client's thread.
LEMMA SlaveServing ==
  ASSUME SlaveInv, NEW c \in Clients, Slave!tcpClientWorker(c)
  PROVE  SlaveInv'
  <1> USE DEF SlaveInv
  <1>1. /\ UNCHANGED <<mode, listener, srv, regs, copy, feed, latched>>
        /\ \E next \in {"receive", "reply", "modbus_close", "close", "ended"} :
             client' = [client EXCEPT ![c] = next]
        /\ Alive(c)
    BY DEF Slave!tcpClientWorker, Slave!newContext, Slave!receive,
           Slave!reply, Slave!hangUp, Slave!clientAt, Slave!closeSocket,
           Slave!whileRunning, Alive
  <1>2. \/ /\ UNCHANGED <<sock, conn>>
           /\ client'[c] # "ended"
        \/ /\ conn' = [conn EXCEPT ![sock[c]] = None]
           /\ \/ sock' = [sock EXCEPT ![c] = 0]
              \/ sock' = sock /\ client'[c] # "ended"
    BY <1>1 DEF Slave!tcpClientWorker, Slave!newContext, Slave!receive,
                Slave!reply, Slave!hangUp, Slave!clientAt, Slave!closeSocket,
                Slave!whileRunning, Slave!SlaveTypeOK
  <1>3. served' = served \/ served' = [served EXCEPT ![c] = regs]
    BY DEF Slave!tcpClientWorker, Slave!newContext, Slave!receive,
           Slave!reply, Slave!hangUp, Slave!clientAt, Slave!closeSocket
  <1>4. Slave!SlaveTypeOK'
    BY <1>1, <1>2, <1>3 DEF Slave!SlaveTypeOK
  <1>5. SocketInv'
    BY <1>1, <1>2 DEF Slave!SlaveTypeOK, SocketInv, Alive
  <1>6. ListenerInv'
    BY <1>1 DEF Slave!SlaveTypeOK, ListenerInv, Slave!Ended, Alive
  <1>7. FeedInv'
    BY <1>1, <1>3 DEF Slave!SlaveTypeOK, Slave!Blocks, FeedInv
  <1>8. QED
    BY <1>4, <1>5, <1>6, <1>7

LEMMA SlaveInvStep ==
  ASSUME SlaveInv, [Next]_vars
  PROVE  SlaveInv'
  <1>1. CASE UNCHANGED slaveVars
    BY <1>1 DEF SlaveInv, Slave!SlaveTypeOK, SocketInv, Alive, ListenerInv,
                Slave!Ended, FeedInv
  <1>2. CASE Slave!startListener
    BY <1>2 DEF Slave!startListener, SlaveInv, Slave!SlaveTypeOK, SocketInv,
                Alive, ListenerInv, Slave!Ended, FeedInv
  <1>3. CASE Slave!destroySlave
    BY <1>3 DEF Slave!destroySlave, SlaveInv, Slave!SlaveTypeOK, SocketInv,
                Alive, ListenerInv, Slave!Ended, FeedInv
  <1>4. CASE SlaveStep
    BY <1>4, SlaveSteps, SlaveUpdates, SlaveListening, SlaveServing
  <1>5. QED
    BY <1>1, <1>2, <1>3, <1>4, SlaveFrame

\* What the parts of a meter slave know of each other (src/meter_slave.cpp):
\* the block it serves, the threads it runs and the descriptors they hold.
THEOREM SlaveInvariant == Spec => []SlaveInv
  <1>1. QED
    BY SlaveInvInit, SlaveInvStep, PTL DEF Spec, SilentSpec

\* A Modbus client is never answered from an older block than before.
THEOREM ServedIsMonotone == Spec => ServedNeverReverts
  <1>1. ASSUME SlaveInv, [Next]_vars
        PROVE  [\A c \in Clients :
                  /\ served'[c].value >= served[c].value
                  /\ served[c].device => served'[c].device]_served
    <2> SUFFICES ASSUME served' # served, NEW c \in Clients
                 PROVE  /\ served'[c].value >= served[c].value
                        /\ served[c].device => served'[c].device
      OBVIOUS
    <2>1. served'[c] \in {served[c], regs}
      <3>1. SlaveStep
        BY <1>1, SlaveFrame DEF Slave!startListener, Slave!destroySlave
      <3>2. CASE Slave!updates
        BY <3>2 DEF Slave!updates, Slave!updateDevice, Slave!updateValues,
                    Slave!storeRegs, Slave!updateFails
      <3>3. CASE Slave!Listening
        BY <3>3 DEF Slave!Listening, Slave!accept, Slave!tcpClientHandler,
                    Slave!pollAgain, Slave!listenerAt, Slave!listenerFails,
                    Slave!joinClients, Slave!rtuClientHandler, Slave!rtuReply
      <3>4. ASSUME NEW d \in Clients, Slave!tcpClientWorker(d)
            PROVE  served'[c] \in {served[c], regs}
        BY <1>1, <3>4 DEF Slave!tcpClientWorker, Slave!newContext,
                    Slave!receive, Slave!reply, Slave!hangUp, Slave!clientAt,
                    Slave!closeSocket, SlaveInv, Slave!SlaveTypeOK
      <3>5. QED
        BY <3>1, <3>2, <3>3, <3>4, SlaveSteps
    <2>2. /\ served[c] \in Slave!Blocks /\ regs \in Slave!Blocks
          /\ served[c].value <= regs.value
          /\ served[c].device => regs.device
      BY <1>1 DEF SlaveInv, Slave!SlaveTypeOK, FeedInv
    <2>3. QED
      BY <2>1, <2>2, BridgeAssumption DEF Slave!Blocks
  <1>2. QED
    BY <1>1, SlaveInvariant, PTL DEF Spec, SilentSpec, ServedNeverReverts

-----------------------------------------------------------------------------
(* Life and death.                                                         *)

\* From where on a master has left its bus, its callbacks are over, and its
\* thread is joined.
Detaching ==
  {"join", "final", "destroy slaves", "destroy consumers", "join consumers",
   "exited"}
Joined == Detaching \ {"join"}
SlavesGone == {"destroy consumers", "join consumers", "exited"}

\* What every stage of the destruction has brought to an end stays ended.
LifeInv ==
  /\ kind \notin Modbus => Detached
  /\ kind \in Modbus /\ main \in Detaching \union {"drain"} => dev = "gone"
  /\ main \in Detaching => Detached
  /\ main \in Joined => worker \in {"new", "done"} /\ feed = "none"
  /\ main \in SlavesGone => listener \in {"new", "done"}

LEMMA LifeInit == Init => LifeInv
  BY DEF Init, MasterInit, BusInit, Slave!SlaveInit, LifeInv, Detached,
         Detaching, Joined, SlavesGone

\* main's own steps.
LEMMA LifeMain ==
  ASSUME LifeInv, MainStep
  PROVE  LifeInv'
  BY DEF LifeInv, Detached, Detaching, Joined, SlavesGone, Modbus,
         MainStep, Main, startupFails, Signal, reportFailure,
         waitForStop, joinConsumers, startSlaves, startConsumers,
         constructMaster, wireDevice, wireAvailability, connectBuses,
         connectBus, decideStatus, leaveBus, unregisterDevice,
         awaitCallbacks, joinWorker, finalPublish, Inv!finalAvailability,
         Fron!finalAvailability, Ebz!finalDisconnect, destroySlaves,
         destroyConsumers, Slave!startListener, Slave!destroySlave

LEMMA LifeInverter ==
  ASSUME LifeInv, InverterStep
  PROVE  LifeInv'
  <1>1. kind = "inverter" /\ UNCHANGED <<kind, main, listener, feed>>
    BY InverterSteps DEF OnlyInverter
  <1>2. ASSUME dev = "gone"
        PROVE  dev' = "gone" /\ (Detached => Detached')
    <2>1. \A t \in Threads : Detached => cb[t].at = "idle"
      BY DEF Detached, Idle
    <2>2. dev' = "gone" /\ (Detached => cb' = cb)
      BY <1>2, <2>1, InverterSteps
         DEF Inv!loopTop, Inv!updateDeviceAndJson, Inv!publishDevice,
             Inv!updateValuesAndJson, Inv!publishValues,
             Inv!updateEventsAndJson, Inv!publishEvents, Inv!waitInterval,
             Inv!onUnavailable, Inv!onBusError, Inv!onReady, Inv!deviceReady,
             Inv!deviceUnavailable, Inv!decideAvailability,
             Inv!fireAvailability, Inv!onDeviceError, Inv!scheduleDeviceRetry
    <2>3. QED
      BY <2>2 DEF Detached
  <1>3. worker \in {"new", "done"} => worker' = worker
    BY InverterSteps
       DEF Inv!loopTop, Inv!updateDeviceAndJson, Inv!publishDevice,
           Inv!updateValuesAndJson, Inv!publishValues,
           Inv!updateEventsAndJson, Inv!publishEvents, Inv!waitInterval,
           Inv!onUnavailable, Inv!onBusError, Inv!onReady, Inv!callBack,
           Inv!decideAvailability, Inv!fireAvailability
  <1>4. QED
    BY <1>1, <1>2, <1>3
       DEF LifeInv, Modbus, Detached, Detaching, Joined, SlavesGone

LEMMA LifeMeter ==
  ASSUME LifeInv, MeterStep
  PROVE  LifeInv'
  <1>1. kind = "fronius" /\ UNCHANGED <<kind, main, listener, feed>>
    BY MeterSteps DEF OnlyMeter
  <1>2. ASSUME dev = "gone"
        PROVE  dev' = "gone" /\ (Detached => Detached')
    <2>1. \A t \in Threads : Detached => cb[t].at = "idle"
      BY DEF Detached, Idle
    <2>2. dev' = "gone" /\ (Detached => cb' = cb)
      BY <1>2, <2>1, MeterSteps
         DEF Fron!loopTop, Fron!updateDeviceAndJson, Fron!publishDevice,
             Fron!updateValuesAndJson, Fron!publishValues, Fron!waitInterval,
             Fron!onUnavailable, Fron!onBusError, Fron!onReady,
             Fron!deviceReady, Fron!deviceUnavailable, Fron!fireAvailability,
             Fron!onDeviceError, Fron!scheduleDeviceRetry
    <2>3. QED
      BY <2>2 DEF Detached
  <1>3. worker \in {"new", "done"} => worker' = worker
    BY MeterSteps
       DEF Fron!loopTop, Fron!updateDeviceAndJson, Fron!publishDevice,
           Fron!updateValuesAndJson, Fron!publishValues, Fron!waitInterval,
           Fron!onUnavailable, Fron!onBusError, Fron!onReady, Fron!callBack,
           Fron!fireAvailability
  <1>4. QED
    BY <1>1, <1>2, <1>3
       DEF LifeInv, Modbus, Detached, Detaching, Joined, SlavesGone

LEMMA LifeEbz ==
  ASSUME LifeInv, EbzStep
  PROVE  LifeInv'
  <1>1. kind = "ebz" /\ UNCHANGED <<kind, main, dev, cb, listener, feed>>
    BY EbzSteps DEF OnlyEbz
  <1>2. worker \in {"new", "done"} => worker' = worker
    BY EbzSteps
       DEF Ebz!loopTop, Ebz!tryConnect, Ebz!announceConnected,
           Ebz!beforeRead, Ebz!readReturns, Ebz!updateDeviceAndJson,
           Ebz!publishDevice, Ebz!updateValuesAndJson, Ebz!publishValues,
           Ebz!disconnect, Ebz!backoff
  <1>3. QED
    BY <1>1, <1>2 DEF LifeInv, Modbus, Detached, Joined

LEMMA LifeSlave ==
  ASSUME LifeInv, SlaveStep
  PROVE  LifeInv'
  <1>1. kind = "slave" /\ UNCHANGED <<kind, main, dev, cb, worker>>
    BY SlaveSteps DEF OnlySlave
  <1>2. CASE /\ main \in {"connect", "wait", "unregister", "drain", "join"}
             /\ Slave!updates
    BY <1>1, <1>2 DEF LifeInv, Modbus, Detached, Detaching, Joined, SlavesGone
  <1>3. CASE Slave!Listening
    <2>1. UNCHANGED feed /\ listener \notin {"new", "done"}
      BY <1>3 DEF Slave!Listening, Slave!accept, Slave!tcpClientHandler,
                  Slave!pollAgain, Slave!listenerAt, Slave!listenerFails,
                  Slave!joinClients, Slave!rtuClientHandler, Slave!rtuReply
    <2>2. QED
      BY <1>1, <2>1 DEF LifeInv, Modbus, Detached, Detaching, Joined
  <1>4. ASSUME NEW c \in Clients, Slave!tcpClientWorker(c)
        PROVE  LifeInv'
    <2>1. UNCHANGED <<feed, listener>>
      BY <1>4 DEF Slave!tcpClientWorker, Slave!newContext, Slave!receive,
                  Slave!reply, Slave!hangUp, Slave!clientAt,
                  Slave!closeSocket
    <2>2. QED
      BY <1>1, <2>1 DEF LifeInv, Modbus, Detached, Detaching, Joined
  <1>5. QED
    BY <1>2, <1>3, <1>4, SlaveSteps

\* Which threads may exist at each step of start-up and of the destructors
\* (src/main.cpp).
THEOREM LifeInvariant == Spec => []LifeInv
  <1>1. ASSUME LifeInv, ConsumerFails \/ UNCHANGED vars PROVE LifeInv'
    BY <1>1 DEF ConsumerFails, vars, LifeInv, Detached
  <1>2. LifeInv /\ [Next]_vars => LifeInv'
    BY <1>1, Steps, LifeMain, LifeInverter, LifeMeter, LifeEbz, LifeSlave
  <1>3. QED
    BY LifeInit, <1>2, PTL DEF Spec, SilentSpec

\* Whatever a callback touches is destroyed after the last thread that may
\* call it has ended.
THEOREM CallersAreJoined == Spec => []CallersJoined
  <1>1. LifeInv /\ SlaveInv => CallersJoined
    BY DEF LifeInv, SlaveInv, ListenerInv, CallersJoined, Detaching, Joined,
           SlavesGone
  <1>2. QED
    BY <1>1, LifeInvariant, SlaveInvariant, PTL

\* When the process ends no connection of a slave is left open.
THEOREM DescriptorsAreReleased == Spec => []DescriptorsReleased
  <1>1. LifeInv /\ SlaveInv => DescriptorsReleased
    BY DEF LifeInv, SlaveInv, ListenerInv, SocketInv, Alive, Slave!Ended,
           DescriptorsReleased, SlavesGone
  <1>2. QED
    BY <1>1, LifeInvariant, SlaveInvariant, PTL

-----------------------------------------------------------------------------
(* Types.                                                                  *)

\* Components that a step leaves alone.
LEMMA SameMaster ==
  ASSUME MasterTypeOK, UNCHANGED masterVars
  PROVE  MasterTypeOK'
  BY DEF MasterTypeOK

LEMMA SameBus ==
  ASSUME BusTypeOK, UNCHANGED busVars
  PROVE  BusTypeOK'
  BY DEF BusTypeOK

LEMMA SameInverter ==
  ASSUME Inv!InverterTypeOK, UNCHANGED inverterVars
  PROVE  Inv!InverterTypeOK'
  BY DEF Inv!InverterTypeOK

LEMMA SameEasyMeter ==
  ASSUME Ebz!EasyTypeOK, UNCHANGED easyVars
  PROVE  Ebz!EasyTypeOK'
  BY DEF Ebz!EasyTypeOK

\* What a library thread is doing.
Calls == [at : {"decide", "fire"}, state : Availability] \union {Idle}

\* A thread that decides or fires does so about a state.
LEMMA CallsType ==
  ASSUME BusTypeOK, NEW t \in Threads
  PROVE  /\ cb \in [Threads -> Calls]
         /\ cb[t] \in Calls
         /\ cb[t].at \in {"decide", "fire"} =>
              /\ cb[t].state \in Availability
              /\ [cb[t] EXCEPT !.at = "fire"] \in Calls
  <1>1. cb \in [Threads -> Calls] /\ cb[t] \in Calls
    BY DEF BusTypeOK, Calls
  <1>2. CASE cb[t] = Idle
    BY <1>1, <1>2 DEF Idle
  <1>3. CASE cb[t] \in [at : {"decide", "fire"}, state : Availability]
    BY <1>1, <1>3 DEF Calls
  <1>4. QED
    BY <1>1, <1>2, <1>3 DEF Calls

\* The threads of both Modbus masters advance one at a time.
CallStep ==
  \/ cb' = cb
  \/ \E t \in Threads :
       \/ cb' = [cb EXCEPT ![t] = Idle]
       \/ /\ cb[t].at = "decide"
          /\ cb' = [cb EXCEPT ![t].at = "fire"]
       \/ \E at \in {"decide", "fire"}, state \in Availability :
            cb' = [cb EXCEPT ![t] = [at |-> at, state |-> state]]

LEMMA CallStepType ==
  ASSUME BusTypeOK, CallStep
  PROVE  cb' \in [Threads -> Calls]
  <1>1. ASSUME NEW at \in {"decide", "fire"}, NEW state \in Availability
        PROVE  [at |-> at, state |-> state] \in Calls
    BY DEF Calls
  <1>2. Idle \in Calls
    BY DEF Calls
  <1>3. cb \in [Threads -> Calls]
    BY DEF BusTypeOK, Calls
  <1>4. ASSUME NEW t \in Threads, cb[t].at = "decide",
               cb' = [cb EXCEPT ![t].at = "fire"]
        PROVE  cb' \in [Threads -> Calls]
    <2>1. cb' = [cb EXCEPT ![t] = [cb[t] EXCEPT !.at = "fire"]]
      BY <1>4
    <2>2. QED
      BY <1>3, <1>4, <2>1, CallsType
  <1>5. QED
    BY <1>1, <1>2, <1>3, <1>4 DEF CallStep

LEMMA TypeInit == Init => TypeOK
  <1> SUFFICES ASSUME Init PROVE TypeOK
    OBVIOUS
  <1>1. Slave!SlaveTypeOK
    BY SlaveInvInit DEF SlaveInv
  <1>2. cb \in [Threads -> [at : {"decide", "fire"}, state : Availability]
                           \union {Idle}]
    BY DEF Init, BusInit
  <1>3. QED
    BY <1>1, <1>2
       DEF Init, HandlerInit, MasterInit, BusInit, Inv!InverterInit,
           Ebz!EasyInit, TypeOK, HandlerTypeOK, MasterTypeOK, BusTypeOK,
           Inv!InverterTypeOK, Ebz!EasyTypeOK

\* The stop flag.
LEMMA TypeFlags ==
  ASSUME TypeOK, [Next]_vars
  PROVE  HandlerTypeOK'
  <1>1. running' \in BOOLEAN /\ failed' \in BOOLEAN
    BY FlagSteps DEF TypeOK, HandlerTypeOK, stop
  <1>2. stoppedBy' \in {"signal", "failure", "nothing"}
    BY FlagSteps DEF TypeOK, HandlerTypeOK, stop
  <1>3. waiter' \in {waiter, "outside", "locked", "checked", "asleep",
                      "notified", "hung"}
    BY HandlerSteps
       DEF HandlerStep, shutdown, notify, lockMtx, shutdownByMain, hang,
           checkFlag, sleep, waitReturns
  <1>4. QED
    BY <1>1, <1>2, <1>3 DEF TypeOK, HandlerTypeOK

LEMMA TypeMain ==
  ASSUME TypeOK, SlaveInv', HandlerTypeOK', MainStep
  PROVE  TypeOK'
  <1> USE DEF MainStep, Main, startupFails, Signal, reportFailure,
         waitForStop, joinConsumers, startSlaves, startConsumers,
         constructMaster, wireDevice, setDeviceCallback,
         wireAvailability, setAvailabilityCallback, connectBuses,
         connectBus, decideStatus, leaveBus, unregisterDevice,
         awaitCallbacks, joinWorker, finalPublish, Inv!finalAvailability,
         Inv!availabilityCallback, Fron!availabilityCallback,
         Ebz!availabilityCallback, Ebz!closePort,
         Fron!finalAvailability, Ebz!finalDisconnect, destroySlaves,
         destroyConsumers
  <1>1. /\ kind' \in Kinds
        /\ main' \in {"start slaves", "start consumers", "construct",
                      "wire device", "wire availability", "connect",
                      "failing", "wait", "unregister", "drain", "join",
                      "final", "destroy slaves", "destroy consumers",
                      "join consumers", "exited"}
        /\ status' \in {None, "failure", "success"}
        /\ consumers' \in {"new", "alive", "lost", "done"}
    BY DEF TypeOK
  <1>2. worker' \in {worker, "top"}
    OBVIOUS
  <1>3. MasterTypeOK'
    BY DEF TypeOK, MasterTypeOK, Availability
  <1>4. BusTypeOK'
    BY DEF TypeOK, BusTypeOK
  <1>5. Inv!InverterTypeOK' /\ Ebz!EasyTypeOK'
    BY DEF TypeOK, Inv!InverterTypeOK, Ebz!EasyTypeOK, Inv!Availability
  <1>6. QED
    BY <1>1, <1>2, <1>3, <1>4, <1>5 DEF TypeOK, SlaveInv

LEMMA TypeInverter ==
  ASSUME TypeOK, SlaveInv', HandlerTypeOK', InverterStep
  PROVE  TypeOK'
  <1>1. UNCHANGED <<kind, main, status, consumers, port, parsed>>
    BY InverterSteps DEF OnlyInverter
  <1>2. worker' \in {worker, "top", "device", "values", "events", "wait",
                     "done"}
    BY InverterSteps
       DEF Inv!loopTop, Inv!updateDeviceAndJson, Inv!publishDevice,
           Inv!updateValuesAndJson, Inv!publishValues,
           Inv!updateEventsAndJson, Inv!publishEvents, Inv!waitInterval,
           Inv!onUnavailable, Inv!onBusError, Inv!onReady, Inv!callBack,
           Inv!decideAvailability, Inv!fireAvailability
  <1>3. CallStep
    BY InverterSteps
       DEF Inv!loopTop, Inv!updateDeviceAndJson, Inv!publishDevice,
           Inv!updateValuesAndJson, Inv!publishValues,
           Inv!updateEventsAndJson, Inv!publishEvents, Inv!waitInterval,
           Inv!onUnavailable, Inv!onBusError, Inv!onReady, Inv!callBack,
           Inv!decideAvailability, Inv!fireAvailability,
           CallStep, Availability, Idle, Inv!Idle, Threads
  <1>4. MasterTypeOK'
    <2>1. /\ gate' \in {gate} \union Idents /\ seen' \in {seen, gate}
          /\ wired' = wired
          /\ \/ last' = last
             \/ \E t \in Threads : cb[t].at = "fire" /\ last' = cb[t].state
      BY InverterSteps
         DEF Inv!loopTop, Inv!updateDeviceAndJson, Inv!publishDevice,
             Inv!updateValuesAndJson, Inv!publishValues,
             Inv!updateEventsAndJson, Inv!publishEvents, Inv!waitInterval,
             Inv!onUnavailable, Inv!onBusError, Inv!onReady, Inv!callBack,
             Inv!decideAvailability, Inv!fireAvailability,
             Inv!availabilityCallback
    <2>2. last' \in Availability \union {None}
      BY <2>1, CallsType DEF TypeOK, MasterTypeOK
    <2>3. QED
      BY <2>1, <2>2 DEF TypeOK, MasterTypeOK
  <1>5. /\ dev' \in {"off", "down", "ready", "retry", "gone"}
        /\ connected' \in BOOLEAN
        /\ result' \in {None, "new", "same", "failed"}
    BY InverterSteps
       DEF Inv!loopTop, Inv!updateDeviceAndJson, Inv!publishDevice,
           Inv!updateValuesAndJson, Inv!publishValues,
           Inv!updateEventsAndJson, Inv!publishEvents, Inv!waitInterval,
           Inv!onUnavailable, Inv!onBusError, Inv!onReady, Inv!callBack,
           Inv!decideAvailability, Inv!fireAvailability,
           Inv!onDeviceError, Inv!scheduleDeviceRetry, Inv!deviceReady,
           Inv!deviceUnavailable, TypeOK, BusTypeOK
  <1>6. BusTypeOK'
    BY <1>3, <1>5, CallStepType DEF TypeOK, BusTypeOK, Calls
  <1>7. Inv!InverterTypeOK'
    <2>1. /\ \/ avail' = avail
             \/ \E t \in Threads : cb[t].at = "decide" /\ avail' = cb[t].state
          /\ evt' \in {evt} \union Events /\ seenEvt' \in {seenEvt, evt}
          /\ overlap' \in BOOLEAN
      BY InverterSteps
         DEF Inv!loopTop, Inv!updateDeviceAndJson, Inv!publishDevice,
             Inv!updateValuesAndJson, Inv!publishValues,
             Inv!updateEventsAndJson, Inv!publishEvents, Inv!waitInterval,
             Inv!onUnavailable, Inv!onBusError, Inv!onReady, Inv!callBack,
             Inv!decideAvailability, Inv!fireAvailability, TypeOK, Inv!InverterTypeOK
    <2>2. avail' \in Availability \union {None}
      BY <2>1, CallsType
         DEF TypeOK, Inv!InverterTypeOK, Inv!Availability, Availability
    <2>3. QED
      BY <2>1, <2>2
         DEF TypeOK, Inv!InverterTypeOK, Inv!Availability, Availability
  <1>8. QED
    BY <1>1, <1>2, <1>4, <1>6, <1>7, SameEasyMeter DEF TypeOK, SlaveInv

LEMMA TypeMeter ==
  ASSUME TypeOK, SlaveInv', HandlerTypeOK', MeterStep
  PROVE  TypeOK'
  <1>1. UNCHANGED <<kind, main, status, consumers, avail, evt, seenEvt,
                    overlap, port, parsed>>
    BY MeterSteps DEF OnlyMeter
  <1>2. worker' \in {worker, "top", "device", "values", "wait", "done"}
    BY MeterSteps
       DEF Fron!loopTop, Fron!updateDeviceAndJson, Fron!publishDevice,
           Fron!updateValuesAndJson, Fron!publishValues, Fron!waitInterval,
           Fron!onUnavailable, Fron!onBusError, Fron!onReady, Fron!callBack,
           Fron!fireAvailability
  <1>3. CallStep
    BY MeterSteps
       DEF Fron!loopTop, Fron!updateDeviceAndJson, Fron!publishDevice,
           Fron!updateValuesAndJson, Fron!publishValues, Fron!waitInterval,
           Fron!onUnavailable, Fron!onBusError, Fron!onReady, Fron!callBack,
           Fron!fireAvailability,
           CallStep, Availability, Idle, Fron!Idle, Threads
  <1>4. MasterTypeOK'
    <2>1. /\ gate' \in {gate} \union Idents /\ seen' \in {seen, gate}
          /\ wired' = wired
          /\ \/ last' = last
             \/ \E t \in Threads : cb[t].at = "fire" /\ last' = cb[t].state
      BY MeterSteps
         DEF Fron!loopTop, Fron!updateDeviceAndJson, Fron!publishDevice,
             Fron!updateValuesAndJson, Fron!publishValues, Fron!waitInterval,
             Fron!onUnavailable, Fron!onBusError, Fron!onReady, Fron!callBack,
             Fron!fireAvailability,
             Fron!availabilityCallback
    <2>2. last' \in Availability \union {None}
      BY <2>1, CallsType DEF TypeOK, MasterTypeOK
    <2>3. QED
      BY <2>1, <2>2 DEF TypeOK, MasterTypeOK
  <1>5. /\ dev' \in {"off", "down", "ready", "retry", "gone"}
        /\ connected' \in BOOLEAN
        /\ result' \in {None, "new", "same", "failed"}
    BY MeterSteps
       DEF Fron!loopTop, Fron!updateDeviceAndJson, Fron!publishDevice,
           Fron!updateValuesAndJson, Fron!publishValues, Fron!waitInterval,
           Fron!onUnavailable, Fron!onBusError, Fron!onReady, Fron!callBack,
           Fron!fireAvailability,
           Fron!onDeviceError, Fron!scheduleDeviceRetry, Fron!deviceReady,
           Fron!deviceUnavailable, TypeOK, BusTypeOK
  <1>6. BusTypeOK'
    BY <1>3, <1>5, CallStepType DEF TypeOK, BusTypeOK, Calls
  <1>7. QED
    BY <1>1, <1>2, <1>4, <1>6, SameInverter, SameEasyMeter DEF TypeOK, SlaveInv

LEMMA TypeEbz ==
  ASSUME TypeOK, SlaveInv', HandlerTypeOK', EbzStep
  PROVE  TypeOK'
  <1> USE EbzSteps
      DEF Ebz!loopTop, Ebz!tryConnect, Ebz!announceConnected,
          Ebz!beforeRead, Ebz!readReturns, Ebz!updateDeviceAndJson,
          Ebz!publishDevice, Ebz!updateValuesAndJson, Ebz!publishValues,
          Ebz!disconnect, Ebz!backoff, Ebz!handleResult, Ebz!closePort,
          Ebz!goto, Ebz!availabilityCallback
  <1>1. UNCHANGED <<kind, main, status, consumers, dev, connected, result,
                    cb, avail, evt, seenEvt, overlap>>
    BY DEF OnlyEbz
  <1>2. worker' \in Ebz!WorkerSteps
    BY DEF Ebz!WorkerSteps
  <1>3. MasterTypeOK'
    BY DEF TypeOK, MasterTypeOK, Ebz!EasyTypeOK, Availability
  <1>4. Ebz!EasyTypeOK'
    BY DEF TypeOK, Ebz!EasyTypeOK
  <1> HIDE EbzSteps
  <1>5. QED
    BY <1>1, <1>2, <1>3, <1>4, SameBus, SameInverter DEF TypeOK, SlaveInv

\* Every variable of the process keeps its type.
THEOREM TypeCorrect == Spec => []TypeOK
  <1>1. TypeOK /\ SlaveInv' /\ [Next]_vars => TypeOK'
    <2> SUFFICES ASSUME TypeOK, SlaveInv', [Next]_vars PROVE TypeOK'
      OBVIOUS
    <2>1. HandlerTypeOK'
      BY TypeFlags
    <2>2. CASE SlaveStep
      <3>1. UNCHANGED <<mainVars, masterVars, busVars, inverterVars, easyVars>>
        BY <2>2, SlaveSteps DEF OnlySlave
      <3>2. QED
        BY <2>1, <3>1, SameMaster, SameBus, SameInverter, SameEasyMeter
           DEF TypeOK, SlaveInv
    <2>3. CASE UNCHANGED vars
      BY <2>1, <2>3, SameMaster, SameBus, SameInverter, SameEasyMeter
         DEF vars, TypeOK, SlaveInv
    <2>4. CASE ConsumerFails
      <3>1. UNCHANGED <<kind, main, status, masterVars, busVars, inverterVars,
                        easyVars>>
        BY <2>4 DEF ConsumerFails
      <3>2. consumers' \in {consumers, "alive", "done"}
        BY <2>4 DEF ConsumerFails
      <3>3. consumers' \in {"new", "alive", "lost", "done"}
        BY <3>2 DEF TypeOK
      <3>4. /\ MasterTypeOK' /\ BusTypeOK' /\ Inv!InverterTypeOK'
            /\ Ebz!EasyTypeOK'
        BY <3>1, SameMaster, SameBus, SameInverter, SameEasyMeter DEF TypeOK
      <3>5. QED
        BY <2>1, <3>1, <3>3, <3>4 DEF TypeOK, SlaveInv
    <2>5. QED
      BY <2>1, <2>2, <2>3, <2>4, Steps, TypeMain, TypeInverter, TypeMeter,
         TypeEbz
  <1>2. QED
    BY <1>1, TypeInit, SlaveInvariant, PTL DEF Spec, SilentSpec

-----------------------------------------------------------------------------
(* Callbacks are installed before a Modbus master can need them.           *)

\* A consumer has been told something only through an installed callback;
\* both are installed before the bus is connected, hence before a Modbus
\* master polls its device.
WiredInv ==
  /\ last # None => "availability" \in wired
  /\ seen # None => "device" \in wired
  /\ main \in {"start slaves", "start consumers", "construct"} =>
       worker = "new"
  /\ main \in {"wire availability", "connect"} => "device" \in wired
  /\ kind \in Modbus /\ dev \notin {"off", "gone"} => "device" \in wired
  /\ kind \in Modbus /\ connected = TRUE => "device" \in wired
  /\ kind \in Modbus /\ worker \in {"device", "values", "events"} =>
       "device" \in wired

LEMMA WiredInit == Init => WiredInv
  BY DEF Init, MasterInit, BusInit, WiredInv

LEMMA WiredStep ==
  ASSUME TypeOK, WiredInv, [Next]_vars
  PROVE  WiredInv'
  <1> connected \in BOOLEAN
    BY DEF TypeOK, BusTypeOK
  <1>1. CASE MainStep
    BY <1>1
       DEF MainStep, Main, startupFails, Signal, reportFailure,
         waitForStop, joinConsumers, startSlaves, startConsumers,
           constructMaster, wireDevice, setDeviceCallback,
           wireAvailability, setAvailabilityCallback, connectBuses,
           connectBus, decideStatus, leaveBus, unregisterDevice,
           awaitCallbacks, joinWorker, finalPublish, Inv!finalAvailability,
           Inv!availabilityCallback, Fron!availabilityCallback,
           Ebz!availabilityCallback, Ebz!closePort,
           Fron!finalAvailability, Ebz!finalDisconnect, destroySlaves,
           destroyConsumers, WiredInv
  <1>2. CASE InverterStep
    BY <1>2, InverterSteps
       DEF Inv!loopTop, Inv!updateDeviceAndJson, Inv!publishDevice,
           Inv!updateValuesAndJson, Inv!publishValues,
           Inv!updateEventsAndJson, Inv!publishEvents, Inv!waitInterval,
           Inv!onUnavailable, Inv!onBusError, Inv!onReady, Inv!callBack,
           Inv!decideAvailability, Inv!fireAvailability,
           Inv!onDeviceError, Inv!scheduleDeviceRetry, Inv!deviceReady,
           Inv!deviceUnavailable, Inv!availabilityCallback, OnlyInverter,
           WiredInv, Modbus
  <1>3. CASE MeterStep
    BY <1>3, MeterSteps
       DEF Fron!loopTop, Fron!updateDeviceAndJson, Fron!publishDevice,
           Fron!updateValuesAndJson, Fron!publishValues, Fron!waitInterval,
           Fron!onUnavailable, Fron!onBusError, Fron!onReady, Fron!callBack,
           Fron!fireAvailability,
           Fron!onDeviceError, Fron!scheduleDeviceRetry, Fron!deviceReady,
           Fron!deviceUnavailable, Fron!availabilityCallback, OnlyMeter,
           WiredInv, Modbus
  <1>4. CASE EbzStep
    BY <1>4, EbzSteps
       DEF Ebz!loopTop, Ebz!tryConnect, Ebz!announceConnected,
           Ebz!beforeRead, Ebz!readReturns, Ebz!updateDeviceAndJson,
           Ebz!publishDevice, Ebz!updateValuesAndJson, Ebz!publishValues,
           Ebz!disconnect, Ebz!backoff, Ebz!handleResult, Ebz!closePort,
           Ebz!goto, Ebz!availabilityCallback, OnlyEbz, WiredInv, Modbus
  <1>5. CASE SlaveStep
    BY <1>5, SlaveSteps DEF OnlySlave, WiredInv
  <1>6. CASE ConsumerFails \/ UNCHANGED vars
    BY <1>6 DEF ConsumerFails, vars, WiredInv
  <1>7. QED
    BY <1>1, <1>2, <1>3, <1>4, <1>5, <1>6, Steps

\* Callbacks are installed before the object that calls them is connected,
\* except for the Easymeter's (src/main.cpp).
THEOREM WiredInvariant == Spec => []WiredInv
  <1>1. TypeOK /\ WiredInv /\ [Next]_vars => WiredInv'
    BY WiredStep
  <1>2. QED
    BY <1>1, WiredInit, TypeCorrect, PTL DEF Spec, SilentSpec

-----------------------------------------------------------------------------
(* What the gates take reaches the consumers.                              *)

\* While the bridge runs, what a gate holds has been delivered, or the poll
\* loop is on its way to deliver it.
GateInv ==
  kind \in Modbus /\ running =>
    /\ seen = gate \/ (worker = "device" /\ result = "new")
    /\ seenEvt = evt \/ (worker = "events" /\ result = "new")

\* The bridge never runs again, and its kind never changes.
LEMMA StopIsFinal ==
  ASSUME [Next]_vars
  PROVE  (running' => running) /\ kind' = kind
  <1>1. running' => running
    BY FlagSteps DEF stop
  <1>2. kind' = kind
    BY Steps, InverterSteps, MeterSteps, EbzSteps, SlaveSteps
       DEF MainStep, Main, startupFails, Signal, reportFailure,
         waitForStop, joinConsumers, startSlaves, startConsumers,
           constructMaster, wireDevice, wireAvailability, connectBuses,
           decideStatus, leaveBus, awaitCallbacks, joinWorker, finalPublish,
           destroySlaves, destroyConsumers, ConsumerFails, OnlyInverter, OnlyMeter,
         OnlyEbz,
           OnlySlave, vars
  <1>3. QED
    BY <1>1, <1>2

LEMMA GateStep ==
  ASSUME GateInv, WiredInv, [Next]_vars
  PROVE  GateInv'
  <1> SUFFICES ASSUME kind \in Modbus, running, running'
               PROVE  GateInv'
    BY StopIsFinal DEF GateInv
  <1> None # "new"
    BY BridgeAssumption
  <1>1. CASE MainStep
    <2>1. UNCHANGED <<seen, gate, seenEvt, evt, result>>
      BY <1>1
         DEF MainStep, Main, startupFails, Signal, reportFailure,
         waitForStop, joinConsumers, startSlaves, startConsumers,
             constructMaster, wireDevice, setDeviceCallback,
             wireAvailability, setAvailabilityCallback, connectBuses,
             connectBus, decideStatus, leaveBus, unregisterDevice,
             awaitCallbacks, joinWorker, finalPublish, Inv!finalAvailability,
             Inv!availabilityCallback, Fron!availabilityCallback,
             Ebz!availabilityCallback, Ebz!closePort,
             Fron!finalAvailability, Ebz!finalDisconnect, destroySlaves,
             destroyConsumers, Modbus
    <2>2. worker' = worker \/ main = "construct"
      BY <1>1
         DEF MainStep, Main, startupFails, Signal, reportFailure,
         waitForStop, joinConsumers, startSlaves, startConsumers,
             constructMaster, wireDevice, setDeviceCallback,
             wireAvailability, setAvailabilityCallback, connectBuses,
             connectBus, decideStatus, leaveBus, unregisterDevice,
             awaitCallbacks, joinWorker, finalPublish, Inv!finalAvailability,
             Inv!availabilityCallback, Fron!availabilityCallback,
             Ebz!availabilityCallback, Ebz!closePort,
             Fron!finalAvailability, Ebz!finalDisconnect, destroySlaves,
             destroyConsumers
    <2>3. QED
      BY <2>1, <2>2 DEF WiredInv, GateInv
  <1>2. CASE InverterStep
    <2>1. seen' = gate' \/ (worker' = "device" /\ result' = "new")
      BY <1>2, InverterSteps
         DEF Inv!loopTop, Inv!updateDeviceAndJson, Inv!publishDevice,
             Inv!updateValuesAndJson, Inv!publishValues,
             Inv!updateEventsAndJson, Inv!publishEvents, Inv!waitInterval,
             Inv!onUnavailable, Inv!onBusError, Inv!onReady, Inv!callBack,
             Inv!decideAvailability, Inv!fireAvailability,
             OnlyInverter, WiredInv, GateInv, Modbus
    <2>2. seenEvt' = evt' \/ (worker' = "events" /\ result' = "new")
      <3>1. seenEvt = evt \/ (worker = "events" /\ result = "new")
        BY DEF GateInv
      <3>2. CASE Inv!updateEventsAndJson
        BY <3>1, <3>2 DEF Inv!updateEventsAndJson, Inv!changed
      <3>3. CASE Inv!publishEvents
        BY <3>1, <3>3 DEF Inv!publishEvents
      <3>4. CASE ~Inv!updateEventsAndJson /\ ~Inv!publishEvents
        BY <1>2, <3>1, <3>4, InverterSteps
           DEF Inv!loopTop, Inv!updateDeviceAndJson, Inv!publishDevice,
               Inv!updateValuesAndJson, Inv!publishValues, Inv!waitInterval,
               Inv!onUnavailable, Inv!onBusError, Inv!onReady, Inv!callBack,
               Inv!decideAvailability, Inv!fireAvailability
      <3>5. QED
        BY <3>2, <3>3, <3>4
    <2>3. QED
      BY <2>1, <2>2 DEF GateInv
  <1>3. CASE MeterStep
    BY <1>3, MeterSteps
       DEF Fron!loopTop, Fron!updateDeviceAndJson, Fron!publishDevice,
           Fron!updateValuesAndJson, Fron!publishValues, Fron!waitInterval,
           Fron!onUnavailable, Fron!onBusError, Fron!onReady, Fron!callBack,
           Fron!fireAvailability,
           OnlyMeter, WiredInv, GateInv, Modbus
  <1>4. CASE EbzStep \/ SlaveStep
    BY <1>4, EbzSteps, SlaveSteps DEF Modbus
  <1>5. CASE ConsumerFails \/ UNCHANGED vars
    BY <1>5 DEF ConsumerFails, vars, GateInv
  <1>6. QED
    BY <1>1, <1>2, <1>3, <1>4, <1>5, Steps

\* A change gate never swallows an identity or an event snapshot while the
\* bridge runs.
THEOREM GatedReach == Spec => []GatedReachConsumers
  <1>1. Init => GateInv
    BY DEF Init, MasterInit, Inv!InverterInit, GateInv
  <1>2. GateInv /\ WiredInv /\ [Next]_vars => GateInv'
    BY GateStep
  <1>3. GateInv => GatedReachConsumers
    BY DEF GateInv, GatedReachConsumers
  <1>4. QED
    BY <1>1, <1>2, <1>3, WiredInvariant, PTL DEF Spec, SilentSpec

-----------------------------------------------------------------------------
(* What an Easymeter's consumers know.                                     *)

\* main starts a thread, installs callbacks and publishes last words; what
\* the devices were found to be is not its business.
LEMMA MainFrame ==
  ASSUME MainStep
  PROVE  /\ UNCHANGED <<seen, gate, parsed, cb, overlap>>
         /\ wired \subseteq wired'
         /\ worker' = worker \/ (main = "construct" /\ worker' = "top")
         /\ UNCHANGED <<last, avail, port>> \/ finalPublish
  BY DEF MainStep, Main, startupFails, Signal, reportFailure,
         waitForStop, joinConsumers, startSlaves, startConsumers,
         constructMaster, wireDevice, setDeviceCallback, wireAvailability,
         setAvailabilityCallback, connectBuses, connectBus, decideStatus,
         leaveBus, unregisterDevice, awaitCallbacks, joinWorker, finalPublish,
         Inv!finalAvailability, Fron!finalAvailability, Ebz!finalDisconnect,
         destroySlaves, destroyConsumers

\* The last word follows the serial line, but for the moment between open()
\* and the announcement; the thread reads from an open line only.
PortInv ==
  kind = "ebz" =>
    /\ port = FALSE => last # "connected"
    /\ port = TRUE /\ worker # "announce" => last # "disconnected"
    /\ worker \in {"announce", "read", "blocked", "device", "publish device",
                   "values", "publish values"} => port = TRUE
    /\ worker = "backoff" => port = FALSE

LEMMA PortStep ==
  ASSUME PortInv, WiredInv, LifeInv, port \in BOOLEAN, [Next]_vars
  PROVE  PortInv'
  <1> SUFFICES ASSUME kind = "ebz"
               PROVE  PortInv'
    BY StopIsFinal DEF PortInv
  <1> None # "connected" /\ None # "disconnected"
    BY BridgeAssumption
  <1> "availability" \notin wired => last = None
    BY DEF WiredInv
  <1>1. CASE MainStep
    <2>1. CASE finalPublish
      <3>1. worker \in {"new", "done"}
        BY <2>1 DEF finalPublish, LifeInv, Joined, Detaching
      <3>2. Ebz!finalDisconnect
        BY <2>1 DEF finalPublish
      <3>3. /\ worker' = worker /\ port' = FALSE
            /\ last' \in {last, "disconnected"}
            /\ port = TRUE /\ "availability" \in wired =>
                 last' = "disconnected"
            /\ ~(port = TRUE) => last' = last
            /\ "availability" \notin wired => last' = last
        BY <3>2 DEF Ebz!finalDisconnect, Ebz!closePort,
                    Ebz!availabilityCallback
      <3>4. QED
        BY <3>1, <3>3 DEF PortInv
    <2>2. CASE UNCHANGED <<last, avail, port>>
      BY <1>1, <2>2, MainFrame DEF PortInv, WiredInv
    <2>3. QED
      BY <1>1, <2>1, <2>2, MainFrame
  <1>2. CASE EbzStep
    <2>1. CASE Ebz!tryConnect
      BY <2>1 DEF Ebz!tryConnect, Ebz!handleResult, Ebz!goto, PortInv
    <2>2. CASE Ebz!announceConnected
      BY <2>2 DEF Ebz!announceConnected, Ebz!availabilityCallback, Ebz!goto,
                  PortInv
    <2>3. CASE Ebz!disconnect
      BY <2>3 DEF Ebz!disconnect, Ebz!closePort, Ebz!availabilityCallback,
                  Ebz!goto, PortInv
    <2>4. CASE Ebz!loopTop \/ Ebz!beforeRead \/ Ebz!readReturns \/ Ebz!backoff
      BY <2>4 DEF Ebz!loopTop, Ebz!beforeRead, Ebz!readReturns, Ebz!backoff,
                  Ebz!handleResult, Ebz!goto, PortInv
    <2>5. CASE \/ Ebz!updateDeviceAndJson \/ Ebz!publishDevice
               \/ Ebz!updateValuesAndJson \/ Ebz!publishValues
      BY <2>5 DEF Ebz!updateDeviceAndJson, Ebz!publishDevice,
                  Ebz!updateValuesAndJson, Ebz!publishValues, Ebz!goto,
                  PortInv
    <2>6. QED
      BY <1>2, <2>1, <2>2, <2>3, <2>4, <2>5, EbzSteps
  <1>3. CASE InverterStep \/ MeterStep \/ SlaveStep
    BY <1>3, InverterSteps, MeterSteps, SlaveSteps
  <1>4. CASE ConsumerFails \/ UNCHANGED vars
    BY <1>4 DEF ConsumerFails, vars, PortInv
  <1>5. QED
    BY <1>1, <1>2, <1>3, <1>4, Steps

\* The consumers' view of the Easymeter's line against its descriptor, at
\* every step of the reader (src/easy_meter.cpp:runLoop()).
THEOREM PortInvariant == Spec => []PortInv
  <1>1. Init => PortInv
    BY BridgeAssumption DEF Init, MasterInit, Ebz!EasyInit, PortInv
  <1>2. TypeOK => port \in BOOLEAN
    BY DEF TypeOK, Ebz!EasyTypeOK
  <1>3. (PortInv /\ WiredInv /\ LifeInv /\ port \in BOOLEAN
         /\ [Next]_vars) => PortInv'
    BY PortStep
  <1>4. QED
    BY <1>1, <1>2, <1>3, TypeCorrect, WiredInvariant, LifeInvariant, PTL
       DEF Spec, SilentSpec

\* The consumers know the state of the serial line at every telegram and at
\* every retry.
THEOREM AvailabilityIsCurrent == Spec => []AvailabilityFollowsPort
  <1>1. PortInv => AvailabilityFollowsPort
    BY DEF PortInv, AvailabilityFollowsPort
  <1>2. QED
    BY <1>1, PortInvariant, PTL

\* The gate and the consumers agree once a consumer was told at all: until
\* the callback is installed it hears nothing, afterwards every change.
LEMMA IdentityStep ==
  ASSUME IdentityCurrent, WiredInv, [Next]_vars
  PROVE  IdentityCurrent'
  <1> SUFFICES ASSUME kind = "ebz"
               PROVE  IdentityCurrent'
    BY StopIsFinal DEF IdentityCurrent
  <1>1. CASE MainStep
    BY <1>1, MainFrame, StopIsFinal DEF IdentityCurrent
  <1>2. CASE EbzStep
    <2>1. CASE Ebz!publishDevice
      <3>1. "device" \notin wired => seen = None
        BY DEF WiredInv
      <3>2. CASE running /\ gate # parsed
        BY <2>1, <3>1, <3>2 DEF Ebz!publishDevice, Ebz!changed, Ebz!goto,
                                IdentityCurrent
      <3>3. CASE running /\ gate = parsed
        BY <2>1, <3>3 DEF Ebz!publishDevice, Ebz!changed, Ebz!goto,
                          IdentityCurrent
      <3>4. CASE ~running
        BY <2>1, <3>4 DEF Ebz!publishDevice, Ebz!goto, IdentityCurrent
      <3>5. QED
        BY <3>2, <3>3, <3>4
    <2>2. CASE ~Ebz!publishDevice
      BY <1>2, <2>2, EbzSteps
         DEF Ebz!loopTop, Ebz!tryConnect, Ebz!announceConnected,
             Ebz!beforeRead, Ebz!readReturns, Ebz!updateDeviceAndJson,
             Ebz!updateValuesAndJson, Ebz!publishValues, Ebz!disconnect,
             Ebz!backoff, Ebz!handleResult, Ebz!goto, IdentityCurrent
    <2>3. QED
      BY <2>1, <2>2
  <1>3. CASE InverterStep \/ MeterStep \/ SlaveStep
    BY <1>3, InverterSteps, MeterSteps, SlaveSteps
  <1>4. CASE ConsumerFails \/ UNCHANGED vars
    BY <1>4, StopIsFinal
       DEF ConsumerFails, vars, IdentityCurrent
  <1>5. QED
    BY <1>1, <1>2, <1>3, <1>4, Steps

\* A consumer that was told an identity has the current one.
THEOREM IdentityIsCurrent == Spec => []IdentityCurrent
  <1>1. Init => IdentityCurrent
    BY DEF Init, MasterInit, IdentityCurrent
  <1>2. IdentityCurrent /\ WiredInv /\ [Next]_vars => IdentityCurrent'
    BY IdentityStep
  <1>3. QED
    BY <1>1, <1>2, WiredInvariant, PTL DEF Spec, SilentSpec

-----------------------------------------------------------------------------
(* The last word about a device.                                           *)

\* As long as no two library threads were inside publishAvailability at once,
\* the gate holds what the thread that fires is about to say, and otherwise
\* what the consumers heard last.
CallInv ==
  kind = "inverter" /\ overlap = FALSE =>
    /\ \A t, u \in Threads : t # u => cb[t] = Idle \/ cb[u] = Idle
    /\ \A t \in Threads :
         cb[t].at = "fire" =>
           cb[t].state = avail /\ "availability" \in wired
    /\ (\A t \in Threads : cb[t].at # "fire") => last = avail

\* A step that lets a thread enter the gate finds the others outside.
LEMMA CallEnter ==
  ASSUME CallInv, BusTypeOK, overlap \in BOOLEAN, kind = "inverter",
         kind' = kind, NEW t \in Threads, NEW state, cb[t] = Idle,
         Inv!callBack(t, state)
  PROVE  CallInv'
  <1> SUFFICES ASSUME overlap' = FALSE
               PROVE  CallInv'
    BY DEF CallInv
  <1>1. /\ overlap = FALSE
        /\ \A u \in Threads \ {t} : cb[u] = Idle
        /\ cb' = [cb EXCEPT ![t] = [at |-> "decide", state |-> state]]
        /\ UNCHANGED <<last, avail, wired>>
    BY DEF Inv!callBack, Inv!Threads, Threads, Inv!Idle, Idle
  <1>2. \A u \in Threads : cb[u].at # "fire"
    BY <1>1 DEF Idle
  <1>3. /\ \A u \in Threads \ {t} : cb'[u] = Idle
        /\ cb'[t].at = "decide"
    BY <1>1 DEF BusTypeOK
  <1>4. \A u \in Threads : cb'[u].at # "fire"
    BY <1>3 DEF Idle
  <1>5. last = avail
    BY <1>1, <1>2 DEF CallInv
  <1>6. QED
    BY <1>1, <1>3, <1>4, <1>5 DEF CallInv

LEMMA CallDecide ==
  ASSUME CallInv, BusTypeOK, kind = "inverter", kind' = kind,
         NEW t \in Threads, Inv!decideAvailability(t)
  PROVE  CallInv'
  <1> SUFFICES ASSUME overlap' = FALSE
               PROVE  CallInv'
    BY DEF CallInv
  <1>1. overlap = FALSE /\ UNCHANGED <<last, wired>> /\ cb[t].at = "decide"
    BY DEF Inv!decideAvailability
  <1>2. \A u \in Threads \ {t} : cb[u] = Idle
    BY <1>1 DEF CallInv, Idle
  <1>3. \A u \in Threads : cb[u].at # "fire"
    BY <1>1, <1>2 DEF Idle
  <1>4. last = avail
    BY <1>1, <1>3 DEF CallInv
  <1>5. cb \in [Threads -> Calls]
    BY CallsType
  <1>6. CASE "availability" \in wired /\ avail # cb[t].state
    <2>1. /\ avail' = cb[t].state
          /\ cb' = [cb EXCEPT ![t] = [cb[t] EXCEPT !.at = "fire"]]
      BY <1>6 DEF Inv!decideAvailability, Inv!changed
    <2>2. /\ cb'[t] = [cb[t] EXCEPT !.at = "fire"]
          /\ \A u \in Threads \ {t} : cb'[u] = Idle
      BY <1>2, <1>5, <2>1
    <2>3. cb'[t].at = "fire" /\ cb'[t].state = avail'
      <3>1. cb[t] \in [at : {"decide", "fire"}, state : Availability]
        BY <1>1, <1>5 DEF Calls, Idle
      <3>2. QED
        BY <2>1, <2>2, <3>1
    <2>4. "availability" \in wired' /\ Idle.at # "fire"
      BY <1>1, <1>6 DEF Idle
    <2>5. QED
      BY <2>2, <2>3, <2>4 DEF CallInv
  <1>7. CASE ~("availability" \in wired /\ avail # cb[t].state)
    <2>1. avail' = avail /\ cb' = [cb EXCEPT ![t] = Idle]
      BY <1>7 DEF Inv!decideAvailability, Inv!changed, Inv!Idle, Idle
    <2>2. \A u \in Threads : cb'[u] = Idle
      BY <1>2, <1>5, <2>1
    <2>3. QED
      BY <1>1, <1>4, <2>1, <2>2 DEF CallInv, Idle
  <1>8. QED
    BY <1>6, <1>7

LEMMA CallFire ==
  ASSUME CallInv, BusTypeOK, kind = "inverter", kind' = kind,
         NEW t \in Threads, Inv!fireAvailability(t)
  PROVE  CallInv'
  <1> SUFFICES ASSUME overlap' = FALSE
               PROVE  CallInv'
    BY DEF CallInv
  <1>1. /\ overlap = FALSE /\ cb[t].at = "fire"
        /\ cb' = [cb EXCEPT ![t] = Idle]
        /\ UNCHANGED <<avail, wired>>
        /\ "availability" \in wired => last' = cb[t].state
    BY DEF Inv!fireAvailability, Inv!availabilityCallback, Inv!Idle, Idle
  <1>2. last' = avail'
    BY <1>1 DEF CallInv
  <1>3. \A u \in Threads \ {t} : cb[u] = Idle
    BY <1>1 DEF CallInv, Idle
  <1>4. \A u \in Threads : cb'[u] = Idle
    BY <1>1, <1>3 DEF BusTypeOK
  <1>5. QED
    BY <1>1, <1>2, <1>4 DEF CallInv, Idle

\* Once its threads are gone, what is said last about a device is said by its
\* destructor.
Gone == {"destroy slaves", "destroy consumers", "join consumers", "exited"}

LastWordInv ==
  /\ kind = "slave" => last = None
  /\ CallInv
  /\ FinalOffline

LEMMA LastWordMain ==
  ASSUME LastWordInv, TypeOK, WiredInv, LifeInv, PortInv,
         kind' = kind, MainStep
  PROVE  LastWordInv'
  <1> None # "connected" /\ None # "disconnected"
    BY BridgeAssumption
  <1> "availability" \notin wired => last = None
    BY DEF WiredInv
  <1>1. CASE finalPublish
    <2>1. Detached /\ UNCHANGED <<cb, overlap, wired>> /\ main = "final"
      BY <1>1 DEF LifeInv, Detaching, finalPublish, Inv!finalAvailability,
                  Fron!finalAvailability, Ebz!finalDisconnect
    <2>2. \A t \in Threads : cb[t] = Idle /\ cb[t].at # "fire"
      BY <2>1 DEF Detached, Idle
    <2>3. CASE kind = "inverter"
      <3>1. Inv!finalAvailability
        BY <1>1, <2>3 DEF finalPublish
      <3>2. overlap = FALSE => last = avail
        BY <2>2, <2>3 DEF LastWordInv, CallInv
      <3>3. overlap = FALSE => last' = avail' /\ last' # "connected"
        BY <3>1, <3>2 DEF Inv!finalAvailability, Inv!availabilityCallback,
                          Inv!changed
      <3>4. CallInv'
        BY <2>1, <2>2, <3>3 DEF CallInv
      <3>5. FinalOffline'
        BY <2>1, <3>3 DEF FinalOffline, TypeOK, Inv!InverterTypeOK
      <3>6. QED
        BY <2>3, <3>4, <3>5 DEF LastWordInv
    <2>4. CASE kind = "fronius"
      <3>1. last' # "connected"
        BY <1>1, <2>4 DEF finalPublish, Fron!finalAvailability,
                          Fron!availabilityCallback
      <3>2. QED
        BY <2>4, <3>1 DEF LastWordInv, CallInv, FinalOffline
    <2>5. CASE kind = "ebz"
      <3>1. Ebz!finalDisconnect
        BY <1>1, <2>5 DEF finalPublish
      <3>2. last' # "connected"
        BY <2>5, <3>1 DEF Ebz!finalDisconnect, Ebz!closePort,
                          Ebz!availabilityCallback, PortInv, TypeOK,
                          Ebz!EasyTypeOK
      <3>3. QED
        BY <2>5, <3>2 DEF LastWordInv, CallInv, FinalOffline
    <2>6. CASE kind = "slave"
      BY <1>1, <2>6 DEF finalPublish, LastWordInv, CallInv, FinalOffline
    <2>7. QED
      BY <2>3, <2>4, <2>5, <2>6, BridgeAssumption DEF TypeOK
  <1>2. CASE UNCHANGED <<last, avail, port>> /\ ~finalPublish
    <2>1. main' \in Gone => main \in Gone
      BY <1>2 DEF Gone, MainStep, Main, startupFails, Signal, reportFailure,
         waitForStop, joinConsumers, startSlaves,
                  startConsumers, constructMaster, wireDevice,
                  wireAvailability, connectBuses, decideStatus, leaveBus,
                  awaitCallbacks, joinWorker, destroySlaves, destroyConsumers
    <2>2. UNCHANGED <<cb, overlap>> /\ wired \subseteq wired'
      BY MainFrame
    <2>3. CallInv'
      BY <1>2, <2>2 DEF LastWordInv, CallInv
    <2>4. QED
      BY <1>2, <2>1, <2>2, <2>3 DEF LastWordInv, FinalOffline, Gone
  <1>3. QED
    BY <1>1, <1>2, MainFrame

LEMMA LastWordInverter ==
  ASSUME LastWordInv, TypeOK, LifeInv, InverterStep
  PROVE  LastWordInv'
  <1>1. kind = "inverter" /\ UNCHANGED <<kind, main>>
    BY InverterSteps DEF OnlyInverter
  <1>2. overlap \in BOOLEAN /\ BusTypeOK
    BY DEF TypeOK, Inv!InverterTypeOK
  <1>3. CallInv'
    <2>1. ASSUME NEW t \in Threads, Inv!onReady(t) PROVE CallInv'
      BY <1>1, <1>2, <2>1, CallEnter
         DEF LastWordInv, Inv!onReady, Inv!deviceReady, Inv!Idle, Idle
    <2>2. CASE Inv!onUnavailable
      BY <1>1, <1>2, <2>2, CallEnter
         DEF LastWordInv, Inv!onUnavailable, Inv!deviceUnavailable, Threads,
             Inv!Idle, Idle
    <2>3. ASSUME NEW t \in Threads, Inv!decideAvailability(t) PROVE CallInv'
      BY <1>1, <1>2, <2>3, CallDecide DEF LastWordInv
    <2>4. ASSUME NEW t \in Threads, Inv!fireAvailability(t) PROVE CallInv'
      BY <1>1, <1>2, <2>4, CallFire DEF LastWordInv
    <2>5. CASE UNCHANGED <<cb, last, avail, wired, overlap>>
      BY <1>1, <2>5 DEF LastWordInv, CallInv
    <2>6. \/ UNCHANGED <<cb, last, avail, wired, overlap>>
          \/ Inv!onUnavailable
          \/ \E t \in Threads : \/ Inv!onReady(t)
                                \/ Inv!decideAvailability(t)
                                \/ Inv!fireAvailability(t)
      BY InverterSteps
         DEF Inv!loopTop, Inv!updateDeviceAndJson, Inv!publishDevice,
             Inv!updateValuesAndJson, Inv!publishValues,
             Inv!updateEventsAndJson, Inv!publishEvents, Inv!waitInterval,
             Inv!onBusError
    <2>7. QED
      BY <2>1, <2>2, <2>3, <2>4, <2>5, <2>6
  <1>4. FinalOffline'
    <2> SUFFICES ASSUME main \in Gone
                 PROVE  FinalOffline'
      BY <1>1 DEF FinalOffline, Gone
    <2>1. \A t \in Threads : cb[t].at = "idle"
      <3>1. Detached
        BY DEF LifeInv, Detaching, Gone
      <3>2. QED
        BY <3>1 DEF Detached, Idle
    <2>2. last' = last /\ (overlap' = FALSE => overlap = FALSE)
      BY <1>2, <2>1, InverterSteps
         DEF Inv!loopTop, Inv!updateDeviceAndJson, Inv!publishDevice,
             Inv!updateValuesAndJson, Inv!publishValues,
             Inv!updateEventsAndJson, Inv!publishEvents, Inv!waitInterval,
             Inv!onUnavailable, Inv!onBusError, Inv!onReady, Inv!callBack,
             Inv!decideAvailability, Inv!fireAvailability
    <2>3. overlap' \in BOOLEAN
      BY <1>2, InverterSteps
         DEF Inv!loopTop, Inv!updateDeviceAndJson, Inv!publishDevice,
             Inv!updateValuesAndJson, Inv!publishValues,
             Inv!updateEventsAndJson, Inv!publishEvents, Inv!waitInterval,
             Inv!onUnavailable, Inv!onBusError, Inv!onReady, Inv!callBack,
             Inv!decideAvailability, Inv!fireAvailability
    <2>4. QED
      BY <1>1, <1>2, <2>2, <2>3 DEF LastWordInv, FinalOffline
  <1>5. QED
    BY <1>1, <1>3, <1>4 DEF LastWordInv

LEMMA LastWordMeter ==
  ASSUME LastWordInv, LifeInv, MeterStep
  PROVE  LastWordInv'
  <1>1. kind = "fronius" /\ UNCHANGED <<kind, main, overlap>>
    BY MeterSteps DEF OnlyMeter
  <1>2. ASSUME main \in Gone PROVE last' = last
    <2>1. \A t \in Threads : cb[t].at = "idle"
      <3>1. Detached
        BY <1>2 DEF LifeInv, Detaching, Gone
      <3>2. QED
        BY <3>1 DEF Detached, Idle
    <2>2. QED
      BY <2>1, MeterSteps
         DEF Fron!loopTop, Fron!updateDeviceAndJson, Fron!publishDevice,
             Fron!updateValuesAndJson, Fron!publishValues, Fron!waitInterval,
             Fron!onUnavailable, Fron!onBusError, Fron!onReady, Fron!callBack,
             Fron!fireAvailability
  <1>3. QED
    BY <1>1, <1>2 DEF LastWordInv, CallInv, FinalOffline, Gone

LEMMA LastWordEbz ==
  ASSUME LastWordInv, LifeInv, EbzStep
  PROVE  LastWordInv'
  <1>1. kind = "ebz" /\ UNCHANGED <<kind, main, overlap>>
    BY EbzSteps DEF OnlyEbz
  <1>2. ASSUME main \in Gone PROVE last' = last
    <2>1. worker \in {"new", "done"}
      BY <1>2 DEF LifeInv, Detaching, Joined, Gone
    <2>2. QED
      BY <2>1, EbzSteps
         DEF Ebz!loopTop, Ebz!tryConnect, Ebz!announceConnected,
             Ebz!beforeRead, Ebz!readReturns, Ebz!updateDeviceAndJson,
             Ebz!publishDevice, Ebz!updateValuesAndJson, Ebz!publishValues,
             Ebz!disconnect, Ebz!backoff
  <1>3. QED
    BY <1>1, <1>2 DEF LastWordInv, CallInv, FinalOffline, Gone

\* No device is left "connected" on the retained availability topic.
THEOREM LastWordIsOffline == Spec => []FinalOffline
  <1>1. ASSUME Init PROVE LastWordInv
    <2>1. \A t \in Threads : cb[t] = Idle
      BY <1>1 DEF Init, BusInit
    <2>2. last = None /\ avail = None /\ main = "start slaves"
      BY <1>1 DEF Init, MasterInit, Inv!InverterInit
    <2>3. Idle.at # "fire"
      BY DEF Idle
    <2>4. QED
      BY <2>1, <2>2, <2>3 DEF LastWordInv, CallInv, FinalOffline
  <1>2. ASSUME LastWordInv, ConsumerFails \/ SlaveStep \/ UNCHANGED vars
        PROVE  LastWordInv'
    BY <1>2, SlaveSteps
       DEF ConsumerFails, OnlySlave, vars, LastWordInv, CallInv, FinalOffline
  <1>3. (LastWordInv /\ TypeOK /\ WiredInv /\ LifeInv /\ PortInv
         /\ [Next]_vars) => LastWordInv'
    BY <1>2, Steps, StopIsFinal, LastWordMain, LastWordInverter,
       LastWordMeter, LastWordEbz
  <1>4. LastWordInv => FinalOffline
    BY DEF LastWordInv
  <1>5. QED
    BY <1>1, <1>3, <1>4, TypeCorrect, WiredInvariant, LifeInvariant,
       PortInvariant, PTL DEF Spec, SilentSpec
=============================================================================
