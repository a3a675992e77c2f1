---------------------------- MODULE FroniusMeter ----------------------------
(***************************************************************************)
(* The Modbus meter master of fronius-bridge (src/fronius_meter.cpp). It   *)
(* differs from InverterMaster in what it publishes: no events, and every  *)
(* availability it is told, without a gate and so in one step.             *)
(***************************************************************************)
EXTENDS ModbusMaster

\* The state callbacks store connected_ ...
callBack(t, state) ==
  /\ connected' = (state = "connected")
  /\ cb' = [cb EXCEPT ![t] = [at |-> "fire", state |-> state]]
  /\ UNCHANGED <<handlerVars, masterVars, result>>

onReady(t) == deviceReady(t) /\ callBack(t, "connected")

onUnavailable == deviceUnavailable /\ callBack("bus", "disconnected")

\* ... and call the consumer.
fireAvailability(t) ==
  /\ cb[t].at = "fire"
  /\ availabilityCallback(cb[t].state)
  /\ cb' = [cb EXCEPT ![t] = Idle]
  /\ UNCHANGED <<handlerVars, worker, wired, gate, seen, dev, connected, result>>

onBusError ==
  /\ dev \notin {"off", "gone"}
  /\ shutdown(TRUE)
  /\ UNCHANGED <<masterVars, busVars>>

\* By severity: fatal, transient, shutdown.
onDeviceError ==
  \/ /\ shutdown(TRUE)
     /\ UNCHANGED <<connected, dev>>
  \/ /\ connected' = FALSE
     /\ scheduleDeviceRetry
     /\ UNCHANGED handlerVars
  \/ /\ ~running
     /\ connected' = FALSE
     /\ UNCHANGED <<handlerVars, dev>>

-----------------------------------------------------------------------------

loopTop ==
  /\ worker = "top"
  /\ worker' = IF ~running THEN "done" ELSE IF connected THEN "device" ELSE "wait"
  /\ UNCHANGED <<handlerVars, wired, gate, seen, last, busVars>>

updateDeviceAndJson ==
  /\ worker = "device" /\ result = None
  /\ \/ /\ running => ~hasValue(gate)
        /\ result' = "failed"
        /\ UNCHANGED gate
     \/ /\ running /\ hasValue(gate)
        /\ result' = "same"
        /\ UNCHANGED gate
     \/ /\ running /\ ~hasValue(gate)
        /\ gate' \in Idents
        /\ result' = "new"
  /\ UNCHANGED <<handlerVars, worker, wired, seen, last, dev, connected, cb>>

publishDevice ==
  /\ worker = "device" /\ result # None
  /\ connected' = (connected /\ result # "failed")
  /\ seen' = IF result = "new" /\ "device" \in wired /\ running THEN gate
             ELSE seen
  /\ worker' = "values"
  /\ result' = None
  /\ UNCHANGED <<handlerVars, wired, gate, last, dev, cb>>

\* A failed register read reports through the device error callback, also
\* when it began before a stop and ends after it.
updateValuesAndJson ==
  /\ worker = "values" /\ result = None
  /\ \/ /\ result' = "failed"
        /\ UNCHANGED <<handlerVars, connected, dev>>
     \/ /\ running
        /\ result' = "new"
        /\ UNCHANGED <<handlerVars, connected, dev>>
     \/ /\ result' = "failed"
        /\ onDeviceError
  /\ UNCHANGED <<masterVars, cb>>

publishValues ==
  /\ worker = "values" /\ result # None
  /\ connected' = (connected /\ result # "failed")
  /\ worker' = "wait"
  /\ result' = None
  /\ UNCHANGED <<handlerVars, wired, gate, seen, last, dev, cb>>

waitInterval ==
  /\ worker = "wait"
  /\ worker' = "top"
  /\ UNCHANGED <<handlerVars, wired, gate, seen, last, busVars>>

-----------------------------------------------------------------------------

runLoop ==
  \/ loopTop
  \/ updateDeviceAndJson \/ publishDevice
  \/ updateValuesAndJson \/ publishValues
  \/ waitInterval

busReports == onUnavailable \/ onBusError \/ \E t \in Threads : onReady(t)

\* The destructor's last publication.
finalAvailability ==
  /\ availabilityCallback("disconnected")
  /\ UNCHANGED <<handlerVars, worker, wired, gate, seen, busVars>>
=============================================================================
