--------------------------- MODULE InverterMaster ---------------------------
(***************************************************************************)
(* The inverter master of fronius-bridge (src/inverter_master.cpp): its    *)
(* poll loop on a thread of its own, and the callbacks the bus threads run *)
(* against it. A step ends where another thread may see or change what it  *)
(* shares: connected_, availabilityGate_, the stop flag.                   *)
(*                                                                         *)
(* Values are abstracted to their being read; events to a member of        *)
(* Events. A register read that fails reports through the device error     *)
(* callback; a getter that cannot decode what was read only returns.       *)
(***************************************************************************)
EXTENDS ModbusMaster

CONSTANT Events

VARIABLES
  avail,    \* availabilityGate_
  evt,      \* eventsGate_
  seenEvt,  \* the events the event callback delivered last
  overlap   \* history: two threads were inside publishAvailability at once

inverterVars == <<avail, evt, seenEvt, overlap>>

InverterInit ==
  /\ avail = None
  /\ evt = None
  /\ seenEvt = None
  /\ overlap = FALSE

InverterTypeOK ==
  /\ avail \in Availability \union {None}
  /\ {evt, seenEvt} \subseteq Events \union {None}
  /\ overlap \in BOOLEAN

-----------------------------------------------------------------------------
\* Callbacks of the library threads.

\* The bodies of both state callbacks: store connected_, enter
\* publishAvailability.
callBack(t, state) ==
  /\ connected' = (state = "connected")
  /\ cb' = [cb EXCEPT ![t] = [at |-> "decide", state |-> state]]
  /\ overlap' = (overlap \/ \E u \in Threads \ {t} : cb[u] # Idle)
  /\ UNCHANGED <<handlerVars, masterVars, result, avail, evt, seenEvt>>

onReady(t) == deviceReady(t) /\ callBack(t, "connected")

onUnavailable == deviceUnavailable /\ callBack("bus", "disconnected")

\* publishAvailability decides under cbMutex_ ...
decideAvailability(t) ==
  /\ cb[t].at = "decide"
  /\ IF "availability" \in wired /\ changed(avail, cb[t].state)
     THEN /\ avail' = cb[t].state
          /\ cb' = [cb EXCEPT ![t].at = "fire"]
     ELSE /\ cb' = [cb EXCEPT ![t] = Idle]
          /\ UNCHANGED avail
  /\ UNCHANGED <<handlerVars, masterVars, dev, connected, result, evt,
                 seenEvt, overlap>>

\* ... and fires outside it.
fireAvailability(t) ==
  /\ cb[t].at = "fire"
  /\ availabilityCallback(cb[t].state)
  /\ cb' = [cb EXCEPT ![t] = Idle]
  /\ UNCHANGED <<handlerVars, worker, wired, gate, seen, dev, connected,
                 result, inverterVars>>

onBusError ==
  /\ dev \notin {"off", "gone"}
  /\ shutdown(TRUE)
  /\ UNCHANGED <<masterVars, busVars, inverterVars>>

\* The device error callback, by severity: fatal, transient, shutdown.
onDeviceError ==
  \/ /\ shutdown(TRUE)
     /\ UNCHANGED <<connected, dev>>
  \/ /\ connected' = FALSE
     /\ scheduleDeviceRetry
     /\ UNCHANGED handlerVars
  \/ /\ ~running
     /\ connected' = FALSE
     /\ UNCHANGED <<handlerVars, dev>>

-----------------------------------------------------------------------------
\* The poll loop.

loopTop ==
  /\ worker = "top"
  /\ worker' = IF ~running THEN "done" ELSE IF connected THEN "device" ELSE "wait"
  /\ UNCHANGED <<handlerVars, wired, gate, seen, last, busVars, inverterVars>>

\* The gate answers after the first read; the getters may fail.
updateDeviceAndJson ==
  /\ worker = "device" /\ result = None
  /\ \/ /\ ~running
        /\ result' = "failed"
        /\ UNCHANGED gate
     \/ /\ running /\ hasValue(gate)
        /\ result' = "same"
        /\ UNCHANGED gate
     \/ /\ running /\ ~hasValue(gate)
        /\ gate' \in Idents
        /\ result' = "new"
     \/ /\ running /\ ~hasValue(gate)
        /\ result' = "failed"
        /\ UNCHANGED gate
  /\ UNCHANGED <<handlerVars, worker, wired, seen, last, dev, connected, cb,
                 inverterVars>>

\* The identity reaches the consumers only if the bridge still runs; the loop
\* goes on to the values after a failure too.
publishDevice ==
  /\ worker = "device" /\ result # None
  /\ connected' = (connected /\ result # "failed")
  /\ seen' = IF result = "new" /\ "device" \in wired /\ running THEN gate
             ELSE seen
  /\ worker' = "values"
  /\ result' = None
  /\ UNCHANGED <<handlerVars, wired, gate, last, dev, cb, inverterVars>>

\* A read that began before a stop may fail after it.
updateValuesAndJson ==
  /\ worker = "values" /\ result = None
  /\ \/ /\ ~running
        /\ result' = "failed"
        /\ UNCHANGED <<handlerVars, connected, dev>>
     \/ /\ running
        /\ result' \in {"new", "failed"}
        /\ UNCHANGED <<handlerVars, connected, dev>>
     \/ /\ result' = "failed"
        /\ onDeviceError
  /\ UNCHANGED <<masterVars, cb, inverterVars>>

publishValues ==
  /\ worker = "values" /\ result # None
  /\ connected' = (connected /\ result # "failed")
  /\ worker' = "events"
  /\ result' = None
  /\ UNCHANGED <<handlerVars, wired, gate, seen, last, dev, cb, inverterVars>>

\* The gate takes the new snapshot before it is known to be published.
updateEventsAndJson ==
  /\ worker = "events" /\ result = None
  /\ \/ /\ result' = "failed"
        /\ UNCHANGED evt
     \/ /\ running
        /\ evt' \in Events
        /\ result' = IF changed(evt, evt') THEN "new" ELSE "same"
  /\ UNCHANGED <<handlerVars, masterVars, dev, connected, cb, avail, seenEvt,
                 overlap>>

publishEvents ==
  /\ worker = "events" /\ result # None
  /\ connected' = (connected /\ result # "failed")
  /\ seenEvt' = IF result = "new" /\ running THEN evt ELSE seenEvt
  /\ worker' = "wait"
  /\ result' = None
  /\ UNCHANGED <<handlerVars, wired, gate, seen, last, dev, cb, avail, evt,
                 overlap>>

\* The wait between two polls is timed: it ends, notified or not.
waitInterval ==
  /\ worker = "wait"
  /\ worker' = "top"
  /\ UNCHANGED <<handlerVars, wired, gate, seen, last, busVars, inverterVars>>

-----------------------------------------------------------------------------

runLoop ==
  \/ loopTop
  \/ updateDeviceAndJson \/ publishDevice
  \/ updateValuesAndJson \/ publishValues
  \/ updateEventsAndJson \/ publishEvents
  \/ waitInterval

publishAvailability(t) == decideAvailability(t) \/ fireAvailability(t)

busReports == onUnavailable \/ onBusError \/ \E t \in Threads : onReady(t)

\* The destructor's last publication, when no other thread is left.
finalAvailability ==
  /\ IF "availability" \in wired /\ changed(avail, "disconnected")
     THEN avail' = "disconnected" /\ availabilityCallback("disconnected")
     ELSE UNCHANGED <<avail, last>>
  /\ UNCHANGED <<handlerVars, worker, wired, gate, seen, busVars, evt,
                 seenEvt, overlap>>
=============================================================================
