---------------------------- MODULE ModbusMaster ----------------------------
(***************************************************************************)
(* A Modbus device on a FroniusBus of libfronius, modelled from the        *)
(* callbacks and calls InverterMaster and FroniusMeter use: the bus        *)
(* validates the device once it is connected and calls "ready", calls      *)
(* "unavailable" when it loses it, and a retry thread of its own           *)
(* revalidates a device after scheduleDeviceRetry().                       *)
(***************************************************************************)
EXTENDS DeviceMaster

VARIABLES
  dev,        \* the bus's view: "off" before connect(), "down", "ready",
              \* "retry", and "gone" once unregistered
  connected,  \* connected_
  result,     \* the outcome of the master's update call in progress
  cb          \* the callback each library thread is executing

Threads == {"bus", "retry"}

Idle == [at |-> "idle", state |-> None]

busVars == <<dev, connected, result, cb>>

BusInit ==
  /\ dev = "off"
  /\ connected = FALSE
  /\ result = None
  /\ cb = [t \in Threads |-> Idle]

BusTypeOK ==
  /\ dev \in {"off", "down", "ready", "retry", "gone"}
  /\ connected \in BOOLEAN
  /\ result \in {None, "new", "same", "failed"}
  /\ cb \in [Threads -> [at : {"decide", "fire"}, state : Availability]
                        \union {Idle}]

\* The bus thread validates a device after the bus has connected, the retry
\* thread one whose retry was scheduled.
deviceReady(t) ==
  /\ cb[t] = Idle
  /\ dev = IF t = "bus" THEN "down" ELSE "retry"
  /\ dev' = "ready"

deviceUnavailable ==
  /\ cb["bus"] = Idle
  /\ dev \in {"ready", "retry"}
  /\ dev' = "down"

scheduleDeviceRetry == dev' = IF dev = "ready" THEN "retry" ELSE dev

connectBus == dev' = IF dev = "off" THEN "down" ELSE dev

\* No callback starts after unregisterDevice(); Detached is what it and
\* removeBusCallback() wait for.
unregisterDevice == dev' = "gone"

Detached == \A t \in Threads : cb[t] = Idle
=============================================================================
