------------------------------ MODULE EasyMeter ------------------------------
(***************************************************************************)
(* The EBZ Easymeter reader of fronius-bridge (src/easy_meter.cpp): one    *)
(* thread that opens the serial line, collects a telegram, parses the      *)
(* identity and the values from it and publishes both. The thread starts   *)
(* in the constructor, before main has installed any callback.             *)
(*                                                                         *)
(* A telegram is the identity it carries; every read may return part of    *)
(* one, fail, or not return for as long as the line is silent: with        *)
(* VMIN = BUFFER_SIZE the VTIME timer starts at the first byte.            *)
(***************************************************************************)
EXTENDS DeviceMaster

VARIABLES
  port,    \* serialPort_ is open
  parsed   \* device_, the identity parsed from the last telegram

easyVars == <<port, parsed>>

EasyInit ==
  /\ port = FALSE
  /\ parsed = None

EasyTypeOK ==
  /\ port \in BOOLEAN
  /\ parsed \in Idents \union {None}

WorkerSteps ==
  {"new", "top", "connect", "announce", "read", "blocked", "device",
   "publish device", "values", "publish values", "hangup", "backoff", "done"}

goto(step) == worker' = step

\* handleResult() on an error: fatal ends the loop and the bridge, transient
\* closes the line and starts over.
handleResult ==
  \/ /\ shutdown(TRUE)
     /\ goto("done")
  \/ /\ goto("hangup")
     /\ UNCHANGED handlerVars

-----------------------------------------------------------------------------

loopTop ==
  /\ worker = "top"
  /\ goto(IF running THEN "connect" ELSE "done")
  /\ UNCHANGED <<handlerVars, wired, gate, seen, last, easyVars>>

\* Every failure after open() closes the line again.
tryConnect ==
  /\ worker = "connect"
  /\ \/ /\ ~running /\ goto("done")
        /\ UNCHANGED <<handlerVars, port>>
     \/ /\ running /\ port /\ goto("read")
        /\ UNCHANGED <<handlerVars, port>>
     \/ /\ running /\ ~port /\ goto("announce")
        /\ port' = TRUE
        /\ UNCHANGED handlerVars
     \/ /\ running /\ ~port /\ handleResult
        /\ UNCHANGED port
  /\ UNCHANGED <<wired, gate, seen, last, parsed>>

\* The end of tryConnect() reads the callback without cbMutex_.
announceConnected ==
  /\ worker = "announce"
  /\ availabilityCallback("connected")
  /\ goto("read")
  /\ UNCHANGED <<handlerVars, wired, gate, seen, easyVars>>

\* readTelegram() looks at the stop flag before every read() ...
beforeRead ==
  /\ worker = "read"
  /\ goto(IF running THEN "blocked" ELSE "done")
  /\ UNCHANGED <<handlerVars, wired, gate, seen, last, easyVars>>

\* ... which returns part of a telegram, its end, or an error; a signal that
\* this thread happens to take interrupts it once the flag is cleared.
readReturns ==
  /\ worker = "blocked"
  /\ \/ goto("read") /\ UNCHANGED handlerVars
     \/ goto("device") /\ UNCHANGED handlerVars
     \/ ~running /\ goto("done") /\ UNCHANGED handlerVars
     \/ handleResult
  /\ UNCHANGED <<wired, gate, seen, last, easyVars>>

\* A malformed line is EPROTO, which is transient.
updateDeviceAndJson ==
  /\ worker = "device"
  /\ \/ /\ goto(IF running THEN "hangup" ELSE "done")
        /\ UNCHANGED parsed
     \/ /\ running
        /\ parsed' \in Idents
        /\ goto("publish device")
  /\ UNCHANGED <<handlerVars, wired, gate, seen, last, port>>

\* Fault: the identity counts as published only when a callback is set, and
\* is otherwise published with every telegram.
PublishUngatedBug ==
  /\ worker = "publish device"
  /\ seen' = IF "device" \in wired /\ running THEN parsed ELSE seen
  /\ goto("values")
  /\ UNCHANGED <<handlerVars, wired, gate, last, easyVars>>

\* The gate takes the identity whether or not a callback is set.
publishDevice ==
  /\ worker = "publish device"
  /\ IF running /\ changed(gate, parsed)
     THEN /\ gate' = parsed
          /\ seen' = IF "device" \in wired THEN parsed ELSE seen
     ELSE UNCHANGED <<gate, seen>>
  /\ goto("values")
  /\ UNCHANGED <<handlerVars, wired, last, easyVars>>

updateValuesAndJson ==
  /\ worker = "values"
  /\ \/ goto(IF running THEN "hangup" ELSE "done")
     \/ running /\ goto("publish values")
  /\ UNCHANGED <<handlerVars, wired, gate, seen, last, easyVars>>

publishValues ==
  /\ worker = "publish values"
  /\ goto("top")
  /\ UNCHANGED <<handlerVars, wired, gate, seen, last, easyVars>>

\* disconnect() also publishes without cbMutex_, and only for an open line.
closePort ==
  /\ IF port THEN availabilityCallback("disconnected") ELSE UNCHANGED last
  /\ port' = FALSE

\* Fault: the line is closed and nobody told.
CloseSilentlyBug ==
  /\ worker = "hangup"
  /\ port' = FALSE
  /\ goto("backoff")
  /\ UNCHANGED <<handlerVars, wired, gate, seen, last, parsed>>

disconnect ==
  /\ worker = "hangup"
  /\ closePort
  /\ goto("backoff")
  /\ UNCHANGED <<handlerVars, wired, gate, seen, parsed>>

\* The second disconnect() waits is timed.
backoff ==
  /\ worker = "backoff"
  /\ goto("top")
  /\ UNCHANGED <<handlerVars, wired, gate, seen, last, easyVars>>

-----------------------------------------------------------------------------

\* The steps of runLoop() that do not depend on the meter sending anything.
runLoop ==
  \/ loopTop \/ tryConnect \/ announceConnected \/ beforeRead
  \/ updateDeviceAndJson \/ publishDevice
  \/ updateValuesAndJson \/ publishValues
  \/ disconnect \/ backoff

\* The destructor's disconnect(), after the join.
finalDisconnect ==
  /\ closePort
  /\ UNCHANGED <<handlerVars, worker, wired, gate, seen, parsed>>
=============================================================================
