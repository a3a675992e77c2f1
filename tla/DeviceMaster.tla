---------------------------- MODULE DeviceMaster ----------------------------
(***************************************************************************)
(* What the device masters of fronius-bridge share: the callbacks main     *)
(* installs after construction (include/meter_master.h and the setters of  *)
(* InverterMaster), the change gate (include/change_gate.h), and what the  *)
(* consumers behind the callbacks were told last.                          *)
(***************************************************************************)
EXTENDS SignalHandler

CONSTANTS
  None,    \* no value yet
  Idents   \* the identities a device may report

VARIABLES
  worker,  \* where the master's thread stands; "new" before it is started
  wired,   \* the callbacks main has installed
  gate,    \* deviceGate_
  seen,    \* the identity the device callback delivered last
  last     \* the state the availability callback delivered last

masterVars == <<worker, wired, gate, seen, last>>

MasterInit ==
  /\ worker = "new"
  /\ wired = {}
  /\ gate = None
  /\ seen = None
  /\ last = None

Availability == {"connected", "disconnected"}

MasterTypeOK ==
  /\ wired \subseteq {"device", "availability"}
  /\ {gate, seen} \subseteq Idents \union {None}
  /\ last \in Availability \union {None}

\* ChangeGate::changed(): does the value differ from the last accepted one?
changed(accepted, value) == accepted # value

\* ChangeGate::hasValue().
hasValue(accepted) == accepted # None

\* An unset callback is skipped.
availabilityCallback(state) ==
  last' = IF "availability" \in wired THEN state ELSE last

setDeviceCallback == wired' = wired \union {"device"}

setAvailabilityCallback == wired' = wired \union {"availability"}
=============================================================================
