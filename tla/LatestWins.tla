----------------------------- MODULE LatestWins -----------------------------
(***************************************************************************)
(* What a telemetry channel with a bounded drop-oldest queue promises its  *)
(* producers: per topic, messages are delivered in the order in which they *)
(* were accepted, none twice, and although older messages may be lost at   *)
(* any time the newest accepted one never is.                              *)
(***************************************************************************)
EXTENDS Naturals

CONSTANT NumTopics

VARIABLES
  newest,     \* number of the message accepted last, 0 if none
  delivered,  \* number of the message delivered last, 0 if none
  pending     \* accepted messages that may still be delivered

vars == <<newest, delivered, pending>>

Init ==
  /\ newest = [t \in 1..NumTopics |-> 0]
  /\ delivered = [t \in 1..NumTopics |-> 0]
  /\ pending = [t \in 1..NumTopics |-> {}]

\* Of the messages in from topic t keeps some, its newest one (unless that is
\* delivered) always; the other topics keep theirs.
Keep(t, from) ==
  /\ pending' = [pending EXCEPT ![t] = pending'[t]]
  /\ pending'[t] \subseteq from
  /\ newest'[t] = delivered'[t] \/ newest'[t] \in pending'[t]

Accept(t) ==
  /\ newest' = [newest EXCEPT ![t] = @ + 1]
  /\ UNCHANGED delivered
  /\ Keep(t, pending[t] \union {newest[t] + 1})

Deliver(t, m) ==
  /\ m > delivered[t]
  /\ delivered' = [delivered EXCEPT ![t] = m]
  /\ UNCHANGED newest
  /\ Keep(t, {n \in pending[t] : n > m})

Lose(t) ==
  /\ UNCHANGED <<newest, delivered>>
  /\ Keep(t, pending[t])

Next ==
  \E t \in 1..NumTopics :
    \/ Accept(t)
    \/ \E m \in pending[t] : Deliver(t, m)
    \/ Lose(t)

Spec == Init /\ [][Next]_vars
=============================================================================
