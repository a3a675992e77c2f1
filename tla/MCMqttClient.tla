---------------------------- MODULE MCMqttClient ----------------------------
(* Instances of MqttClient for TLC. *)
EXTENDS MqttClient, TLC

CONSTANTS on, off

\* Two payloads suffice: a publish either repeats the last one or does not.
MCPayloads == {on, off}
MCHash == (on :> 1) @@ (off :> 2)

\* One topic overflows repeatedly while the worker publishes; the other makes
\* its pass go on.
MCMaxMessages == <<4, 1>>

\* A single topic, for the runs that look for one interleaving.
MCOneTopic == <<3>>
=============================================================================
