--------------------------- MODULE SchemaUpgrade ---------------------------
(***************************************************************************)
(* What migrating a schema promises: the versions recorded for a schema    *)
(* change only by one whole upgrade at a time, from whatever an earlier    *)
(* release left to everything that a newer binary embeds.                  *)
(***************************************************************************)
EXTENDS Naturals

CONSTANTS Procs, Schemas, Embedded

VARIABLE applied  \* the recorded versions of every schema

Init == applied = [s \in Schemas |-> {}]

Upgrade(p, s) ==
  /\ \A v \in applied[s] : \E w \in Embedded[p][s] : w > v
  /\ applied' = [applied EXCEPT ![s] = Embedded[p][s]]

Next == \E p \in Procs, s \in Schemas : Upgrade(p, s)

Spec == Init /\ [][Next]_applied
=============================================================================
