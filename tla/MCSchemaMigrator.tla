-------------------------- MODULE MCSchemaMigrator --------------------------
(* Instances of SchemaMigrator for TLC. *)
EXTENDS SchemaMigrator, TLC

CONSTANTS old, new, pub, primo

MCProcs == {old, new}
MCDevices == {primo}

\* Two releases: the newer one has a further migration for every schema.
MCEmbedded ==
  (old :> [s \in {pub, primo} |-> {1, 2}]) @@
  (new :> [s \in {pub, primo} |-> {1, 2, 3}])
=============================================================================
