-------------------------- MODULE MCPostgresClient --------------------------
(* Instances of PostgresClient for TLC. *)
EXTENDS PostgresClient

CONSTANTS primo, grid, gone

\* A hybrid inverter and a meter: they differ in how values are written.
MCDevices == {primo, grid}
MCHybrid == {primo}
=============================================================================
