--------------------------- MODULE SchemaMigrator ---------------------------
(***************************************************************************)
(* The schema migrator of fronius-bridge (src/schema_migrator.cpp) on a    *)
(* database that several bridge processes share, possibly of different     *)
(* releases: migrate() and verify() run in one transaction each, under one *)
(* advisory lock, and a process may crash, lose its link or be refused at  *)
(* any statement.                                                          *)
(*                                                                         *)
(* A migration is its version; a schema is the set of versions recorded in *)
(* its schema_version table, empty without one. What a transaction has     *)
(* applied is invisible to the others until it commits.                    *)
(***************************************************************************)
EXTENDS Naturals, FiniteSets

CONSTANTS
  Procs,      \* the bridge processes
  Public,     \* the shared schema
  Devices,    \* the device schemas
  Embedded,   \* the migrations each process's binary embeds for each schema
  MaxFaults   \* bound: crashes, lost links and refused statements

Schemas == {Public} \union Devices

\* validateMigrationList() rejects an empty list, so every list has a last
\* version; releases only ever append migrations.
ASSUME MigrationsAssumption ==
  /\ Public \notin Devices
  /\ Embedded \in [Procs -> [Schemas -> SUBSET (Nat \ {0})]]
  /\ \A p \in Procs, s \in Schemas :
       \E v \in Embedded[p][s] : \A w \in Embedded[p][s] : w <= v
  /\ \A p, q \in Procs, s \in Schemas :
       \/ Embedded[p][s] = {v \in Embedded[q][s] :
                              \E w \in Embedded[p][s] : v <= w}
       \/ Embedded[q][s] = {v \in Embedded[p][s] :
                              \E w \in Embedded[q][s] : v <= w}
  /\ MaxFaults \in Nat

VARIABLES
  db,           \* database: the committed versions of every schema
  lock,         \* database: who holds the advisory lock
  autoMigrate,  \* cfg_.autoMigrate of every process: migrate() or verify()
  pc,           \* where each process stands
  schema,       \* the schema a process is working on
  current,      \* the version its transaction has read
  staged,       \* the migrations its transaction has applied
  ready,        \* the schemas for which its call has succeeded
  faults

vars == <<db, lock, autoMigrate, pc, schema, current, staged, ready, faults>>

Init ==
  /\ db = [s \in Schemas |-> {}]
  /\ lock = {}
  /\ autoMigrate \in [Procs -> BOOLEAN]
  /\ pc = [p \in Procs |-> "idle"]
  /\ schema = [p \in Procs |-> Public]
  /\ current = [p \in Procs |-> 0]
  /\ staged = [p \in Procs |-> {}]
  /\ ready = [p \in Procs |-> {}]
  /\ faults = 0

-----------------------------------------------------------------------------

\* MAX(version), 0 for none.
Highest(versions) ==
  IF versions = {} THEN 0
  ELSE CHOOSE v \in versions : \A w \in versions : w <= v

highestEmbedded(p) == Highest(Embedded[p][schema[p]])

\* The migrations migrate() still has to apply, in ascending order.
Remaining(p) ==
  {v \in Embedded[p][schema[p]] : v > current[p] /\ v \notin staged[p]}

\* currentVersion(): search_path puts public behind the schema, so a schema
\* without a schema_version table shows public's.  migrate() has created the
\* table before.
currentVersion(p) ==
  IF db[schema[p]] = {} /\ ~autoMigrate[p] THEN Highest(db[Public])
  ELSE Highest(db[schema[p]])

\* The end of p's transaction releases the advisory lock.
EndTransaction(p) ==
  /\ lock' = lock \ {p}
  /\ staged' = [staged EXCEPT ![p] = {}]
  /\ current' = [current EXCEPT ![p] = 0]

\* The worker calls migrate() or verify() for public when it has connected
\* and for a device at its first event: validate the list and BEGIN.
Call(p, s) ==
  /\ pc[p] = "idle"
  /\ s \notin ready[p]
  /\ s # Public => Public \in ready[p]
  /\ schema' = [schema EXCEPT ![p] = s]
  /\ pc' = [pc EXCEPT ![p] = "lock"]
  /\ UNCHANGED <<db, lock, autoMigrate, current, staged, ready, faults>>

\* Fault (no specification uses it): the lock is taken without waiting.
LockWithoutWaitBug(p) ==
  /\ pc[p] = "lock"
  /\ lock' = lock \union {p}
  /\ pc' = [pc EXCEPT ![p] = "prepare"]
  /\ UNCHANGED <<db, autoMigrate, schema, current, staged, ready, faults>>

acquireAdvisoryLock(p) ==
  /\ pc[p] = "lock"
  /\ lock = {}
  /\ lock' = {p}
  /\ pc' = [pc EXCEPT ![p] = "prepare"]
  /\ UNCHANGED <<db, autoMigrate, schema, current, staged, ready, faults>>

\* The search path, and for migrate() the schema and its schema_version
\* table: all of it only in this transaction.
Prepare(p) ==
  /\ pc[p] = "prepare"
  /\ pc' = [pc EXCEPT ![p] = "read"]
  /\ UNCHANGED <<db, lock, autoMigrate, schema, current, staged, ready, faults>>

\* The version decides whether there is anything to apply.
Read(p) ==
  /\ pc[p] = "read"
  /\ current' = [current EXCEPT ![p] = currentVersion(p)]
  /\ pc' = [pc EXCEPT ![p] =
       IF autoMigrate[p] /\ currentVersion(p) < highestEmbedded(p)
       THEN "apply" ELSE "commit"]
  /\ UNCHANGED <<db, lock, autoMigrate, schema, staged, ready, faults>>

\* Fault: every migration is committed by itself.
AutocommitBug(p) ==
  /\ pc[p] = "apply"
  /\ \E v \in Remaining(p) :
       /\ \A w \in Remaining(p) : v <= w
       /\ staged' = [staged EXCEPT ![p] = @ \union {v}]
       /\ db' = [db EXCEPT ![schema[p]] = @ \union {v}]
  /\ pc' = [pc EXCEPT ![p] =
       IF Cardinality(Remaining(p)) = 1 THEN "commit" ELSE "apply"]
  /\ UNCHANGED <<lock, autoMigrate, schema, current, ready, faults>>

\* applyOne(): the next migration and its row.
applyOne(p) ==
  /\ pc[p] = "apply"
  /\ \E v \in Remaining(p) :
       /\ \A w \in Remaining(p) : v <= w
       /\ staged' = [staged EXCEPT ![p] = @ \union {v}]
  /\ pc' = [pc EXCEPT ![p] =
       IF Cardinality(Remaining(p)) = 1 THEN "commit" ELSE "apply"]
  /\ UNCHANGED <<db, lock, autoMigrate, schema, current, ready, faults>>

\* Fault: verify() does not compare the versions.
CommitUncheckedBug(p) ==
  /\ pc[p] = "commit"
  /\ db' = [db EXCEPT ![schema[p]] = @ \union staged[p]]
  /\ EndTransaction(p)
  /\ pc' = [pc EXCEPT ![p] = "idle"]
  /\ ready' = [ready EXCEPT ![p] = @ \union {schema[p]}]
  /\ UNCHANGED <<autoMigrate, schema, faults>>

\* COMMIT; then verify() reports a version below the binary's, which is fatal.
commit(p) ==
  /\ pc[p] = "commit"
  /\ db' = [db EXCEPT ![schema[p]] = @ \union staged[p]]
  /\ EndTransaction(p)
  /\ \/ /\ autoMigrate[p] \/ current[p] >= highestEmbedded(p)
        /\ pc' = [pc EXCEPT ![p] = "idle"]
        /\ ready' = [ready EXCEPT ![p] = @ \union {schema[p]}]
     \/ /\ ~autoMigrate[p] /\ current[p] < highestEmbedded(p)
        /\ pc' = [pc EXCEPT ![p] = "behind"]
        /\ UNCHANGED ready
  /\ UNCHANGED <<autoMigrate, schema, faults>>

\* Fault: the lock is not tied to the transaction.
LockOutlivesTransactionBug(p) ==
  /\ pc[p] \in {"lock", "prepare", "read", "apply", "commit"}
  /\ faults < MaxFaults
  /\ faults' = faults + 1
  /\ staged' = [staged EXCEPT ![p] = {}]
  /\ current' = [current EXCEPT ![p] = 0]
  /\ pc' = [pc EXCEPT ![p] = "idle"]
  /\ UNCHANGED <<db, lock, autoMigrate, schema, ready>>

\* The process crashes and is restarted, the link is lost and the worker
\* reconnects, or the server refuses a statement for good: the transaction is
\* rolled back, unless it was the COMMIT whose answer got lost.
Fail(p) ==
  /\ pc[p] \in {"lock", "prepare", "read", "apply", "commit"}
  /\ faults < MaxFaults
  /\ faults' = faults + 1
  /\ EndTransaction(p)
  /\ db' \in {db} \union
       (IF pc[p] = "commit" THEN {[db EXCEPT ![schema[p]] = @ \union staged[p]]}
        ELSE {})
  /\ \/ /\ pc' = [pc EXCEPT ![p] = "idle"]
        /\ ready' \in {ready, [ready EXCEPT ![p] = {}]}
     \/ /\ pc' = [pc EXCEPT ![p] = "refused"]
        /\ UNCHANGED ready
  /\ UNCHANGED <<autoMigrate, schema>>

\* A process stopped by a fatal error is restarted by its operator.
Restart(p) ==
  /\ pc[p] \in {"behind", "refused"}
  /\ pc' = [pc EXCEPT ![p] = "idle"]
  /\ ready' = [ready EXCEPT ![p] = {}]
  /\ UNCHANGED <<db, lock, autoMigrate, schema, current, staged, faults>>

\* The statements of a transaction that has the lock.
Step(p) ==
  Prepare(p) \/ Read(p) \/ applyOne(p) \/ commit(p)

Next ==
  \E p \in Procs :
    \/ \E s \in Schemas : Call(p, s)
    \/ acquireAdvisoryLock(p)
    \/ Step(p)
    \/ Fail(p)
    \/ Restart(p)

\* The database executes the statements of every process, and grants the
\* lock to each waiter (its lock queue is fair).
Fairness ==
  \A p \in Procs : WF_vars(Step(p)) /\ SF_vars(acquireAdvisoryLock(p))

Spec == Init /\ [][Next]_vars /\ Fairness

-----------------------------------------------------------------------------

\* The types, with the one bound the database owes the migrator: a single
\* holder of the advisory lock.
TypeOK ==
  /\ db \in [Schemas -> SUBSET Nat]
  /\ lock \subseteq Procs /\ Cardinality(lock) <= 1
  /\ autoMigrate \in [Procs -> BOOLEAN]
  /\ pc \in [Procs -> {"idle", "lock", "prepare", "read", "apply", "commit",
                       "behind", "refused"}]
  /\ schema \in [Procs -> Schemas]
  /\ current \in [Procs -> Nat]
  /\ staged \in [Procs -> SUBSET Nat]
  /\ ready \in [Procs -> SUBSET Schemas]
  /\ faults \in Nat

\* Processes that start together never stop one another: the advisory lock
\* keeps a process from applying a migration that another has committed since
\* it read the version, which the primary key of schema_version would turn
\* into a fatal error.
NoConflict ==
  \A p \in Procs :
    pc[p] \in {"apply", "commit"} =>
      (Remaining(p) \union staged[p]) \intersect db[schema[p]] = {}

\* Once a process's migrate() has succeeded (or its verify() of public) the
\* schema has everything the binary relies on, whatever older or newer
\* binaries do to it before, meanwhile and afterwards.
ReadyIsCurrent ==
  \A p \in Procs : \A s \in ready[p] :
    autoMigrate[p] \/ s = Public => Embedded[p][s] \subseteq db[s]

Upgrades == INSTANCE SchemaUpgrade WITH applied <- db

\* Crashes, lost links and racing binaries never leave a schema between two
\* versions: what is committed changes by whole upgrades only.
ImplementsUpgrade == Upgrades!Spec

\* A process that waits for the advisory lock gets it or is told off,
\* whichever way the holder's transaction ends.
LockGranted ==
  \A p \in Procs : pc[p] = "lock" ~> pc[p] # "lock"

\* include/schema_migrator.h:80: verify() "Fails if the schema is missing or
\* behind".
VerifyRejectsMissing ==
  \A p \in Procs : \A s \in ready[p] :
    ~autoMigrate[p] => Embedded[p][s] \subseteq db[s]
=============================================================================
