------------------------ MODULE SchemaMigratorProofs ------------------------
(***************************************************************************)
(* Proofs about SchemaMigrator for every number of processes, schemas and  *)
(* failures, and every family of releases that only append migrations.     *)
(***************************************************************************)
EXTENDS SchemaMigrator, FiniteSetTheorems, TLAPS

\* The states of a transaction that has the advisory lock.
Locked == {"prepare", "read", "apply", "commit"}

\* The advisory lock has one holder, and only its holder is past the lock.
LockInv ==
  /\ \A p, q \in lock : p = q
  /\ \A p \in Procs : pc[p] \in Locked <=> p \in lock

\* A schema is as some release left it.
WholeInv ==
  \A s \in Schemas :
    db[s] = {} \/ \E q \in Procs : db[s] = Embedded[q][s]

\* What a transaction has read is still what is committed, and what it has
\* staged is the beginning of what was missing then.
TransactionInv ==
  \A p \in Procs :
    /\ pc[p] \notin {"apply", "commit"} => staged[p] = {}
    /\ pc[p] \in {"apply", "commit"} => current[p] = currentVersion(p)
    /\ pc[p] = "apply" => autoMigrate[p]
    /\ \A v \in staged[p] :
         /\ v \in Embedded[p][schema[p]] /\ v > current[p]
         /\ autoMigrate[p]
    /\ pc[p] = "commit" /\ autoMigrate[p] => Remaining(p) = {}

MigratorInv ==
  TypeOK /\ LockInv /\ WholeInv /\ TransactionInv /\ ReadyIsCurrent

-----------------------------------------------------------------------------
(* Versions.                                                               *)

\* MAX(version) is the greatest version of a set that has one.
LEMMA HighestIsMax ==
  ASSUME NEW versions \in SUBSET Nat,
         \E v \in versions : \A w \in versions : w <= v
  PROVE  /\ Highest(versions) \in versions
         /\ \A w \in versions : w <= Highest(versions)
  BY DEF Highest

LEMMA EmbeddedType ==
  ASSUME NEW p \in Procs, NEW s \in Schemas
  PROVE  /\ Embedded[p][s] \in SUBSET (Nat \ {0})
         /\ \E v \in Embedded[p][s] : \A w \in Embedded[p][s] : w <= v
  BY MigrationsAssumption

\* The last version a binary embeds.
LEMMA LastEmbedded ==
  ASSUME NEW p \in Procs, NEW s \in Schemas
  PROVE  /\ Highest(Embedded[p][s]) \in Embedded[p][s]
         /\ Highest(Embedded[p][s]) \in Nat \ {0}
         /\ \A w \in Embedded[p][s] : w <= Highest(Embedded[p][s])
  <1>1. Embedded[p][s] \in SUBSET Nat
    BY EmbeddedType
  <1>2. QED
    BY <1>1, EmbeddedType, HighestIsMax

\* MAX(version) of a schema as some release left it.
LEMMA HighestCommitted ==
  ASSUME TypeOK, WholeInv, NEW s \in Schemas
  PROVE  /\ Highest(db[s]) \in Nat
         /\ \A v \in db[s] : v <= Highest(db[s])
  <1>1. CASE db[s] = {}
    BY <1>1 DEF Highest
  <1>2. CASE db[s] # {}
    <2>1. PICK q \in Procs : db[s] = Embedded[q][s]
      BY <1>2 DEF WholeInv
    <2>2. QED
      BY <2>1, LastEmbedded
  <1>3. QED
    BY <1>1, <1>2

\* Of two lists one of which begins the other, the one with the lower last
\* version begins the other.
LEMMA Prefixes ==
  ASSUME NEW P \in SUBSET Nat, NEW Q \in SUBSET Nat,
         NEW h \in P, \A w \in P : w <= h,
         NEW k \in Q, \A w \in Q : w <= k,
         k <= h,
         \/ P \subseteq Q /\ \A v \in Q, w \in P : v <= w => v \in P
         \/ Q \subseteq P /\ \A v \in P, w \in Q : v <= w => v \in Q
  PROVE  Q \subseteq P /\ \A v \in P : v <= k => v \in Q
  OBVIOUS

\* Of two releases the one with the lower last version is contained in the
\* other, which has only later versions beside it.
LEMMA Releases ==
  ASSUME NEW p \in Procs, NEW q \in Procs, NEW s \in Schemas,
         Highest(Embedded[q][s]) <= Highest(Embedded[p][s])
  PROVE  /\ Embedded[q][s] \subseteq Embedded[p][s]
         /\ \A v \in Embedded[p][s] :
              v <= Highest(Embedded[q][s]) => v \in Embedded[q][s]
  <1>1. Embedded[p][s] \in SUBSET Nat /\ Embedded[q][s] \in SUBSET Nat
    BY EmbeddedType
  <1>2. \/ /\ Embedded[p][s] \subseteq Embedded[q][s]
           /\ \A v \in Embedded[q][s], w \in Embedded[p][s] :
                v <= w => v \in Embedded[p][s]
        \/ /\ Embedded[q][s] \subseteq Embedded[p][s]
           /\ \A v \in Embedded[p][s], w \in Embedded[q][s] :
                v <= w => v \in Embedded[q][s]
    BY MigrationsAssumption
  <1>3. QED
    BY <1>1, <1>2, LastEmbedded, Prefixes

\* A schema whose version reaches the binary's has all of its migrations.
LEMMA CurrentHasAll ==
  ASSUME TypeOK, WholeInv, NEW p \in Procs, NEW s \in Schemas,
         Highest(db[s]) >= Highest(Embedded[p][s])
  PROVE  Embedded[p][s] \subseteq db[s]
  <1>1. db[s] # {}
    <2>1. Highest(Embedded[p][s]) \in Nat \ {0}
      BY LastEmbedded
    <2>2. Highest({}) = 0
      BY DEF Highest
    <2>3. QED
      BY <2>1, <2>2
  <1>2. PICK q \in Procs : db[s] = Embedded[q][s]
    BY <1>1 DEF WholeInv
  <1>3. Highest(Embedded[p][s]) <= Highest(Embedded[q][s])
    BY <1>2
  <1>4. QED
    BY <1>2, <1>3, Releases

\* A schema whose version is below the binary's becomes the binary's when the
\* later versions are added, and was older throughout.
LEMMA UpgradeCompletes ==
  ASSUME TypeOK, WholeInv, NEW p \in Procs, NEW s \in Schemas,
         Highest(db[s]) < Highest(Embedded[p][s])
  PROVE  /\ db[s] \union {v \in Embedded[p][s] : v > Highest(db[s])} =
              Embedded[p][s]
         /\ \A v \in db[s] : v < Highest(Embedded[p][s])
  <1>1. Embedded[p][s] \in SUBSET (Nat \ {0})
    BY EmbeddedType
  <1>2. CASE db[s] = {}
    <2>1. Highest(db[s]) = 0
      BY <1>2 DEF Highest
    <2>2. QED
      BY <1>1, <1>2, <2>1
  <1>3. CASE db[s] # {}
    <2>1. PICK q \in Procs : db[s] = Embedded[q][s]
      BY <1>3 DEF WholeInv
    <2>2. /\ Highest(Embedded[p][s]) \in Nat
          /\ Highest(db[s]) \in Nat
          /\ \A v \in db[s] : v \in Nat /\ v <= Highest(db[s])
      BY <2>1, LastEmbedded, EmbeddedType
    <2>3. db[s] = {v \in Embedded[p][s] : v <= Highest(db[s])}
      BY <2>1, <2>2, Releases
    <2>4. QED
      BY <1>1, <2>2, <2>3
  <1>4. QED
    BY <1>2, <1>3

\* Removing the least element of a singleton leaves nothing.
LEMMA LastRemaining ==
  ASSUME TypeOK, NEW p \in Procs, NEW v \in Remaining(p),
         Cardinality(Remaining(p)) = 1
  PROVE  Remaining(p) = {v}
  <1> DEFINE E == Embedded[p][schema[p]]
  <1>1. schema[p] \in Schemas
    BY DEF TypeOK
  <1>2. E \in SUBSET Nat /\ Highest(E) \in Nat /\ \A w \in E : w <= Highest(E)
    BY <1>1, EmbeddedType, LastEmbedded
  <1>3. Remaining(p) \in SUBSET (0..Highest(E))
    BY <1>2 DEF Remaining
  <1>4. IsFiniteSet(0..Highest(E))
    BY <1>2, FS_Interval
  <1>5. IsFiniteSet(Remaining(p))
    BY <1>3, <1>4, FS_Subset
  <1>6. PICK x : Remaining(p) = {x}
    BY <1>5, FS_Singleton
  <1>7. QED
    BY <1>6
-----------------------------------------------------------------------------
(* Steps.                                                                  *)

\* The effect a COMMIT of p has on the database.
Committed(p) == [db EXCEPT ![schema[p]] = @ \union staged[p]]

\* The steps, one by one.
LEMMA Steps ==
  ASSUME [Next]_vars
  PROVE  \/ \E p \in Procs :
              \/ \E s \in Schemas : Call(p, s)
              \/ acquireAdvisoryLock(p) \/ Prepare(p) \/ Read(p)
              \/ applyOne(p) \/ commit(p) \/ Fail(p) \/ Restart(p)
         \/ UNCHANGED vars
  BY DEF Next, Step

\* The version a transaction reads is a number, and its schema is at it or
\* has nothing.
LEMMA VersionRead ==
  ASSUME TypeOK, WholeInv, NEW p \in Procs
  PROVE  /\ schema[p] \in Schemas
         /\ currentVersion(p) \in Nat
         /\ \A v \in db[schema[p]] : v <= currentVersion(p)
  <1>1. schema[p] \in Schemas /\ Public \in Schemas
    BY DEF TypeOK, Schemas
  <1>2. QED
    BY <1>1, HighestCommitted DEF currentVersion

\* A COMMIT has nothing to write, or upgrades its schema to all that the
\* binary embeds.
LEMMA CommitUpgrades ==
  ASSUME MigratorInv, NEW p \in Procs, pc[p] = "commit"
  PROVE  \/ staged[p] = {} /\ Committed(p) = db
         \/ /\ Committed(p) = [db EXCEPT ![schema[p]] = Embedded[p][schema[p]]]
            /\ db[schema[p]] \subseteq Embedded[p][schema[p]]
            /\ \A v \in db[schema[p]] : v < Highest(Embedded[p][schema[p]])
  <1> DEFINE s == schema[p]
             E == Embedded[p][s]
  <1>1. s \in Schemas /\ db \in [Schemas -> SUBSET Nat]
    BY DEF MigratorInv, TypeOK
  <1>2. CASE staged[p] = {}
    BY <1>1, <1>2 DEF Committed
  <1>3. CASE staged[p] # {}
    <2>1. PICK v \in staged[p] : v \in E /\ v > current[p] /\ autoMigrate[p]
      BY <1>3 DEF MigratorInv, TransactionInv
    <2>2. current[p] = Highest(db[s])
      BY <2>1 DEF MigratorInv, TransactionInv, currentVersion
    <2>3. staged[p] = {w \in E : w > current[p]}
      BY <2>1 DEF MigratorInv, TransactionInv, Remaining
    <2>4. /\ Highest(E) \in Nat /\ v \in Nat /\ v <= Highest(E)
          /\ Highest(db[s]) \in Nat
      BY <1>1, <2>1, LastEmbedded, EmbeddedType, HighestCommitted
         DEF MigratorInv
    <2>5. Highest(db[s]) < Highest(E)
      BY <2>1, <2>2, <2>4
    <2>6. /\ db[s] \union staged[p] = E
          /\ \A w \in db[s] : w < Highest(E)
      BY <1>1, <2>2, <2>3, <2>5, UpgradeCompletes DEF MigratorInv
    <2>7. QED
      BY <2>6 DEF Committed
  <1>4. QED
    BY <1>2, <1>3

\* Every step leaves the database alone or is a COMMIT, told or untold.
LEMMA DatabaseSteps ==
  ASSUME TypeOK, [Next]_vars
  PROVE  \/ db' = db
         \/ \E p \in Procs : pc[p] = "commit" /\ db' = Committed(p)
  BY Steps DEF Call, acquireAdvisoryLock, Prepare, Read, applyOne, commit,
               Fail, Restart, Committed, vars

\* A schema never loses a version.
LEMMA DatabaseGrows ==
  ASSUME TypeOK, [Next]_vars, NEW s \in Schemas
  PROVE  db[s] \subseteq db'[s]
  BY DatabaseSteps DEF TypeOK, Committed
-----------------------------------------------------------------------------
(* The invariant.                                                          *)

LEMMA TypeInit == Init => TypeOK
  BY MigrationsAssumption, FS_EmptySet DEF Init, TypeOK, Schemas

LEMMA TypeStep ==
  ASSUME MigratorInv, [Next]_vars
  PROVE  TypeOK'
  <1> USE DEF MigratorInv, TypeOK
  <1>1. db' \in [Schemas -> SUBSET Nat]
    BY DatabaseSteps DEF Committed
  <1>2. lock' \subseteq Procs /\ Cardinality(lock') <= 1
    <2>1. lock' = {} \/ \E p \in Procs : lock' = {p}
      <3>1. lock = {} \/ \E p \in Procs : lock = {p}
        BY DEF LockInv
      <3>2. \/ lock' = lock
            \/ \E p \in Procs : lock' = {p} \/ lock' = lock \ {p}
        BY Steps DEF Call, acquireAdvisoryLock, Prepare, Read, applyOne,
                     commit, Fail, Restart, EndTransaction, vars
      <3>3. QED
        BY <3>1, <3>2
    <2>2. CASE lock' = {}
      BY <2>2, FS_EmptySet
    <2>3. ASSUME NEW p \in Procs, lock' = {p}
          PROVE  lock' \subseteq Procs /\ Cardinality(lock') <= 1
      <3>1. Cardinality(lock') = 1
        BY <2>3, FS_Singleton
      <3>2. QED
        BY <2>3, <3>1
    <2>4. QED
      BY <2>1, <2>2, <2>3
  <1>3. /\ autoMigrate' = autoMigrate
        /\ pc' \in [Procs -> {"idle", "lock", "prepare", "read", "apply",
                              "commit", "behind", "refused"}]
        /\ faults' \in Nat
    BY Steps DEF Call, acquireAdvisoryLock, Prepare, Read, applyOne,
                 commit, Fail, Restart, vars
  <1>4. schema' \in [Procs -> Schemas]
    BY Steps DEF Call, acquireAdvisoryLock, Prepare, Read, applyOne,
                 commit, Fail, Restart, vars
  <1>5. ready' \in [Procs -> SUBSET Schemas]
    BY Steps DEF Call, acquireAdvisoryLock, Prepare, Read, applyOne,
                 commit, Fail, Restart, vars
  <1>6. current' \in [Procs -> Nat]
    BY Steps, VersionRead
       DEF Call, acquireAdvisoryLock, Prepare, Read, applyOne,
           commit, Fail, Restart, EndTransaction, vars
  <1>7. staged' \in [Procs -> SUBSET Nat]
    <2>1. ASSUME NEW p \in Procs, applyOne(p)
          PROVE  staged' \in [Procs -> SUBSET Nat]
      <3>1. PICK v \in Remaining(p) :
              staged' = [staged EXCEPT ![p] = @ \union {v}]
        BY <2>1 DEF applyOne
      <3>2. v \in Nat
        BY EmbeddedType DEF Remaining
      <3>3. QED
        BY <3>1, <3>2
    <2>2. QED
      BY <2>1, Steps
         DEF Call, acquireAdvisoryLock, Prepare, Read, commit, Fail, Restart,
             EndTransaction, vars
  <1>8. QED
    BY <1>1, <1>2, <1>3, <1>4, <1>5, <1>6, <1>7

LEMMA LockStep ==
  ASSUME MigratorInv, [Next]_vars
  PROVE  LockInv'
  BY Steps DEF MigratorInv, TypeOK, LockInv, Locked, Call,
               acquireAdvisoryLock, Prepare, Read, applyOne, commit, Fail,
               Restart, EndTransaction, vars

LEMMA WholeStep ==
  ASSUME MigratorInv, [Next]_vars
  PROVE  WholeInv'
  <1>1. CASE db' = db
    BY <1>1 DEF MigratorInv, WholeInv
  <1>2. ASSUME NEW p \in Procs, pc[p] = "commit", db' = Committed(p)
        PROVE  WholeInv'
    BY <1>2, CommitUpgrades DEF MigratorInv, TypeOK, WholeInv
  <1>3. QED
    BY <1>1, <1>2, DatabaseSteps DEF MigratorInv

\* What one transaction has read and staged is not disturbed by another: only
\* the holder of the lock commits.
LEMMA TransactionStep ==
  ASSUME MigratorInv, [Next]_vars
  PROVE  TransactionInv'
  <1> USE DEF MigratorInv, TypeOK
  <1>1. ASSUME NEW p \in Procs, NEW s \in Schemas, Call(p, s)
        PROVE  TransactionInv'
    BY <1>1 DEF Call, TransactionInv, Remaining, currentVersion
  <1>2. ASSUME NEW p \in Procs, acquireAdvisoryLock(p)
        PROVE  TransactionInv'
    BY <1>2 DEF acquireAdvisoryLock, TransactionInv, Remaining, currentVersion
  <1>3. ASSUME NEW p \in Procs, Prepare(p)
        PROVE  TransactionInv'
    BY <1>3 DEF Prepare, TransactionInv, Remaining, currentVersion
  <1>4. ASSUME NEW p \in Procs, Read(p)
        PROVE  TransactionInv'
    <2>1. /\ schema[p] \in Schemas /\ currentVersion(p) \in Nat
          /\ Embedded[p][schema[p]] \in SUBSET Nat
          /\ highestEmbedded(p) \in Nat
          /\ \A v \in Embedded[p][schema[p]] : v <= highestEmbedded(p)
      BY VersionRead, EmbeddedType, LastEmbedded DEF highestEmbedded
    <2>2. /\ staged' = staged /\ schema' = schema /\ autoMigrate' = autoMigrate
          /\ db' = db
          /\ current' = [current EXCEPT ![p] = currentVersion(p)]
          /\ staged[p] = {}
      BY <1>4 DEF Read, TransactionInv
    <2>3. currentVersion(p)' = currentVersion(p)
      BY <2>2 DEF currentVersion
    <2>4. pc'[p] = "commit" /\ autoMigrate[p] => Remaining(p)' = {}
      BY <1>4, <2>1, <2>2 DEF Read, Remaining
    <2>5. \A q \in Procs \ {p} :
            /\ pc'[q] = pc[q] /\ current'[q] = current[q]
            /\ currentVersion(q)' = currentVersion(q)
            /\ Remaining(q)' = Remaining(q)
      BY <1>4, <2>2 DEF Read, currentVersion, Remaining
    <2>6. QED
      BY <1>4, <2>2, <2>3, <2>4, <2>5 DEF Read, TransactionInv
  <1>5. ASSUME NEW p \in Procs, applyOne(p)
        PROVE  TransactionInv'
    BY <1>5, LastRemaining
       DEF applyOne, TransactionInv, Remaining, currentVersion
  <1>6. ASSUME NEW p \in Procs, commit(p)
        PROVE  TransactionInv'
    BY <1>6 DEF commit, EndTransaction, LockInv, Locked, TransactionInv,
                Remaining, currentVersion
  <1>7. ASSUME NEW p \in Procs, Fail(p)
        PROVE  TransactionInv'
    BY <1>7 DEF Fail, EndTransaction, LockInv, Locked, TransactionInv,
                Remaining, currentVersion
  <1>8. ASSUME NEW p \in Procs, Restart(p)
        PROVE  TransactionInv'
    BY <1>8 DEF Restart, TransactionInv, Remaining, currentVersion
  <1>9. CASE UNCHANGED vars
    BY <1>9 DEF vars, TransactionInv, Remaining, currentVersion
  <1>10. QED
    BY <1>1, <1>2, <1>3, <1>4, <1>5, <1>6, <1>7, <1>8, <1>9, Steps

\* A call that succeeds finds its schema current, and no later commit takes a
\* version away.
LEMMA ReadyStep ==
  ASSUME MigratorInv, [Next]_vars
  PROVE  ReadyIsCurrent'
  <1> SUFFICES ASSUME NEW p \in Procs, NEW s \in ready'[p],
                      autoMigrate'[p] \/ s = Public
               PROVE  Embedded[p][s] \subseteq db'[s]
    BY DEF ReadyIsCurrent
  <1>1. /\ s \in Schemas /\ db[s] \subseteq db'[s]
        /\ autoMigrate' = autoMigrate
    <2>1. TypeOK /\ TypeOK'
      BY TypeStep DEF MigratorInv
    <2>2. autoMigrate' = autoMigrate
      BY Steps DEF Call, acquireAdvisoryLock, Prepare, Read, applyOne,
                   commit, Fail, Restart, vars
    <2>3. QED
      BY <2>1, <2>2, DatabaseGrows DEF TypeOK
  <1>2. CASE s \in ready[p]
    BY <1>1, <1>2 DEF MigratorInv, ReadyIsCurrent
  <1>3. CASE s \notin ready[p]
    <2>1. commit(p) /\ s = schema[p]
      BY <1>3, Steps
         DEF MigratorInv, TypeOK, Call, acquireAdvisoryLock, Prepare, Read,
             applyOne, commit, Fail, Restart, vars
    <2>2. /\ pc[p] = "commit" /\ db' = Committed(p)
          /\ autoMigrate[p] \/ current[p] >= highestEmbedded(p)
      BY <1>3, <2>1 DEF commit, Committed
    <2>3. CASE Committed(p) = [db EXCEPT ![schema[p]] = Embedded[p][schema[p]]]
      BY <1>1, <2>1, <2>2, <2>3 DEF MigratorInv, TypeOK
    <2>4. CASE staged[p] = {} /\ Committed(p) = db
      <3>1. current[p] = Highest(db[s])
        BY <1>1, <2>1, <2>2 DEF MigratorInv, TransactionInv, currentVersion
      <3>2. current[p] >= highestEmbedded(p)
        <4>1. CASE ~autoMigrate[p]
          BY <2>2, <4>1
        <4>2. CASE autoMigrate[p]
          <5>1. highestEmbedded(p) \in Embedded[p][s] /\ highestEmbedded(p) \in Nat
            BY <1>1, <2>1, LastEmbedded DEF highestEmbedded
          <5>2. Remaining(p) = {}
            BY <2>2, <4>2 DEF MigratorInv, TransactionInv
          <5>3. QED
            BY <2>1, <2>4, <5>1, <5>2 DEF MigratorInv, TypeOK, Remaining
        <4>3. QED
          BY <4>1, <4>2
      <3>3. QED
        BY <1>1, <2>1, <2>2, <2>4, <3>1, <3>2, CurrentHasAll
           DEF MigratorInv, highestEmbedded
    <2>5. QED
      BY <2>2, <2>3, <2>4, CommitUpgrades
  <1>4. QED
    BY <1>2, <1>3

\* The inductive invariant behind the theorems below: only the holder of the
\* advisory lock is past it, what it read is still what is committed, and
\* what is committed is some release's list.
THEOREM MigratorInvariant == Spec => []MigratorInv
  <1>1. Init => MigratorInv
    <2> SUFFICES ASSUME Init PROVE MigratorInv
      OBVIOUS
    <2>1. QED
      BY TypeInit DEF Init, MigratorInv, LockInv, Locked, WholeInv,
                      TransactionInv, ReadyIsCurrent
  <1>2. MigratorInv /\ [Next]_vars => MigratorInv'
    BY TypeStep, LockStep, WholeStep, TransactionStep, ReadyStep
       DEF MigratorInv
  <1>3. QED
    BY <1>1, <1>2, PTL DEF Spec

-----------------------------------------------------------------------------
(* The theorems.                                                           *)

\* Every variable keeps its type, and the advisory lock has one holder at
\* most.
THEOREM TypeCorrect == Spec => []TypeOK
  <1>1. MigratorInv => TypeOK
    BY DEF MigratorInv
  <1>2. QED
    BY <1>1, MigratorInvariant, PTL

\* However many processes migrate at once, none ever applies a migration that
\* another has committed (src/schema_migrator.cpp, migrate()).
THEOREM NeverConflicts == Spec => []NoConflict
  <1>1. ASSUME MigratorInv PROVE NoConflict
    <2> SUFFICES ASSUME NEW p \in Procs, pc[p] \in {"apply", "commit"},
                        NEW v \in Remaining(p) \union staged[p],
                        v \in db[schema[p]]
                 PROVE  FALSE
      BY DEF NoConflict
    <2>1. /\ v <= currentVersion(p) /\ current[p] = currentVersion(p)
          /\ current[p] \in Nat /\ v \in Nat
      BY <1>1, VersionRead DEF MigratorInv, TransactionInv, TypeOK
    <2>2. v > current[p]
      BY <1>1 DEF MigratorInv, TransactionInv, Remaining
    <2>3. QED
      BY <2>1, <2>2
  <1>2. QED
    BY <1>1, MigratorInvariant, PTL

\* What a successful migrate(), or verify() of public, has promised stays
\* true whatever other releases do to the database.
THEOREM ReadyStaysCurrent == Spec => []ReadyIsCurrent
  <1>1. MigratorInv => ReadyIsCurrent
    BY DEF MigratorInv
  <1>2. QED
    BY <1>1, MigratorInvariant, PTL

\* The migrator implements SchemaUpgrade: every step leaves the committed
\* versions alone or replaces those of one schema by a newer release's.
THEOREM Refinement == Spec => ImplementsUpgrade
  <1>1. Init => Upgrades!Init
    BY DEF Init, Upgrades!Init
  <1>2. ASSUME MigratorInv, [Next]_vars
        PROVE  [Upgrades!Next]_db
    <2>1. CASE db' = db
      BY <2>1
    <2>2. ASSUME NEW p \in Procs, pc[p] = "commit", db' = Committed(p), db' # db
          PROVE  Upgrades!Upgrade(p, schema[p])
      <3>1. schema[p] \in Schemas
        BY <1>2 DEF MigratorInv, TypeOK
      <3>2. Highest(Embedded[p][schema[p]]) \in Embedded[p][schema[p]]
        BY <3>1, LastEmbedded
      <3>3. /\ db' = [db EXCEPT ![schema[p]] = Embedded[p][schema[p]]]
            /\ \A v \in db[schema[p]] : Highest(Embedded[p][schema[p]]) > v
        <4>1. \A v \in db[schema[p]] : v \in Nat
          BY <1>2, <3>1 DEF MigratorInv, TypeOK
        <4>2. Highest(Embedded[p][schema[p]]) \in Nat
          BY <3>1, LastEmbedded
        <4>3. QED
          BY <1>2, <2>2, <4>1, <4>2, CommitUpgrades
      <3>4. QED
        BY <3>2, <3>3 DEF Upgrades!Upgrade
    <2>3. QED
      BY <1>2, <2>1, <2>2, DatabaseSteps
         DEF MigratorInv, TypeOK, Upgrades!Next
  <1>3. QED
    BY <1>1, <1>2, MigratorInvariant, PTL
       DEF Spec, ImplementsUpgrade, Upgrades!Spec
=============================================================================
