------------------------ MODULE StartupUpgradeProofs ------------------------
(***************************************************************************)
(* StartupUpgrade proved for every bound: type correctness, durability of   *)
(* acknowledged business data, how a transaction closes, and the simulation *)
(* of DurableStore.  The inductive invariant says, for each program point,  *)
(* what memory, journal and files know of each other.                       *)
(***************************************************************************)
EXTENDS StartupUpgrade, TLAPS

\* A program point at which create_schema is done.
AtHead == {"mark", "validate", "register", "seed", "finish", "ready", "serving"}

\* Every copy of the database there is holds all acknowledged data, and
\* outside a transaction the production file exists unless there never was one
\* and nothing was ever acknowledged.
CopiesCurrent ==
  /\ db # NoDb => db.data = acked
  /\ aside # NoDb => aside.data = acked
  /\ (held # NoDb /\ pc # "serving") => held.data = acked
  /\ Active => journal.snapshot # NoDb /\ journal.snapshot.data = acked
  /\ (~Active /\ db = NoDb) => acked = 0 /\ ~legacy

\* What the process holds is what the journal names.
JournalMatches ==
  /\ pc \in Restoring \cup {"begin", "mark", "validate", "register", "finish"}
       => held # NoDb
  /\ (pc \in Restoring \cup Transaction /\ held # NoDb)
       => Active /\ journal.snapshot = held
  /\ (pc \in Transaction /\ held = NoDb) => ~Active
  /\ pc \in {"probe", "backup", "announce", "ready", "serving"} => ~Active
  /\ pc \in {"down", "recover", "probe", "backup"} => held = NoDb
  /\ pc \in {"backup"} => db # NoDb
  /\ pc = "announce" => held = db /\ db # NoDb
  /\ (pc \in {"begin", "migrate"} /\ held # NoDb) => db # NoDb
  /\ aside # NoDb => pc \in Restoring

\* Where the files are during a restore, and whose the log is.
FilesMatch ==
  /\ wal = "live" => db # NoDb
  /\ wal = "orphan" => db = NoDb /\ Active
  /\ pc = "moveWal" => db = NoDb
  /\ pc = "put" => db = NoDb /\ wal = "none"
  /\ pc \in {"check", "settle"} => db = held /\ wal = "none"
  /\ pc \in AtHead => db # NoDb /\ db.stage = "head"
  /\ (pc \in {"seed", "finish"} /\ held # NoDb) => db.recorded

IInv == TypeOK /\ CopiesCurrent /\ JournalMatches /\ FilesMatch

-----------------------------------------------------------------------------

LEMMA InitIInv == Init => IInv
<1> SUFFICES ASSUME Init PROVE IInv
  OBVIOUS
<1>1. db = NoDb \/ (db # NoDb /\ db \in Database /\ db.data = acked /\ acked \in Nat)
  <2>1. CASE db # NoDb
    <3>1. PICK n \in 0..MaxWrites :
             db = [data |-> n, stage |-> "old", recorded |-> FALSE]
      BY <2>1 DEF Init
    <3>2. QED
      BY <2>1, <3>1, BoundsAssumption DEF Init, Database, Stages
  <2>2. QED
    BY <2>1
<1>2. TypeOK
  BY <1>1, BoundsAssumption
  DEF Init, TypeOK, Points, SnapshotType, Stages, JournalStates, ActiveStates
<1>3. ~Active /\ pc = "down" /\ held = NoDb /\ aside = NoDb /\ wal = "none"
  BY DEF Init, Active, ActiveStates
<1>4. CopiesCurrent
  BY <1>1, <1>3 DEF Init, CopiesCurrent
<1>5. JournalMatches
  BY <1>3 DEF JournalMatches, Restoring, Transaction
<1>6. FilesMatch
  BY <1>3 DEF FilesMatch, AtHead
<1>7. QED
  BY <1>2, <1>4, <1>5, <1>6 DEF IInv

LEMMA NextIInv == IInv /\ [Next]_vars => IInv'
<1> SUFFICES ASSUME IInv, [Next]_vars PROVE IInv'
  OBVIOUS
<1> USE NoDbAssumption, BoundsAssumption
<1> USE DEF IInv, TypeOK, CopiesCurrent, JournalMatches, FilesMatch, Active,
    AtHead, Points, Restoring, Transaction, Preparing, SnapshotType, Database,
    Stages, JournalStates, ActiveStates, Go, Exit, disk, locals, counters, history
<1>1. CASE Start
  BY <1>1 DEF Start
<1>2. CASE ReadJournal
  BY <1>2 DEF ReadJournal
<1>3. CASE Extract
  BY <1>3 DEF Extract
<1>4. CASE MoveDatabaseAside
  BY <1>4 DEF MoveDatabaseAside
<1>5. CASE MoveCompanionsAside
  BY <1>5 DEF MoveCompanionsAside
<1>6. CASE PutSnapshot
  BY <1>6 DEF PutSnapshot
<1>7. CASE PutRaises
  <2>1. TypeOK'
    <3>1. crashes' \in Nat /\ faults' \in Nat /\ acked' \in Nat
      BY <1>7 DEF PutRaises
    <3>2. /\ pc' \in Points /\ db' \in SnapshotType
          /\ held' \in SnapshotType /\ aside' \in SnapshotType
      BY <1>7 DEF PutRaises
    <3>3. legacy' \in BOOLEAN /\ misread' \in BOOLEAN /\ asideWal' \in BOOLEAN
      BY <1>7 DEF PutRaises
    <3>4. QED
      BY <1>7, <3>1, <3>2, <3>3 DEF PutRaises
  <2>2. CopiesCurrent'
    BY <1>7 DEF PutRaises
  <2>3. JournalMatches'
    BY <1>7 DEF PutRaises
  <2>4. FilesMatch'
    BY <1>7 DEF PutRaises
  <2>5. QED
    BY <2>1, <2>2, <2>3, <2>4
<1>8. CASE CheckRestored
  BY <1>8 DEF CheckRestored
<1>9. CASE SettleRecovered
  <2>1. TypeOK'
    <3>1. crashes' \in Nat /\ faults' \in Nat /\ acked' \in Nat
      BY <1>9 DEF SettleRecovered, Journal
    <3>2. /\ pc' \in Points /\ db' \in SnapshotType
          /\ held' \in SnapshotType /\ aside' \in SnapshotType
      BY <1>9 DEF SettleRecovered, Journal
    <3>3. legacy' \in BOOLEAN /\ misread' \in BOOLEAN /\ asideWal' \in BOOLEAN
      BY <1>9 DEF SettleRecovered, Journal
    <3>4. QED
      BY <1>9, <3>1, <3>2, <3>3 DEF SettleRecovered, Journal
  <2>2. CopiesCurrent'
    BY <1>9 DEF SettleRecovered, Journal
  <2>3. JournalMatches'
    BY <1>9 DEF SettleRecovered, Journal
  <2>4. FilesMatch'
    BY <1>9 DEF SettleRecovered, Journal
  <2>5. QED
    BY <2>1, <2>2, <2>3, <2>4
<1>10. CASE SettleRolledBack
  <2>1. TypeOK'
    <3>1. crashes' \in Nat /\ faults' \in Nat /\ acked' \in Nat
      BY <1>10 DEF SettleRolledBack, Journal
    <3>2. /\ pc' \in Points /\ db' \in SnapshotType
          /\ held' \in SnapshotType /\ aside' \in SnapshotType
      BY <1>10 DEF SettleRolledBack, Journal
    <3>3. legacy' \in BOOLEAN /\ misread' \in BOOLEAN /\ asideWal' \in BOOLEAN
      BY <1>10 DEF SettleRolledBack, Journal
    <3>4. QED
      BY <1>10, <3>1, <3>2, <3>3 DEF SettleRolledBack, Journal
  <2>2. CopiesCurrent'
    BY <1>10 DEF SettleRolledBack, Journal
  <2>3. JournalMatches'
    BY <1>10 DEF SettleRolledBack, Journal
  <2>4. FilesMatch'
    BY <1>10 DEF SettleRolledBack, Journal
  <2>5. QED
    BY <2>1, <2>2, <2>3, <2>4
<1>11. CASE ProbeSucceeds
  BY <1>11 DEF ProbeSucceeds, Probe
<1>12. CASE ProbeMisreadsRevision
  BY <1>12 DEF ProbeMisreadsRevision, Probe
<1>13. CASE ProbeMisreadsCatalogue
  BY <1>13 DEF ProbeMisreadsCatalogue, Probe
<1>14. CASE CreateBackup
  BY <1>14 DEF CreateBackup
<1>15. CASE WriteBackupVerified
  BY <1>15 DEF WriteBackupVerified, Journal
<1>16. CASE WriteMigrating
  BY <1>16 DEF WriteMigrating, Journal
<1>17. CASE MigrateStep
  <2>0. db' # NoDb /\ db' \in Database /\ db'.data = acked
    <3>1. CASE db = NoDb
      <4>1. db' = [data |-> 0, stage |-> "partial", recorded |-> FALSE]
        BY <1>17, <3>1 DEF MigrateStep
      <4>2. acked = 0
        BY <1>17, <3>1 DEF MigrateStep
      <4>3. db' \in Database /\ db'.data = 0
        BY <4>1
      <4>4. QED
        BY <4>2, <4>3
    <3>2. CASE db # NoDb
      <4>1. PICK stage \in {"partial", "head"} : db' = [db EXCEPT !.stage = stage]
        BY <1>17, <3>2 DEF MigrateStep
      <4>2. QED
        BY <3>2, <4>1
    <3>3. QED
      BY <3>1, <3>2
  <2>1. TypeOK'
    BY <1>17, <2>0 DEF MigrateStep, Logged
  <2>2. CopiesCurrent'
    BY <1>17, <2>0 DEF MigrateStep, Logged
  <2>3. JournalMatches'
    BY <1>17 DEF MigrateStep, Logged
  <2>4. FilesMatch'
    BY <1>17, <2>0 DEF MigrateStep, Logged
  <2>5. QED
    BY <2>1, <2>2, <2>3, <2>4
<1>18. CASE SchemaAtHead
  BY <1>18 DEF SchemaAtHead
<1>19. CASE WriteValidating
  BY <1>19 DEF WriteValidating, Journal
<1>20. CASE Validate
  BY <1>20 DEF Validate, RollBack, PostconditionsHold
<1>21. CASE RecordUpgrade
  <2>0. db' \in Database
    BY <1>21 DEF RecordUpgrade
  <2>1. TypeOK'
    BY <1>21, <2>0 DEF RecordUpgrade, Logged
  <2>2. CopiesCurrent'
    BY <1>21 DEF RecordUpgrade, Logged
  <2>3. JournalMatches'
    BY <1>21 DEF RecordUpgrade, Logged
  <2>4. FilesMatch'
    BY <1>21 DEF RecordUpgrade, Logged
  <2>5. QED
    BY <2>1, <2>2, <2>3, <2>4
<1>22. CASE Seed
  BY <1>22 DEF Seed, Logged
<1>23. CASE WriteCompleted
  BY <1>23 DEF WriteCompleted, Journal
<1>24. CASE Serve
  BY <1>24 DEF Serve, Logged
<1>25. CASE BusinessWrite
  <2>0. db' # NoDb /\ db' \in Database /\ db'.data = acked + 1 /\ acked' = acked + 1
    BY <1>25 DEF BusinessWrite
  <2>1. TypeOK'
    BY <1>25 DEF BusinessWrite, Logged
  <2>2. CopiesCurrent'
    BY <1>25, <2>0 DEF BusinessWrite
  <2>3. JournalMatches'
    BY <1>25 DEF BusinessWrite, Logged
  <2>4. FilesMatch'
    BY <1>25 DEF BusinessWrite, Logged
  <2>5. QED
    BY <2>1, <2>2, <2>3, <2>4
<1>26. CASE Stop
  <2>1. TypeOK'
    <3>1. crashes' \in Nat /\ faults' \in Nat /\ acked' \in Nat
      BY <1>26 DEF Stop
    <3>2. /\ pc' \in Points /\ db' \in SnapshotType
          /\ held' \in SnapshotType /\ aside' \in SnapshotType
      BY <1>26 DEF Stop
    <3>3. legacy' \in BOOLEAN /\ misread' \in BOOLEAN /\ asideWal' \in BOOLEAN
      BY <1>26 DEF Stop
    <3>4. QED
      BY <1>26, <3>1, <3>2, <3>3 DEF Stop
  <2>2. CopiesCurrent'
    BY <1>26 DEF Stop
  <2>3. JournalMatches'
    BY <1>26 DEF Stop
  <2>4. FilesMatch'
    BY <1>26 DEF Stop
  <2>5. QED
    BY <2>1, <2>2, <2>3, <2>4
<1>27. CASE StartFails
  <2>1. TypeOK'
    <3>1. crashes' \in Nat /\ faults' \in Nat /\ acked' \in Nat
      BY <1>27 DEF StartFails
    <3>2. /\ pc' \in Points /\ db' \in SnapshotType
          /\ held' \in SnapshotType /\ aside' \in SnapshotType
      BY <1>27 DEF StartFails
    <3>3. legacy' \in BOOLEAN /\ misread' \in BOOLEAN /\ asideWal' \in BOOLEAN
      BY <1>27 DEF StartFails
    <3>4. QED
      BY <1>27, <3>1, <3>2, <3>3 DEF StartFails
  <2>2. CopiesCurrent'
    BY <1>27 DEF StartFails
  <2>3. JournalMatches'
    BY <1>27 DEF StartFails
  <2>4. FilesMatch'
    BY <1>27 DEF StartFails
  <2>5. QED
    BY <2>1, <2>2, <2>3, <2>4
<1>28. CASE TransactionFails
  <2>1. TypeOK'
    <3>1. crashes' \in Nat /\ faults' \in Nat /\ acked' \in Nat
      BY <1>28 DEF TransactionFails, RollBack
    <3>2. /\ pc' \in Points /\ db' \in SnapshotType
          /\ held' \in SnapshotType /\ aside' \in SnapshotType
      BY <1>28 DEF TransactionFails, RollBack
    <3>3. legacy' \in BOOLEAN /\ misread' \in BOOLEAN /\ asideWal' \in BOOLEAN
      BY <1>28 DEF TransactionFails, RollBack
    <3>4. QED
      BY <1>28, <3>1, <3>2, <3>3 DEF TransactionFails, RollBack
  <2>2. CopiesCurrent'
    BY <1>28 DEF TransactionFails, RollBack
  <2>3. JournalMatches'
    BY <1>28 DEF TransactionFails, RollBack
  <2>4. FilesMatch'
    BY <1>28 DEF TransactionFails, RollBack
  <2>5. QED
    BY <2>1, <2>2, <2>3, <2>4
<1>29. CASE Crash
  <2>1. TypeOK'
    <3>1. crashes' \in Nat /\ faults' \in Nat /\ acked' \in Nat
      BY <1>29 DEF Crash
    <3>2. pc' \in Points /\ db' \in SnapshotType /\ held' \in SnapshotType /\ aside' \in SnapshotType
      BY <1>29 DEF Crash
    <3>3. legacy' \in BOOLEAN /\ misread' \in BOOLEAN /\ asideWal' \in BOOLEAN
      BY <1>29 DEF Crash
    <3>4. QED
      BY <1>29, <3>1, <3>2, <3>3 DEF Crash
  <2>2. CopiesCurrent'
    BY <1>29 DEF Crash
  <2>3. JournalMatches'
    BY <1>29 DEF Crash
  <2>4. FilesMatch'
    BY <1>29 DEF Crash
  <2>5. QED
    BY <2>1, <2>2, <2>3, <2>4
<1>30. CASE UNCHANGED vars
  BY <1>30 DEF vars
<1> HIDE DEF IInv
<1>31. QED
  BY <1>1, <1>2, <1>3, <1>4, <1>5, <1>6, <1>7, <1>8, <1>9, <1>10, <1>11, <1>12, <1>13, <1>14, <1>15, <1>16, <1>17, <1>18, <1>19, <1>20, <1>21, <1>22, <1>23, <1>24, <1>25, <1>26, <1>27, <1>28, <1>29, <1>30 DEF Next, StartupStep

-----------------------------------------------------------------------------

\* Every reachable state is well typed and agrees, at each program point, with
\* what the journal says.
THEOREM Invariance == Spec => []IInv
<1>1. Init => IInv
  BY InitIInv
<1>2. IInv /\ [Next]_vars => IInv'
  BY NextIInv
<1>3. QED
  BY <1>1, <1>2, PTL DEF Spec

THEOREM TypeCorrect == Spec => []TypeOK
<1>1. IInv => TypeOK
  BY DEF IInv
<1>2. QED
  BY <1>1, Invariance, PTL

\* No crash, exception or rollback, wherever it strikes, takes an acknowledged
\* transaction out of the database the next start serves from.
THEOREM Durability == Spec => []BusinessDataSurvives
<1>1. IInv => BusinessDataSurvives
  BY DEF IInv, CopiesCurrent, BusinessDataSurvives, Effective, Active
<1>2. QED
  BY <1>1, Invariance, PTL

\* A transaction is closed as completed over a recorded head database, or as
\* rolled back over exactly its snapshot.
THEOREM Closing == Spec => ClosesExactly
<1>1. IInv /\ [Next]_vars =>
        [(Active /\ ~Active') =>
           IF journal'.state = "completed"
             THEN db'.stage = "head" /\ db'.recorded
             ELSE db' = journal.snapshot /\ wal' = "none"]_vars
  <2> SUFFICES ASSUME IInv, Next, Active, ~Active'
               PROVE  IF journal'.state = "completed"
                        THEN db'.stage = "head" /\ db'.recorded
                        ELSE db' = journal.snapshot /\ wal' = "none"
    BY DEF vars, disk, Active
  <2>1. SettleRecovered \/ SettleRolledBack \/ WriteCompleted
    BY DEF IInv, JournalMatches, Next, StartupStep, Active, ActiveStates,
       Start, ReadJournal, Extract, MoveDatabaseAside, MoveCompanionsAside,
       PutSnapshot, PutRaises, CheckRestored, ProbeSucceeds,
       ProbeMisreadsRevision, ProbeMisreadsCatalogue, Probe, CreateBackup,
       WriteBackupVerified, WriteMigrating, MigrateStep, SchemaAtHead,
       WriteValidating, Validate, RecordUpgrade, Seed, Serve, BusinessWrite,
       Stop, StartFails, TransactionFails, Crash, Journal, disk
  <2>2. CASE SettleRecovered \/ SettleRolledBack
    BY <2>2 DEF IInv, JournalMatches, FilesMatch, SettleRecovered,
       SettleRolledBack, Journal, Restoring, Exit
  <2>3. CASE WriteCompleted
    BY <2>3 DEF IInv, JournalMatches, FilesMatch, WriteCompleted, Journal,
       AtHead, Transaction
  <2>4. QED
    BY <2>1, <2>2, <2>3
<1>2. QED
  BY <1>1, Invariance, PTL DEF Spec, ClosesExactly

-----------------------------------------------------------------------------
(* While every read of the catalogue of a business database succeeds.       *)

\* What a data directory that began with an old database may look like: no
\* half-migrated file outside a transaction, no head revision without its
\* record, and nothing but head files once the snapshot itself is at the head.
LegacyInv ==
  /\ (legacy /\ ~Active) =>
       /\ db # NoDb
       /\ db.stage # "partial"
       /\ db.stage = "head" => db.recorded
  /\ (legacy /\ Active) =>
       /\ journal.snapshot.stage # "partial"
       /\ journal.snapshot.stage = "head" => journal.snapshot.recorded
  /\ (Active /\ journal.snapshot.stage = "head") =>
       /\ db # NoDb => db.stage = "head"
       /\ aside # NoDb => aside.stage = "head"
  /\ (legacy /\ held = NoDb /\ pc = "migrate") => db.stage = "head"

LEMMA InitLegacyInv == Init => LegacyInv
<1> SUFFICES ASSUME Init PROVE LegacyInv
  OBVIOUS
<1>1. ~Active /\ pc = "down"
  BY DEF Init, Active, ActiveStates
<1>2. CASE db = NoDb
  BY <1>1, <1>2 DEF Init, LegacyInv
<1>3. CASE db # NoDb
  BY <1>1, <1>3 DEF Init, LegacyInv
<1>4. QED
  BY <1>2, <1>3

LEMMA NextLegacyInv ==
  ASSUME IInv, ~misread => LegacyInv, [Next]_vars
  PROVE  (~misread => LegacyInv)'
<1> USE NoDbAssumption
<1> USE DEF IInv, TypeOK, JournalMatches, FilesMatch, LegacyInv, Active,
    AtHead, Points, Restoring, Transaction, Preparing, SnapshotType, Database,
    Stages, JournalStates, ActiveStates, Go, Exit, disk, locals, counters, history
<1>1. CASE Start
  BY <1>1 DEF Start
<1>2. CASE ReadJournal
  BY <1>2 DEF ReadJournal
<1>3. CASE Extract
  BY <1>3 DEF Extract
<1>4. CASE MoveDatabaseAside
  BY <1>4 DEF MoveDatabaseAside
<1>5. CASE MoveCompanionsAside
  BY <1>5 DEF MoveCompanionsAside
<1>6. CASE PutSnapshot
  BY <1>6 DEF PutSnapshot
<1>7. CASE PutRaises
  BY <1>7 DEF PutRaises
<1>8. CASE CheckRestored
  BY <1>8 DEF CheckRestored
<1>9. CASE SettleRecovered
  BY <1>9 DEF SettleRecovered, Journal
<1>10. CASE SettleRolledBack
  BY <1>10 DEF SettleRolledBack, Journal
<1>11. CASE ProbeSucceeds
  BY <1>11 DEF ProbeSucceeds, Probe
<1>12. CASE ProbeMisreadsRevision
  BY <1>12 DEF ProbeMisreadsRevision, Probe
<1>13. CASE ProbeMisreadsCatalogue
  BY <1>13 DEF ProbeMisreadsCatalogue, Probe
<1>14. CASE CreateBackup
  BY <1>14 DEF CreateBackup
<1>15. CASE WriteBackupVerified
  BY <1>15 DEF WriteBackupVerified, Journal
<1>16. CASE WriteMigrating
  BY <1>16 DEF WriteMigrating, Journal
<1>17. CASE MigrateStep
  BY <1>17 DEF MigrateStep
<1>18. CASE SchemaAtHead
  BY <1>18 DEF SchemaAtHead
<1>19. CASE WriteValidating
  BY <1>19 DEF WriteValidating, Journal
<1>20. CASE Validate
  BY <1>20 DEF Validate, RollBack
<1>21. CASE RecordUpgrade
  BY <1>21 DEF RecordUpgrade
<1>22. CASE Seed
  BY <1>22 DEF Seed
<1>23. CASE WriteCompleted
  BY <1>23 DEF WriteCompleted, Journal
<1>24. CASE Serve
  BY <1>24 DEF Serve
<1>25. CASE BusinessWrite
  BY <1>25 DEF BusinessWrite
<1>26. CASE Stop
  BY <1>26 DEF Stop
<1>27. CASE StartFails
  BY <1>27 DEF StartFails
<1>28. CASE TransactionFails
  BY <1>28 DEF TransactionFails, RollBack
<1>29. CASE Crash
  BY <1>29 DEF Crash
<1>30. CASE UNCHANGED vars
  BY <1>30 DEF vars
<1>31. QED
  BY <1>1, <1>2, <1>3, <1>4, <1>5, <1>6, <1>7, <1>8, <1>9,
     <1>10, <1>11, <1>12, <1>13, <1>14, <1>15, <1>16, <1>17, <1>18,
     <1>19, <1>20, <1>21, <1>22, <1>23, <1>24, <1>25, <1>26, <1>27,
     <1>28, <1>29, <1>30
  DEF Next, StartupStep

\* Unless a read of the catalogue failed, requests are served
\* only from a complete, recorded, current database with its own log.
THEOREM ServiceIsMigrated == Spec => []ServesMigratedOnly
<1>1. Init => (~misread => LegacyInv)
  BY InitLegacyInv
<1>2. IInv /\ (~misread => LegacyInv) /\ [Next]_vars => (~misread => LegacyInv)'
  BY NextLegacyInv
<1>3. IInv /\ (~misread => LegacyInv) => ServesMigratedOnly
  BY DEF IInv, CopiesCurrent, JournalMatches, FilesMatch, LegacyInv,
     ServesMigratedOnly, AtHead
<1>4. QED
  BY <1>1, <1>2, <1>3, Invariance, PTL DEF Spec

\* ... and no database with business data is between two revisions without a
\* verified snapshot of the old one in the journal.
THEOREM MigrationCovered == Spec => []MigrationIsCovered
<1>1. Init => (~misread => LegacyInv)
  BY InitLegacyInv
<1>2. IInv /\ (~misread => LegacyInv) /\ [Next]_vars => (~misread => LegacyInv)'
  BY NextLegacyInv
<1>3. IInv /\ (~misread => LegacyInv) => MigrationIsCovered
  BY DEF IInv, TypeOK, CopiesCurrent, LegacyInv, MigrationIsCovered, Covered, Active,
     SnapshotType, Database, Stages
<1>4. QED
  BY <1>1, <1>2, <1>3, Invariance, PTL DEF Spec

-----------------------------------------------------------------------------
(* Refinement.                                                              *)

LEMMA InitRefines == Init => Store!Init
<1> SUFFICES ASSUME Init PROVE Store!Init
  OBVIOUS
<1>1. Effective = db /\ pc = "down"
  BY DEF Init, Effective, Active, ActiveStates
<1>2. CASE db = NoDb
  BY <1>1, <1>2 DEF Store!Init, EffectiveSchema, EffectiveData
<1>3. CASE db # NoDb
  <2>1. PICK n \in 0..MaxWrites :
           db = [data |-> n, stage |-> "old", recorded |-> FALSE]
    BY <1>3 DEF Init
  <2>2. legacy
    BY <1>3 DEF Init
  <2>3. QED
    BY <1>1, <1>3, <2>1, <2>2, BoundsAssumption
    DEF Store!Init, EffectiveSchema, EffectiveData
<1>4. QED
  BY <1>2, <1>3

LEMMA NextRefines ==
  ASSUME IInv, [Next]_vars
  PROVE  [Store!Next]_(Store!vars)
<1> USE NoDbAssumption
<1> USE DEF IInv, TypeOK, CopiesCurrent, JournalMatches, FilesMatch, Active,
    AtHead, Points, Restoring, Transaction, Preparing, SnapshotType, Database,
    Stages, JournalStates, ActiveStates, Go, Exit, disk, locals, counters, history,
    EffectiveSchema, EffectiveData, Effective, Store!Next, Store!vars,
    Store!Write, Store!Upgrade, Store!Open, Store!Close
<1>1. CASE Start
  BY <1>1 DEF Start
<1>2. CASE ReadJournal
  BY <1>2 DEF ReadJournal
<1>3. CASE Extract
  BY <1>3 DEF Extract
<1>4. CASE MoveDatabaseAside
  BY <1>4 DEF MoveDatabaseAside
<1>5. CASE MoveCompanionsAside
  BY <1>5 DEF MoveCompanionsAside
<1>6. CASE PutSnapshot
  BY <1>6 DEF PutSnapshot
<1>7. CASE PutRaises
  BY <1>7 DEF PutRaises
<1>8. CASE CheckRestored
  BY <1>8 DEF CheckRestored
<1>9. CASE SettleRecovered
  BY <1>9 DEF SettleRecovered, Journal
<1>10. CASE SettleRolledBack
  BY <1>10 DEF SettleRolledBack, Journal
<1>11. CASE ProbeSucceeds
  BY <1>11 DEF ProbeSucceeds, Probe
<1>12. CASE ProbeMisreadsRevision
  BY <1>12 DEF ProbeMisreadsRevision, Probe
<1>13. CASE ProbeMisreadsCatalogue
  BY <1>13 DEF ProbeMisreadsCatalogue, Probe
<1>14. CASE CreateBackup
  BY <1>14 DEF CreateBackup
<1>15. CASE WriteBackupVerified
  BY <1>15 DEF WriteBackupVerified, Journal
<1>16. CASE WriteMigrating
  BY <1>16 DEF WriteMigrating, Journal
<1>17. CASE MigrateStep
  <2>1. Active' <=> Active
    BY <1>17 DEF MigrateStep
  <2>2. CASE Active
    BY <1>17, <2>1, <2>2 DEF MigrateStep
  <2>3. CASE ~Active /\ db = NoDb
    <3>1. db' = [data |-> 0, stage |-> "partial", recorded |-> FALSE] /\ acked = 0
      BY <1>17, <2>3 DEF MigrateStep
    <3>2. EffectiveData = 0 /\ EffectiveSchema = "none"
      BY <2>3
    <3>3. EffectiveData' = 0 /\ EffectiveSchema' \in {"none", "old"}
      BY <2>1, <2>3, <3>1
    <3>4. ~legacy
      BY <2>3
    <3>5. QED
      BY <1>17, <2>1, <2>3, <3>1, <3>2, <3>3, <3>4 DEF MigrateStep
  <2>4. CASE ~Active /\ db # NoDb
    <3>1. PICK stage \in {"partial", "head"} :
            db' = [db EXCEPT !.stage = stage] /\ db.stage \in {"old", "partial"}
      BY <1>17, <2>4 DEF MigrateStep
    <3>2. db' # NoDb /\ db'.data = db.data /\ db'.stage = stage
      BY <2>4, <3>1
    <3>3. QED
      BY <1>17, <2>1, <2>4, <3>1, <3>2 DEF MigrateStep
  <2>5. QED
    BY <2>2, <2>3, <2>4
<1>18. CASE SchemaAtHead
  BY <1>18 DEF SchemaAtHead
<1>19. CASE WriteValidating
  BY <1>19 DEF WriteValidating, Journal
<1>20. CASE Validate
  BY <1>20 DEF Validate, RollBack
<1>21. CASE RecordUpgrade
  BY <1>21 DEF RecordUpgrade
<1>22. CASE Seed
  BY <1>22 DEF Seed
<1>23. CASE WriteCompleted
  BY <1>23 DEF WriteCompleted, Journal
<1>24. CASE Serve
  BY <1>24 DEF Serve
<1>25. CASE BusinessWrite
  BY <1>25 DEF BusinessWrite
<1>26. CASE Stop
  BY <1>26 DEF Stop
<1>27. CASE StartFails
  BY <1>27 DEF StartFails
<1>28. CASE TransactionFails
  BY <1>28 DEF TransactionFails, RollBack
<1>29. CASE Crash
  BY <1>29 DEF Crash
<1>30. CASE UNCHANGED vars
  BY <1>30 DEF vars
<1>31. QED
  BY <1>1, <1>2, <1>3, <1>4, <1>5, <1>6, <1>7, <1>8, <1>9,
     <1>10, <1>11, <1>12, <1>13, <1>14, <1>15, <1>16, <1>17, <1>18,
     <1>19, <1>20, <1>21, <1>22, <1>23, <1>24, <1>25, <1>26, <1>27,
     <1>28, <1>29, <1>30
  DEF Next, StartupStep

\* The startup transaction implements a store that is upgraded in one step and
\* never forgets a committed transaction.
THEOREM Refinement == Spec => RefinesDurableStore
<1>1. Init => Store!Init
  BY InitRefines
<1>2. IInv /\ [Next]_vars => [Store!Next]_(Store!vars)
  BY NextRefines
<1>3. QED
  BY <1>1, <1>2, Invariance, PTL DEF Spec, RefinesDurableStore, Store!Spec

=============================================================================
