--------------------------- MODULE StartupUpgrade ---------------------------
(***************************************************************************)
(* The host's startup transaction: main._initialize_runtime with the        *)
(* journal, snapshot and restore of upgrades.py.  One process at a time     *)
(* owns the data directory (DataDirectoryInstanceLock), so the process is a *)
(* program counter; what survives it is on disk: the database file, its     *)
(* write-ahead log, the journal and the snapshot the journal names.         *)
(*                                                                          *)
(* The process may crash at every point, and every file operation and       *)
(* commit may raise.  A backup archive is immutable once it is renamed into *)
(* place, so the journal holds the snapshot's contents instead of its name. *)
(***************************************************************************)
EXTENDS Naturals

CONSTANTS
  NoDb,              \* no database at the production path, or no snapshot
  MaxWrites,         \* bound on business transactions
  MaxCrashes,        \* bound on process crashes
  MaxFaults          \* bound on operations that raise

ASSUME BoundsAssumption ==
  /\ MaxWrites \in Nat
  /\ MaxCrashes \in Nat
  /\ MaxFaults \in Nat

\* An Alembic revision, as far as it matters: before SCHEMA_VERSION, between
\* two of the transactions that lead there, or at SCHEMA_VERSION.
Stages == {"old", "partial", "head"}

\* A database: the business transactions it holds, its stage, and whether it
\* holds the rows that register the upgrade (BackupRun and UpgradeRecord).
Database == [data : Nat, stage : Stages, recorded : BOOLEAN]

ASSUME NoDbAssumption == NoDb \notin Database

\* Variants named Faulty... are not part of the specification: each is one
\* definition as a plausible mistake would have it, and shows that a property
\* notices.
FaultyActiveStates == {"backup_verified", "validating"}

ActiveStates == {"backup_verified", "migrating", "validating"}
JournalStates == ActiveStates \cup
  {"none", "completed", "rolled_back", "interrupted_rolled_back"}

\* Program points inside the try block of _initialize_runtime ...
Transaction ==
  {"begin", "migrate", "mark", "validate", "register", "seed", "finish"}
\* ... inside restore_database_from_upgrade_backup ...
Restoring == {"extract", "moveDb", "moveWal", "put", "check", "settle"}
\* ... and before the try block, where nothing has been migrated yet.
Preparing == {"recover", "probe", "backup", "announce"}
\* ... and after it: the runtime is initialized, the service is not up yet.
Points ==
  Transaction \cup Restoring \cup Preparing \cup {"down", "ready", "serving"}

VARIABLES
  pc,        \* where the process is; "down" when there is none
  db,        \* the database at the production path, or NoDb
  wal,       \* its -wal/-shm: "none", "live", or "orphan" of a moved file
  journal,   \* upgrade-transaction.json: state, revision, named snapshot
  held,      \* local upgrade_backup: the snapshot, or NoDb for None
  from,      \* local from_revision; "unknown" when it could not be read
  caller,    \* who restores: "recover" (next start) or "rollback"
  aside,     \* the database this restore moved away, or NoDb
  asideWal,  \* did this restore move companions away?
  legacy,    \* history: did the data directory start with an old database?
  misread,   \* history: did a read of its catalogue raise and get swallowed?
  acked,     \* business transactions acknowledged to users so far
  crashes, faults

disk == <<db, wal, journal>>
locals == <<held, from, caller, aside, asideWal>>
history == <<legacy, misread>>
counters == <<history, acked, crashes, faults>>
vars == <<pc, disk, locals, counters>>

Active == journal.state \in ActiveStates

Init ==
  /\ pc = "down"
  /\ \/ db = NoDb
     \/ \E n \in 0..MaxWrites :
          db = [data |-> n, stage |-> "old", recorded |-> FALSE]
  /\ wal = "none"
  /\ journal = [state |-> "none", from |-> "unknown", snapshot |-> NoDb]
  /\ held = NoDb
  /\ from = "unknown"
  /\ caller = "recover"
  /\ aside = NoDb
  /\ asideWal = FALSE
  /\ legacy = (db # NoDb)
  /\ misread = FALSE
  /\ acked = IF db = NoDb THEN 0 ELSE db.data
  /\ crashes = 0
  /\ faults = 0

Go(point) == pc' = point

\* The process ends: whatever only memory held is gone.
Exit ==
  /\ pc' = "down"
  /\ held' = NoDb
  /\ from' = "unknown"
  /\ caller' = "recover"
  /\ aside' = NoDb
  /\ asideWal' = FALSE

\* A commit goes to the write-ahead log beside the database; a log that was
\* left behind by a file moved elsewhere stays what it is.
Logged == wal' = IF wal = "orphan" THEN "orphan" ELSE "live"

Journal(state) ==
  journal' = [state |-> state, from |-> from, snapshot |-> held]

-----------------------------------------------------------------------------
(* Recovery of an interrupted upgrade, before anything else is read.        *)

Start ==
  /\ pc = "down"
  /\ Go("recover")
  /\ UNCHANGED <<disk, locals, counters>>

\* recover_interrupted_upgrade: an active journal means the last process died
\* inside the transaction, or its rollback failed.
ReadJournal ==
  /\ pc = "recover"
  /\ IF Active
       THEN /\ Go("extract")
            /\ held' = journal.snapshot
            /\ from' = journal.from
            /\ caller' = "recover"
            /\ UNCHANGED <<aside, asideWal>>
       ELSE /\ Go("probe")
            /\ UNCHANGED locals
  /\ UNCHANGED <<disk, counters>>

-----------------------------------------------------------------------------
(* restore_database_from_upgrade_backup.                                    *)

\* Verify the archive, extract and check the database, drop the engine.  The
\* last connection to close checkpoints and removes the log, if it can.
Extract ==
  /\ pc = "extract"
  /\ Go("moveDb")
  /\ wal' \in IF caller = "rollback" /\ wal = "live" THEN {"live", "none"} ELSE {wal}
  /\ UNCHANGED <<db, journal, locals, counters>>

MoveDatabaseAside ==
  /\ pc = "moveDb"
  /\ Go("moveWal")
  /\ aside' = db
  /\ db' = NoDb
  /\ wal' = IF wal = "live" THEN "orphan" ELSE wal
  /\ UNCHANGED <<journal, held, from, caller, asideWal, counters>>

FaultyMoveCompanionsAside ==
  /\ pc = "moveWal"
  /\ Go("put")
  /\ UNCHANGED <<disk, locals, counters>>

MoveCompanionsAside ==
  /\ pc = "moveWal"
  /\ Go("put")
  /\ asideWal' = (wal # "none")
  /\ wal' = "none"
  /\ UNCHANGED <<db, journal, held, from, caller, aside, counters>>

PutSnapshot ==
  /\ pc = "put"
  /\ Go("check")
  /\ db' = held
  /\ UNCHANGED <<wal, journal, locals, counters>>

\* The rename of the extracted database raises: put back what was moved.
PutRaises ==
  /\ pc = "put"
  /\ faults < MaxFaults
  /\ faults' = faults + 1
  /\ db' = aside
  /\ wal' = CASE ~asideWal -> "none"
              [] asideWal /\ aside # NoDb -> "live"
              [] OTHER -> "orphan"
  /\ Exit
  /\ UNCHANGED <<journal, history, acked, crashes>>

\* Length, hash and quick_check of the restored file, engine rebuilt.
CheckRestored ==
  /\ pc = "check"
  /\ Go("settle")
  /\ UNCHANGED <<disk, locals, counters>>

FaultySettleRecovered ==
  /\ pc = "settle"
  /\ caller = "recover"
  /\ Journal("interrupted_rolled_back")
  /\ Go("ready")
  /\ held' = NoDb
  /\ from' = "unknown"
  /\ aside' = NoDb
  /\ asideWal' = FALSE
  /\ UNCHANGED <<db, wal, caller, counters>>

\* The next start goes on with the restored database ...
SettleRecovered ==
  /\ pc = "settle"
  /\ caller = "recover"
  /\ Journal("interrupted_rolled_back")
  /\ Go("probe")
  /\ held' = NoDb
  /\ from' = "unknown"
  /\ aside' = NoDb
  /\ asideWal' = FALSE
  /\ UNCHANGED <<db, wal, caller, counters>>

\* ... a rollback reports the failure and ends the process.
SettleRolledBack ==
  /\ pc = "settle"
  /\ caller = "rollback"
  /\ Journal("rolled_back")
  /\ Exit
  /\ UNCHANGED <<db, wal, counters>>

-----------------------------------------------------------------------------
(* The upgrade transaction.                                                 *)

\* upgrade_required: two independent reads of the catalogue, each of which
\* swallows every exception.  An unreadable revision reads as "0001", older
\* than SCHEMA_VERSION; an unreadable catalogue reads as "no business data".
Probe(revision, hasData) ==
  /\ pc = "probe"
  /\ from' = revision
  /\ Go(IF hasData /\ revision # "head" THEN "backup" ELSE "migrate")
  /\ UNCHANGED <<disk, held, caller, aside, asideWal, legacy, acked, crashes>>

FaultyProbeSucceeds ==
  /\ Probe(IF db = NoDb THEN "unknown" ELSE db.stage,
           db # NoDb /\ db.stage = "partial")
  /\ UNCHANGED <<misread, faults>>

ProbeSucceeds ==
  /\ Probe(IF db = NoDb THEN "unknown" ELSE db.stage, db # NoDb)
  /\ UNCHANGED <<misread, faults>>

ProbeMisreadsRevision ==
  /\ faults < MaxFaults
  /\ faults' = faults + 1
  /\ Probe("unknown", db # NoDb)
  /\ UNCHANGED misread

ProbeMisreadsCatalogue ==
  /\ faults < MaxFaults
  /\ faults' = faults + 1
  /\ misread' = TRUE
  /\ Probe(IF db = NoDb THEN "unknown" ELSE db.stage, FALSE)

\* create_pre_upgrade_backup: online snapshot, archive, full verification,
\* then the rename that makes it visible.
CreateBackup ==
  /\ pc = "backup"
  /\ held' = db
  /\ Go("announce")
  /\ UNCHANGED <<disk, from, caller, aside, asideWal, counters>>

WriteBackupVerified ==
  /\ pc = "announce"
  /\ Journal("backup_verified")
  /\ Go("begin")
  /\ UNCHANGED <<db, wal, locals, counters>>

WriteMigrating ==
  /\ pc = "begin"
  /\ Journal("migrating")
  /\ Go("migrate")
  /\ UNCHANGED <<db, wal, locals, counters>>

\* create_schema commits several transactions: a database without "tasks" is
\* created and then stamped, an old one is adapted and stamped "0010" before
\* Alembic takes it to the head, or goes there directly.
MigrateStep ==
  /\ pc = "migrate"
  /\ \/ /\ db = NoDb
        /\ db' = [data |-> 0, stage |-> "partial", recorded |-> FALSE]
     \/ /\ db # NoDb
        /\ db.stage = "old"
        /\ db' = [db EXCEPT !.stage = "partial"]
     \/ /\ db # NoDb
        /\ db.stage \in {"old", "partial"}
        /\ db' = [db EXCEPT !.stage = "head"]
  /\ Logged
  /\ UNCHANGED <<pc, journal, locals, counters>>

\* The release note and the search schema are idempotent; nothing below
\* depends on them, so they go with the end of create_schema.
SchemaAtHead ==
  /\ pc = "migrate"
  /\ db # NoDb
  /\ db.stage = "head"
  /\ Go(IF held # NoDb THEN "mark" ELSE "seed")
  /\ UNCHANGED <<disk, locals, counters>>

WriteValidating ==
  /\ pc = "mark"
  /\ Journal("validating")
  /\ Go("validate")
  /\ UNCHANGED <<db, wal, locals, counters>>

\* An exception inside the try block: restore if there is a snapshot.
RollBack ==
  IF held # NoDb
    THEN /\ Go("extract")
         /\ caller' = "rollback"
         /\ UNCHANGED <<held, from, aside, asideWal>>
    ELSE Exit


PostconditionsHold == held.stage = from /\ db.stage = "head"

Validate ==
  /\ pc = "validate"
  /\ IF PostconditionsHold
       THEN Go("register") /\ UNCHANGED locals
       ELSE RollBack
  /\ UNCHANGED <<disk, counters>>

FaultyRecordUpgrade ==
  /\ pc = "register"
  /\ Go("seed")
  /\ UNCHANGED <<disk, locals, counters>>

\* register_pre_upgrade_backup and record_upgrade commit with the new models.
RecordUpgrade ==
  /\ pc = "register"
  /\ db' = [db EXCEPT !.recorded = TRUE]
  /\ Logged
  /\ Go("seed")
  /\ UNCHANGED <<journal, locals, counters>>

\* Capabilities, administrator invariant, templates, secrets, commit.
Seed ==
  /\ pc = "seed"
  /\ Logged
  /\ Go(IF held # NoDb THEN "finish" ELSE "ready")
  /\ UNCHANGED <<db, journal, locals, counters>>

FaultyWriteCompleted ==
  /\ pc = "finish"
  /\ Journal("done")
  /\ Go("ready")
  /\ UNCHANGED <<db, wal, locals, counters>>

WriteCompleted ==
  /\ pc = "finish"
  /\ Journal("completed")
  /\ Go("ready")
  /\ UNCHANGED <<db, wal, locals, counters>>

\* The rest of lifespan: the local formatting service, its secret, the
\* scheduler.
Serve ==
  /\ pc = "ready"
  /\ Go("serving")
  /\ Logged
  /\ UNCHANGED <<db, journal, locals, counters>>

-----------------------------------------------------------------------------
(* Serving, and everything that goes wrong.                                 *)

BusinessWrite ==
  /\ pc = "serving"
  /\ acked < MaxWrites
  /\ db' = [db EXCEPT !.data = @ + 1]
  /\ Logged
  /\ acked' = acked + 1
  /\ UNCHANGED <<pc, journal, locals, history, crashes, faults>>

\* A clean shutdown closes the last connection, which removes the log.
Stop ==
  /\ pc = "serving"
  /\ wal' = "none"
  /\ Exit
  /\ UNCHANGED <<db, journal, counters>>

\* Before the try block, inside the restore and after _initialize_runtime an
\* exception ends the start.
StartFails ==
  /\ pc \in Preparing \cup Restoring \cup {"ready"}
  /\ faults < MaxFaults
  /\ faults' = faults + 1
  /\ Exit
  /\ UNCHANGED <<disk, history, acked, crashes>>

TransactionFails ==
  /\ pc \in Transaction
  /\ faults < MaxFaults
  /\ faults' = faults + 1
  /\ RollBack
  /\ UNCHANGED <<disk, history, acked, crashes>>

Crash ==
  /\ pc # "down"
  /\ crashes < MaxCrashes
  /\ crashes' = crashes + 1
  /\ Exit
  /\ UNCHANGED <<disk, history, acked, faults>>

\* What a start does when nothing raises.
StartupStep ==
  \/ ReadJournal
  \/ Extract \/ MoveDatabaseAside \/ MoveCompanionsAside \/ PutSnapshot
  \/ CheckRestored \/ SettleRecovered \/ SettleRolledBack
  \/ ProbeSucceeds \/ CreateBackup \/ WriteBackupVerified
  \/ WriteMigrating \/ MigrateStep \/ SchemaAtHead \/ WriteValidating
  \/ Validate \/ RecordUpgrade \/ Seed \/ WriteCompleted \/ Serve

Next ==
  \/ Start
  \/ StartupStep
  \/ PutRaises \/ ProbeMisreadsRevision \/ ProbeMisreadsCatalogue
  \/ BusinessWrite \/ Stop
  \/ StartFails \/ TransactionFails \/ Crash

\* A start that nothing disturbs runs on.  Whether there is another one is not
\* promised: the service manager gives up after three starts in five minutes,
\* and does not restart what was stopped.
Fairness == WF_vars(StartupStep)

Spec == Init /\ [][Next]_vars /\ Fairness

-----------------------------------------------------------------------------
(* Properties.                                                              *)

SnapshotType == Database \cup {NoDb}

TypeOK ==
  /\ pc \in Points
  /\ db \in SnapshotType
  /\ wal \in {"none", "live", "orphan"}
  /\ journal \in [state : JournalStates, from : Stages \cup {"unknown"},
                  snapshot : SnapshotType]
  /\ held \in SnapshotType
  /\ from \in Stages \cup {"unknown"}
  /\ caller \in {"recover", "rollback"}
  /\ aside \in SnapshotType
  /\ asideWal \in BOOLEAN
  /\ legacy \in BOOLEAN /\ misread \in BOOLEAN
  /\ acked \in Nat /\ crashes \in Nat /\ faults \in Nat

\* The database the next start would leave in place: the journal's snapshot
\* while a transaction is open, the production file otherwise.
Effective == IF Active THEN journal.snapshot ELSE db

\* Whatever crashes or raises, and wherever, every business transaction that
\* was ever acknowledged is in the database the next start will serve from;
\* upgrades.py promises this for a process killed at any point of a migration
\* or of a restore.
BusinessDataSurvives ==
  IF Effective = NoDb THEN ~Active /\ acked = 0 ELSE Effective.data = acked

\* Unless a failed read made it look empty, requests are served only from a
\* fully migrated database that holds all acknowledged data, next to its own
\* write-ahead log, with the transaction closed and, if the database was
\* upgraded, the upgrade on record.
ServesMigratedOnly ==
  (pc = "serving" /\ ~misread) =>
    /\ db # NoDb
    /\ db.stage = "head"
    /\ db.data = acked
    /\ wal # "orphan"
    /\ ~Active
    /\ legacy => db.recorded

\* A half-migrated database whose business data the journal covers with a
\* snapshot at an earlier, complete revision.
Covered ==
  (legacy /\ db # NoDb /\ db.stage = "partial") =>
    Active /\ journal.snapshot # NoDb /\ journal.snapshot.stage = "old"

\* Unless a read of the catalogue failed, business data is never between two
\* revisions without a verified snapshot in the journal.
MigrationIsCovered == ~misread => Covered

\* A transaction is closed in one of two ways only: as completed, over a
\* recorded head database, or as rolled back, over exactly the snapshot and
\* without any leftover write-ahead log of the failed file.
ClosesExactly ==
  [][(Active /\ ~Active') =>
       IF journal'.state = "completed"
         THEN db'.stage = "head" /\ db'.recorded
         ELSE db' = journal.snapshot /\ wal' = "none"]_vars

\* The journal, the snapshots and the renames together make the upgrade
\* atomic: the effective database behaves like a store that is upgraded in
\* one step.
EffectiveSchema ==
  IF Effective = NoDb THEN "none"
  ELSE IF Effective.stage = "head" THEN "head"
  ELSE IF legacy THEN "old" ELSE "none"

EffectiveData == IF Effective = NoDb THEN 0 ELSE Effective.data

Store == INSTANCE DurableStore
  WITH schema <- EffectiveSchema, data <- EffectiveData, open <- (pc = "serving")

RefinesDurableStore == Store!Spec


=============================================================================
