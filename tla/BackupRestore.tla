---------------------------- MODULE BackupRestore ----------------------------
(***************************************************************************)
(* Backups and the restore of the host (backups.py, routers/admin.py): the  *)
(* database, the two file trees beside it, the archives in the backups      *)
(* directory, and the records of those archives INSIDE the database, which  *)
(* a restore therefore exchanges together with the business data.           *)
(*                                                                          *)
(* Three callers make archives: a request, the scheduler's cycle, and       *)
(* restore itself before it exchanges anything.  Making one is several      *)
(* transactions with file work between them; restore waits for open         *)
(* transactions (module DatabaseRuntime) but not for a maker between two.   *)
(* The process may die at every point.                                      *)
(*                                                                          *)
(* Business data is the set of commits a database holds.  Each commit       *)
(* stores a content-addressed file of its own among the attachments before  *)
(* it commits its row.  Nothing writes files to the archives tree.          *)
(***************************************************************************)
EXTENDS Integers, FiniteSets

CONSTANTS
  Commits,     \* business transactions
  Makers,      \* who makes archives: "request", "cycle" and "restore"
  MaxBackups,  \* bound on archives ever made or imported
  DailyKeep,   \* settings.backup_daily_keep
  HandlerFails,  \* may a file operation of the exception handler fail too?
  None

Backups == 1..MaxBackups

Items == {"database", "attachments", "archives"}

\* The order in which restore handles them.
Order == <<"database", "attachments", "archives">>

Kind(m) == CASE m = "request" -> "manual"
             [] m = "cycle" -> "automatic"
             [] m = "restore" -> "pre-restore"

\* Status "running" and "failed" make no difference to anybody.
Records == [kind : {"manual", "automatic", "pre-restore", "imported"},
            completed : BOOLEAN,
            deleted : BOOLEAN]

Databases == [commits : SUBSET Commits, record : [Backups -> Records \cup {None}]]

ASSUME BackupAssumption ==
  /\ IsFiniteSet(Commits)
  /\ Makers \subseteq {"request", "cycle", "restore"}
  /\ MaxBackups \in Nat
  /\ DailyKeep \in Nat \ {0}
  /\ HandlerFails \in BOOLEAN
  /\ \A s \in SUBSET Commits : s # None
  /\ \A r \in Records : r # None
  /\ \A d \in Databases : d # None

\* The phases of the exchange, each over the items in order, and the two of
\* its exception handler.
Exchanging == {"discard", "aside", "install", "validate", "cleanup"}
Undoing == {"erase", "putBack"}

VARIABLES
  live,      \* what is at database_path, attachments_dir, archives_dir
  previous,  \* what is at their restore-previous names
  file,      \* the archives in backups_dir: the items as they were
  issued,    \* archive names given out so far
  storing,   \* commits whose files are stored and whose row is not committed
  purging,   \* the commit, if any, whose file a purge has deleted before its row
  stage,     \* where each maker of an archive is,
  made,      \* the archive it makes,
  snapshot,  \* and the items it packs
  phase,     \* where restore is,
  item,      \* the position of the item it moves,
  source,    \* the archive it restores,
  new,       \* and the items extracted from it
  before,    \* history: the business data when restore closed the gate
  replaced,  \* history: business data restores have taken away, until an
             \* administrator has its archive purged
  exposed    \* history: has an exchange or a purge died halfway, or failed
             \* where nothing undoes it?

making == <<stage, made, snapshot>>
writing == <<storing, purging>>
restoring == <<phase, item, source, new, before>>
vars == <<live, previous, file, issued, writing, making, restoring, replaced, exposed>>

Absent == [i \in Items |-> None]

NewDatabase == [commits |-> {}, record |-> [b \in Backups |-> None]]

\* ensure_directories and create_schema make what is missing.
Created(items) ==
  [i \in Items |-> IF items[i] # None THEN items[i]
                   ELSE IF i = "database" THEN NewDatabase ELSE {}]

Init ==
  /\ live = Created(Absent)
  /\ previous = Absent
  /\ file = [b \in Backups |-> Absent]
  /\ issued = 0
  /\ storing = {}
  /\ purging = {}
  /\ stage = [m \in Makers |-> "idle"]
  /\ made = [m \in Makers |-> 0]
  /\ snapshot = [m \in Makers |-> Absent]
  /\ phase = "idle"
  /\ item = 1
  /\ source = 0
  /\ new = Absent
  /\ before = Absent
  /\ replaced = {}
  /\ exposed = FALSE

-----------------------------------------------------------------------------

\* The business data of some items: their commits and files, without records.
Datum(i, v) == IF i = "database" /\ v # None THEN v.commits ELSE v
Data(items) == [i \in Items |-> Datum(i, items[i])]

\* Every file a database refers to is there.
Whole(items) ==
  /\ \A i \in Items : items[i] # None
  /\ Data(items)["database"] \subseteq items["attachments"]

GateOpen == phase = "idle"
Served == GateOpen /\ live["database"] # None

\* A transaction may write: the gate lets it pass and nobody, the purge being
\* the only one with a step in between, has the write lock.
Writable == Served /\ purging = {}

\* The owner of the gate passes it; no purge is left when it closes.
Admitted(m) == IF m = "restore" THEN live["database"] # None ELSE Writable

Record(b) == live["database"].record[b]
Recorded(b) == live["database"] # None /\ Record(b) # None
Usable(b) == Recorded(b) /\ Record(b).completed /\ ~Record(b).deleted

SetRecords(records) == live' = [live EXCEPT !["database"].record = records]
SetRecord(b, r) == SetRecords([live["database"].record EXCEPT ![b] = r])
SetCompleted(b, c) == SetRecord(b, [Record(b) EXCEPT !.completed = c])

\* verify_backup passes: archives only appear complete, by os.replace.
Present(b) == file[b] # Absent

\* Faulty... variants are mistakes a change of this code could make; they are
\* not part of the specification.

-----------------------------------------------------------------------------
(* Business transactions and the record keeping of administrators.  Each    *)
(* has its session's transaction open from its first query to its commit,   *)
(* and restore waits for that (module DatabaseRuntime).                     *)

\* save_attachment, save_archive_upload: the file first, under its final name
\* (a missing directory is made) ...
Store(c) ==
  /\ Served
  /\ c \notin storing \cup live["database"].commits
  /\ storing' = storing \cup {c}
  /\ live' = [live EXCEPT !["attachments"] = Created(live)["attachments"] \cup {c}]
  /\ UNCHANGED <<previous, file, issued, purging, making, restoring, replaced, exposed>>

\* ... then the row that refers to it.
Commit(c) ==
  /\ Writable
  /\ c \in storing
  /\ storing' = storing \ {c}
  /\ live' = [live EXCEPT !["database"].commits = @ \cup {c}]
  /\ UNCHANGED <<previous, file, issued, purging, making, restoring, replaced, exposed>>

\* ... or the request fails after the file is placed.
Abort(c) ==
  /\ c \in storing
  /\ storing' = storing \ {c}
  /\ UNCHANGED <<live, previous, file, issued, purging, making, restoring, replaced, exposed>>

\* purge_expired_deleted_attachments: under the write lock of its transaction
\* it unlinks the file, if nobody uses it ...
PurgeFile(c) ==
  /\ Writable
  /\ c \in live["database"].commits
  /\ purging' = {c}
  /\ live' \in {live, [live EXCEPT !["attachments"] = IF @ = None THEN None ELSE @ \ {c}]}
  /\ UNCHANGED <<previous, file, issued, storing, making, restoring, replaced, exposed>>

\* ... then commits the deletion of the row.
PurgeRow ==
  /\ purging # {}
  /\ purging' = {}
  /\ \/ live' = [live EXCEPT !["database"].commits = @ \ purging] /\ UNCHANGED exposed
     \/ UNCHANGED live /\ exposed' = TRUE
  /\ UNCHANGED <<previous, file, issued, storing, making, restoring, replaced>>

\* delete_backup: not the last completed one.  Of those that are not completed
\* only the record is at stake, and they are left alone here.
Trash(b) ==
  /\ Writable
  /\ Usable(b)
  /\ \E a \in Backups \ {b} : Usable(a)
  /\ SetRecord(b, [Record(b) EXCEPT !.deleted = TRUE])
  /\ UNCHANGED <<previous, file, issued, writing, making, restoring, replaced, exposed>>

\* restore_deleted_backup
Untrash(b) ==
  /\ Writable
  /\ Recorded(b) /\ Record(b).deleted /\ Present(b)
  /\ SetRecord(b, [Record(b) EXCEPT !.deleted = FALSE])
  /\ UNCHANGED <<previous, file, issued, writing, making, restoring, replaced, exposed>>

\* import_backup, of a copy somebody kept of archive b.
Import(b) ==
  /\ Writable
  /\ issued < MaxBackups
  /\ Present(b)
  /\ issued' = issued + 1
  /\ file' = [file EXCEPT ![issued + 1] = file[b]]
  /\ SetRecord(issued + 1, [kind |-> "imported", completed |-> TRUE, deleted |-> FALSE])
  /\ UNCHANGED <<previous, writing, making, restoring, replaced, exposed>>

-----------------------------------------------------------------------------
(* create_backup                                                            *)

FaultyBegin(m) ==
  /\ stage[m] = "idle"
  /\ Admitted(m)
  /\ m = "restore" => phase = "backup"
  /\ issued < MaxBackups
  /\ SetRecord(issued + 1, [kind |-> Kind(m), completed |-> FALSE, deleted |-> FALSE])
  /\ stage' = [stage EXCEPT ![m] = "recorded"]
  /\ made' = [made EXCEPT ![m] = issued + 1]
  /\ UNCHANGED <<previous, file, issued, writing, snapshot, restoring, replaced, exposed>>

\* The record, status "running", is committed before anything else.
Begin(m) ==
  /\ stage[m] = "idle"
  /\ Admitted(m)
  /\ m = "restore" => phase = "backup"
  /\ issued < MaxBackups
  /\ issued' = issued + 1
  /\ SetRecord(issued + 1, [kind |-> Kind(m), completed |-> FALSE, deleted |-> FALSE])
  /\ stage' = [stage EXCEPT ![m] = "recorded"]
  /\ made' = [made EXCEPT ![m] = issued + 1]
  /\ UNCHANGED <<previous, file, writing, snapshot, restoring, replaced, exposed>>

\* Reading the record back (db.refresh) opens the maker's next transaction.
\* create_backup_archive makes missing directories, then takes the database and
\* the list of files under the write lock.
Snapshot(m) ==
  /\ stage[m] = "recorded"
  /\ Admitted(m)
  /\ Recorded(made[m])
  /\ live' = Created(live)
  /\ snapshot' = [snapshot EXCEPT ![m] = Created(live)]
  /\ stage' = [stage EXCEPT ![m] = "pack"]
  /\ UNCHANGED <<previous, file, issued, writing, made, restoring, replaced, exposed>>

\* The listed files are read later, without the lock.
Readable(m) == snapshot[m]["attachments"] \subseteq live["attachments"]

FaultyPack(m) ==
  /\ stage[m] = "pack"
  /\ file' = [file EXCEPT ![made[m]] =
                [snapshot[m] EXCEPT !["attachments"] = @ \cap live["attachments"]]]
  /\ snapshot' = [snapshot EXCEPT ![m] = Absent]
  /\ stage' = [stage EXCEPT ![m] = "complete"]
  /\ UNCHANGED <<live, previous, issued, writing, made, restoring, replaced, exposed>>

Pack(m) ==
  /\ stage[m] = "pack"
  /\ Readable(m)
  /\ file' = [file EXCEPT ![made[m]] = snapshot[m]]
  /\ snapshot' = [snapshot EXCEPT ![m] = Absent]
  /\ stage' = [stage EXCEPT ![m] = "complete"]
  /\ UNCHANGED <<live, previous, issued, writing, made, restoring, replaced, exposed>>

\* The maker is done; restore goes on to the given point with it.
Finish(m, point) ==
  /\ stage' = [stage EXCEPT ![m] = "idle"]
  /\ made' = [made EXCEPT ![m] = 0]
  /\ snapshot' = [snapshot EXCEPT ![m] = Absent]
  /\ phase' = IF m = "restore" THEN point ELSE phase
  /\ UNCHANGED <<item, source, new, before>>

Automatic == {b \in Backups : Usable(b) /\ Record(b).kind = "automatic"}

\* The newest ones; the weekly ones kept besides depend on the calendar.
Newest == {b \in Automatic : Cardinality({a \in Automatic : a > b}) < DailyKeep}

Trashed == {b \in Backups : Recorded(b) /\ Record(b).deleted}

\* apply_retention removes archives whose time in the trash is over, and
\* automatic ones beyond those kept.
Removable == Trashed \cup (Automatic \ Newest)

RemoveFiles(gone) ==
  /\ file' = [b \in Backups |-> IF b \in gone THEN Absent ELSE file[b]]
  /\ replaced' = replaced \ {Data(file[b]) : b \in gone \cap Trashed}

FaultyFail(m) ==
  /\ stage[m] # "idle"
  /\ Finish(m, "extract")
  /\ UNCHANGED <<live, file, replaced>>
  /\ UNCHANGED <<previous, issued, writing, exposed>>

\* The maker's record says that it failed; of the archives that retention removed
\* before, the records go with the same commit.
Failed(m, struck) ==
  SetRecords([b \in Backups |->
    IF b \in struck THEN None
    ELSE IF b = made[m] THEN [Record(b) EXCEPT !.completed = FALSE] ELSE Record(b)])

\* Any step fails, the retention after completion included, which may have
\* removed some of its files: the record is marked and the new archive removed,
\* unless that fails as well, as it must while the gate is closed or when the
\* database no longer has the record.  The records of the removed archives go,
\* unless it was their commit that failed.
Fail(m) ==
  /\ stage[m] # "idle"
  /\ Finish(m, "reopen")
  /\ \/ UNCHANGED <<live, file, replaced>>
     \/ /\ Admitted(m)
        /\ \E gone \in IF stage[m] = "retain" THEN SUBSET Removable ELSE {{}} :
             \/ RemoveFiles(gone) /\ UNCHANGED live
             \/ /\ Recorded(made[m])
                /\ RemoveFiles(gone \cup {made[m]})
                /\ \E struck \in {gone, {}} : Failed(m, struck)
  /\ UNCHANGED <<previous, issued, writing, exposed>>

Complete(m) ==
  /\ stage[m] = "complete"
  /\ Admitted(m)
  /\ Recorded(made[m])
  /\ SetCompleted(made[m], TRUE)
  /\ stage' = [stage EXCEPT ![m] = "retain"]
  /\ UNCHANGED <<previous, file, issued, writing, made, snapshot, restoring, replaced, exposed>>

Retain(m) ==
  /\ stage[m] = "retain"
  /\ Admitted(m)
  /\ \E gone \in SUBSET Removable :
       /\ RemoveFiles(gone)
       /\ SetRecords([b \in Backups |-> IF b \in gone THEN None ELSE Record(b)])
  /\ Finish(m, "extract")
  /\ UNCHANGED <<previous, issued, writing, exposed>>

-----------------------------------------------------------------------------
(* restore_backup                                                           *)

\* restore_existing_backup and verify_backup, then exclusive_maintenance once
\* no transaction is open.  One step: what may happen to the archive in between
\* may also happen to it behind the gate, before Extract.
CloseGate(b) ==
  /\ "restore" \in Makers
  /\ Served
  /\ Usable(b) /\ Present(b)
  /\ storing = {} /\ purging = {}
  /\ \A m \in Makers : stage[m] \notin {"pack", "complete"}
  /\ phase' = "backup"
  /\ source' = b
  /\ before' = Data(live)
  /\ UNCHANGED <<live, previous, file, issued, writing, making, item, new, replaced, exposed>>

\* The retention of the pre-restore backup may have purged the archive.
Extract ==
  /\ phase = "extract"
  /\ Present(source)
  /\ phase' = "discard"
  /\ new' = file[source]
  /\ replaced' = replaced \cup {Data(live)}
  /\ UNCHANGED <<live, previous, file, issued, writing, making, item, source, before, exposed>>

ExtractFails ==
  /\ phase = "extract"
  /\ phase' = "reopen"
  /\ UNCHANGED <<live, previous, file, issued, writing, making, item, source, new, before,
                 replaced, exposed>>

Item == Order[item]

\* On to the next item, or with the first item to the next phase.
Advance(next) ==
  IF item < 3 THEN item' = item + 1 /\ phase' = phase
              ELSE item' = 1 /\ phase' = next

Still == UNCHANGED <<file, issued, writing, making, source, new, before, replaced, exposed>>

Discard ==
  /\ phase = "discard"
  /\ previous' = [previous EXCEPT ![Item] = None]
  /\ Advance("aside")
  /\ UNCHANGED live
  /\ Still

Aside ==
  /\ phase = "aside"
  /\ live' = [live EXCEPT ![Item] = None]
  /\ previous' = [previous EXCEPT ![Item] = IF live[Item] = None THEN @ ELSE live[Item]]
  /\ Advance("install")
  /\ Still

FaultyInstall ==
  /\ phase = "install"
  /\ live' = [live EXCEPT ![Item] = new[Item]]
  /\ previous' = [previous EXCEPT ![Item] = None]
  /\ Advance("validate")
  /\ Still

\* A copy that fails halfway is erased like a complete one.
Install ==
  /\ phase = "install"
  /\ live' = [live EXCEPT ![Item] = new[Item]]
  /\ Advance("validate")
  /\ UNCHANGED previous
  /\ Still

\* rebuild, create_schema, validate_capabilities
Validate ==
  /\ phase = "validate"
  /\ phase' = "cleanup"
  /\ UNCHANGED <<live, previous, item>>
  /\ Still

Cleanup ==
  /\ phase = "cleanup"
  /\ previous' = [previous EXCEPT ![Item] = None]
  /\ Advance("reopen")
  /\ UNCHANGED live
  /\ Still

\* A file operation or the validation raises.  A tree whose removal raises has
\* lost some of its files.
Raise ==
  /\ phase \in Exchanging
  /\ phase \in {"discard", "cleanup"} => previous[Item] # None
  /\ phase = "aside" => live[Item] # None
  /\ phase' = "erase"
  /\ item' = 1
  /\ exposed' = (exposed \/ phase \notin {"install", "validate"})
  /\ \/ UNCHANGED previous
     \/ /\ phase \in {"discard", "cleanup"}
        /\ Item # "database"
        /\ \E rest \in SUBSET previous[Item] : previous' = [previous EXCEPT ![Item] = rest]
  /\ UNCHANGED <<live, file, issued, writing, making, source, new, before, replaced>>

Erase ==
  /\ phase = "erase"
  /\ live' = [live EXCEPT ![Item] = None]
  /\ Advance("putBack")
  /\ UNCHANGED previous
  /\ Still

FaultyPutBack ==
  /\ phase = "putBack"
  /\ live' = [live EXCEPT ![Item] = IF previous[Item] = None THEN @ ELSE previous[Item]]
  /\ previous' = [previous EXCEPT ![Item] = None]
  /\ IF item < 2 THEN item' = item + 1 /\ phase' = phase
                 ELSE item' = 1 /\ phase' = "reopen"
  /\ Still

PutBack ==
  /\ phase = "putBack"
  /\ live' = [live EXCEPT ![Item] = IF previous[Item] = None THEN @ ELSE previous[Item]]
  /\ previous' = [previous EXCEPT ![Item] = None]
  /\ Advance("reopen")
  /\ Still

\* The exception handler itself raises.
UndoFails ==
  /\ HandlerFails
  /\ phase \in Undoing
  /\ phase' = "reopen"
  /\ exposed' = TRUE
  /\ UNCHANGED <<live, previous, file, issued, writing, making, item, source, new, before,
                 replaced>>

GateIsOpen ==
  /\ phase' = "idle"
  /\ item' = 1
  /\ source' = 0
  /\ new' = Absent
  /\ before' = Absent

Reopen ==
  /\ phase = "reopen"
  /\ GateIsOpen
  /\ UNCHANGED <<live, previous, file, issued, writing, making, replaced, exposed>>

\* The process dies and starts again: nothing looks for an exchange in
\* progress, a missing database is created anew.
Restart ==
  /\ live' = Created(live)
  /\ storing' = {}
  /\ purging' = {}
  /\ stage' = [m \in Makers |-> "idle"]
  /\ made' = [m \in Makers |-> 0]
  /\ snapshot' = [m \in Makers |-> Absent]
  /\ GateIsOpen
  /\ exposed' = (exposed \/ purging # {} \/ phase \in Exchanging \cup Undoing)
  /\ UNCHANGED <<previous, file, issued, replaced>>

-----------------------------------------------------------------------------

Make(m) ==
  \/ Begin(m) \/ Snapshot(m) \/ Pack(m) \/ Fail(m) \/ Complete(m) \/ Retain(m)

Exchange ==
  \/ Discard \/ Aside \/ Install \/ Validate \/ Cleanup
  \/ Raise \/ Erase \/ PutBack \/ UndoFails

Next ==
  \/ \E c \in Commits : Store(c) \/ Commit(c) \/ Abort(c) \/ PurgeFile(c)
  \/ PurgeRow
  \/ \E b \in Backups : Trash(b) \/ Untrash(b) \/ Import(b) \/ CloseGate(b)
  \/ \E m \in Makers : Make(m)
  \/ Extract \/ ExtractFails
  \/ Exchange
  \/ Reopen \/ Restart

Spec == Init /\ [][Next]_vars

-----------------------------------------------------------------------------
(* Properties.                                                              *)

Value(i) ==
  {None} \cup CASE i = "database" -> Databases
               [] i = "attachments" -> SUBSET Commits
               [] i = "archives" -> {{}}

WellFormed(items) ==
  items = [i \in Items |-> items[i]] /\ \A i \in Items : items[i] \in Value(i)

TypeOK ==
  /\ WellFormed(live)
  /\ WellFormed(previous)
  /\ file = [b \in Backups |-> file[b]] /\ \A b \in Backups : WellFormed(file[b])
  /\ issued \in 0..MaxBackups
  /\ storing \subseteq Commits
  /\ purging \subseteq Commits
  /\ stage \in [Makers -> {"idle", "recorded", "pack", "complete", "retain"}]
  /\ made \in [Makers -> 0..issued]
  /\ \A m \in Makers : stage[m] # "idle" => made[m] # 0
  /\ snapshot = [m \in Makers |-> snapshot[m]] /\ \A m \in Makers : WellFormed(snapshot[m])
  /\ phase \in {"idle", "backup", "extract", "reopen"} \cup Exchanging \cup Undoing
  /\ item \in 1..3
  /\ source \in Backups \cup {0}
  /\ phase # "idle" => source # 0
  /\ WellFormed(new)
  /\ exposed \in BOOLEAN

\* What a restore takes away can be had back: the backups directory holds an
\* archive with exactly the data the exchange replaced, whatever fails, whenever
\* the process dies and whatever retention does, until an administrator moves
\* that archive to the trash and it is purged (restore_backup makes it behind
\* the closed gate; its record is exchanged with the database).
ReplacedDataIsKept ==
  \A d \in replaced : \E b \in Backups : Data(file[b]) = d

\* An archive has every file its database refers to, although the files are
\* read after the write lock is released, when a purge may delete them
\* (create_backup_archive).  A purge that dies leaves rows without files, and so
\* may an exchange; later archives preserve that.
ArchivesAreWhole ==
  ~exposed => \A b \in Backups : Present(b) => Whole(file[b])

\* The database and both trees are exchanged together: requests never see rows
\* whose files belong to another state.
ServedDataIsWhole ==
  GateOpen /\ ~exposed /\ purging = {} => Whole(live)

\* A restore leaves the data it found or the data of its archive, nothing else
\* (docs/backup-restore.md, restore step 6 and the paragraph on errors).
RestoreIsAllOrNothing ==
  phase = "reopen" => Data(live) \in {before, Data(new)}

\* ... if it fails where the exception handler can undo it, while or after the
\* new items are installed and until they are validated.
UndoneOrDone == ~exposed => RestoreIsAllOrNothing
=============================================================================
