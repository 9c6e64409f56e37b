--------------------------- MODULE AttachmentStore ---------------------------
(***************************************************************************)
(* The content-addressed attachment store (storage.py, archive_service.py,  *)
(* workspace.py, the purge of the scheduler's cycle): a file per content    *)
(* hash on the disk, a FileBlob row per hash, and the versions, that is the *)
(* rows of task materials and of archive records that refer to a hash.      *)
(*                                                                          *)
(* Rows change under the process-wide write lock; files do not.  An upload  *)
(* to a material puts its file in place BEFORE it takes the lock, and a     *)
(* rollback looks for the file before it takes the lock, while the purge    *)
(* deletes files inside its transaction, before the transaction commits.    *)
(*                                                                          *)
(* Every material here belongs to a task of its own, whose version number   *)
(* appears only through what it decides: whether a rollback was overtaken.  *)
(***************************************************************************)
EXTENDS Integers, FiniteSets

CONSTANTS
  Materials,    \* material items of tasks
  Archives,     \* archive records
  Hashes,       \* contents
  UploadIds,    \* client_upload_id values
  Clients,      \* requests that may be in flight at once
  MaxVersions,  \* bound on versions ever created
  None

Places == Materials \cup Archives
Versions == 1..MaxVersions

\* A version: in use, in the recycle bin, or there beyond purge_after.
Rows == [place : Places, blob : Hashes, upload : UploadIds \cup {None},
         final : BOOLEAN, wasFinal : BOOLEAN,
         life : {"live", "trash", "expired"}]

Uploads == [kind : {"upload"}, place : Materials, blob : Hashes,
            upload : UploadIds \cup {None}, final : BOOLEAN]
Rollbacks == [kind : {"rollback"}, target : Versions, fresh : BOOLEAN]

\* The purge's transaction: the rows it deletes, the hashes it has yet to look
\* at, the hashes whose FileBlob row it deletes.
Purges == [rows : SUBSET Versions, todo : SUBSET Hashes, gone : SUBSET Hashes]

ASSUME StoreAssumption ==
  /\ IsFiniteSet(Hashes)
  /\ MaxVersions \in Nat
  /\ Materials \cap Archives = {}
  /\ None \notin UploadIds
  /\ \A r \in Rows : r # None
  /\ \A j \in Uploads : j # None
  /\ \A j \in Rollbacks : j # None
  /\ \A p \in Purges : p # None

VARIABLES
  row,      \* the versions committed
  made,     \* versions created so far
  blobs,    \* hashes with a FileBlob row
  frozen,   \* hashes a WorkspaceLink of type "frozen" refers to
  files,    \* hashes with a file in the attachments directory
  sealed,   \* materials whose task is archived
  job,      \* per client: the upload or rollback that has not got the lock
  purge,    \* the purge that holds the write lock, or None
  exposed   \* history: hashes whose file a purge took from under a request, or
            \* took without committing

vars == <<row, made, blobs, frozen, files, sealed, job, purge, exposed>>

Init ==
  /\ row = [v \in Versions |-> None]
  /\ made = 0
  /\ blobs = {}
  /\ frozen = {}
  /\ files = {}
  /\ sealed = {}
  /\ job = [c \in Clients |-> None]
  /\ purge = None
  /\ exposed = {}

-----------------------------------------------------------------------------

Existing == {v \in Versions : row[v] # None}
In(p) == {v \in Existing : row[v].place = p}
Finals(p) == {v \in In(p) : row[v].final}

\* Faulty... variants are mistakes a change of this code could make; they are
\* not part of the specification.

\* The purge selects before its first write, thus without the lock.
FaultyLockFree == TRUE

\* Every other section that takes the write lock is one step here.
LockFree == purge = None

\* A change of a material raises the version of its task: rollbacks that were
\* checked before it will be refused.
Overtaken(p) ==
  [c \in Clients |->
     IF job[c] \in Rollbacks /\ row[job[c].target] # None
        /\ row[job[c].target].place = p
     THEN [job[c] EXCEPT !.fresh = FALSE] ELSE job[c]]

Version(p, h, u, f) ==
  [place |-> p, blob |-> h, upload |-> u, final |-> f, wasFinal |-> FALSE,
   life |-> "live"]

\* A file is put in place only where there is none.
PutFile(h) ==
  /\ files' = files \cup {h}
  /\ exposed' = exposed \ (IF h \in files THEN {} ELSE {h})

-----------------------------------------------------------------------------
(* Uploads.                                                                 *)

Known(u) == u # None /\ \E v \in Existing : row[v].upload = u

\* What save_attachment checks on entry, and again once it has the lock.
Acceptable(p, u) == p \notin sealed /\ Finals(p) = {} /\ ~Known(u)

\* The request was checked and received; its file goes in place, unlocked.
Place(c, p, h, u, f) ==
  /\ job[c] = None
  /\ made < MaxVersions
  /\ Acceptable(p, u)
  /\ PutFile(h)
  /\ job' = [job EXCEPT ![c] = [kind |-> "upload", place |-> p, blob |-> h,
                                upload |-> u, final |-> f]]
  /\ UNCHANGED <<row, made, blobs, frozen, sealed, purge>>

\* No second look.
FaultyCommitUpload(c) ==
  /\ LockFree
  /\ job[c] \in Uploads
  /\ made < MaxVersions
  /\ LET j == job[c] IN
       /\ made' = made + 1
       /\ row' = [row EXCEPT ![made + 1] = Version(j.place, j.blob, j.upload, j.final)]
       /\ blobs' = blobs \cup {j.blob}
       /\ job' = [Overtaken(j.place) EXCEPT ![c] = None]
  /\ UNCHANGED <<frozen, files, sealed, purge, exposed>>

\* The rest of save_attachment, under the lock: the version and its blob row.
CommitUpload(c) ==
  /\ LockFree
  /\ job[c] \in Uploads
  /\ made < MaxVersions
  /\ LET j == job[c] IN
       /\ Acceptable(j.place, j.upload)
       /\ made' = made + 1
       /\ row' = [row EXCEPT ![made + 1] = Version(j.place, j.blob, j.upload, j.final)]
       /\ blobs' = blobs \cup {j.blob}
       /\ job' = [Overtaken(j.place) EXCEPT ![c] = None]
  /\ UNCHANGED <<frozen, files, sealed, purge, exposed>>

\* ... or its refusal (409), or the answer to a repeated upload: the file stays.
RefuseUpload(c) ==
  /\ LockFree
  /\ job[c] \in Uploads
  /\ ~Acceptable(job[c].place, job[c].upload)
  /\ job' = [job EXCEPT ![c] = None]
  /\ UNCHANGED <<row, made, blobs, frozen, files, sealed, purge, exposed>>

\* The number of the new version is not taken.
FaultyArchiveUpload(p, h) ==
  /\ LockFree
  /\ made < MaxVersions
  /\ PutFile(h)
  /\ row' = [row EXCEPT ![made + 1] = Version(p, h, None, FALSE)]
  /\ blobs' = blobs \cup {h}
  /\ UNCHANGED <<made, frozen, sealed, job, purge>>

\* A scan for an archive record: its router holds the lock around everything.
\* (Its client_upload_id, an answer to a repeated scan, is left out.)
ArchiveUpload(p, h) ==
  /\ LockFree
  /\ made < MaxVersions
  /\ PutFile(h)
  /\ made' = made + 1
  /\ row' = [row EXCEPT ![made + 1] = Version(p, h, None, FALSE)]
  /\ blobs' = blobs \cup {h}
  /\ UNCHANGED <<frozen, sealed, job, purge>>

\* A copy of a workspace file, kept: also within the lock.
Freeze(h) ==
  /\ LockFree
  /\ h \notin frozen
  /\ PutFile(h)
  /\ blobs' = blobs \cup {h}
  /\ frozen' = frozen \cup {h}
  /\ UNCHANGED <<row, made, sealed, job, purge>>

-----------------------------------------------------------------------------
(* The recycle bin.                                                         *)

SetRow(v, r) ==
  /\ row' = [row EXCEPT ![v] = r]
  /\ job' = Overtaken(row[v].place)

Delete(v) ==
  /\ LockFree
  /\ row[v] # None
  /\ row[v].life = "live"
  /\ SetRow(v, [row[v] EXCEPT !.life = "trash", !.final = FALSE,
                              !.wasFinal = row[v].final])
  /\ UNCHANGED <<made, blobs, frozen, files, sealed, purge, exposed>>

\* Whatever has happened since.
FaultyRegainsFinal(v) == row[v].wasFinal

\* A final version is final again only where no other has become it.
RegainsFinal(v) == row[v].wasFinal /\ Finals(row[v].place) = {}

Restore(v) ==
  /\ LockFree
  /\ row[v] # None
  /\ row[v].life # "live"
  /\ SetRow(v, [row[v] EXCEPT !.life = "live", !.final = RegainsFinal(v),
                              !.wasFinal = FALSE])
  /\ UNCHANGED <<made, blobs, frozen, files, sealed, purge, exposed>>

\* purge_after passes.
Expire(v) ==
  /\ row[v] # None
  /\ row[v].life = "trash"
  /\ row' = [row EXCEPT ![v].life = "expired"]
  /\ UNCHANGED <<made, blobs, frozen, files, sealed, job, purge, exposed>>

-----------------------------------------------------------------------------
(* Rollback: an older version's blob becomes a new final version.           *)

CheckRollback(c, v) ==
  /\ job[c] = None
  /\ made < MaxVersions
  /\ row[v] # None
  /\ row[v].place \in Materials \ sealed
  /\ row[v].blob \in blobs \cap files
  /\ job' = [job EXCEPT ![c] = [kind |-> "rollback", target |-> v, fresh |-> TRUE]]
  /\ UNCHANGED <<row, made, blobs, frozen, files, sealed, purge, exposed>>

\* Nothing changed the task since, and the target is there and not final.
StillPossible(j) ==
  /\ j.fresh
  /\ row[j.target] # None
  /\ row[j.target].place \notin sealed
  /\ ~row[j.target].final

CommitRollback(c) ==
  /\ LockFree
  /\ job[c] \in Rollbacks
  /\ made < MaxVersions
  /\ StillPossible(job[c])
  /\ LET target == row[job[c].target]
         demoted == [v \in Versions |->
                       IF v \in Finals(target.place)
                       THEN [row[v] EXCEPT !.final = FALSE] ELSE row[v]]
     IN /\ row' = [demoted EXCEPT ![made + 1] =
                     Version(target.place, target.blob, None, TRUE)]
        /\ job' = [Overtaken(target.place) EXCEPT ![c] = None]
  /\ made' = made + 1
  /\ UNCHANGED <<blobs, frozen, files, sealed, purge, exposed>>

RefuseRollback(c) ==
  /\ LockFree
  /\ job[c] \in Rollbacks
  /\ ~StillPossible(job[c])
  /\ job' = [job EXCEPT ![c] = None]
  /\ UNCHANGED <<row, made, blobs, frozen, files, sealed, purge, exposed>>

\* The task of a material is archived, or opened again.
Seal(p) ==
  /\ LockFree
  /\ sealed' = IF p \in sealed THEN sealed \ {p} ELSE sealed \cup {p}
  /\ job' = Overtaken(p)
  /\ UNCHANGED <<row, made, blobs, frozen, files, purge, exposed>>

-----------------------------------------------------------------------------
(* The purge of the scheduler's cycle.  Its transaction has written before  *)
(* it selects, so it holds the write lock from here to its end.             *)

Expired == {v \in Existing : row[v].life = "expired"}

BeginPurge ==
  /\ LockFree
  /\ Expired # {}
  /\ purge' = [rows |-> Expired, todo |-> {row[v].blob : v \in Expired}, gone |-> {}]
  /\ UNCHANGED <<row, made, blobs, frozen, files, sealed, job, exposed>>

\* What the purge takes for a reference: any other version, live or not.
Referenced(h) == \E v \in Existing \ purge.rows : row[v].blob = h

\* Versions in the recycle bin do not count.
FaultyRemovable(h) ==
  /\ h \in blobs
  /\ \A v \in Existing \ purge.rows : row[v].blob = h => row[v].life # "live"

Removable(h) == h \in blobs /\ ~Referenced(h)

Requested(h) == \E c \in Clients : job[c] \in Uploads /\ job[c].blob = h

RemoveFile(h) ==
  /\ purge # None
  /\ h \in purge.todo
  /\ Removable(h)
  /\ files' = files \ {h}
  /\ purge' = [purge EXCEPT !.todo = @ \ {h}, !.gone = @ \cup {h}]
  /\ exposed' = exposed \cup (IF Requested(h) THEN {h} ELSE {})
  /\ UNCHANGED <<row, made, blobs, frozen, sealed, job>>

\* The blob is referred to, or its file cannot be deleted now: both stay.
KeepFile(h) ==
  /\ purge # None
  /\ h \in purge.todo
  /\ purge' = [purge EXCEPT !.todo = @ \ {h}]
  /\ UNCHANGED <<row, made, blobs, frozen, files, sealed, job, exposed>>

CommitPurge ==
  /\ purge # None
  /\ purge.todo = {}
  /\ row' = [v \in Versions |-> IF v \in purge.rows THEN None ELSE row[v]]
  /\ blobs' = blobs \ purge.gone
  /\ purge' = None
  /\ UNCHANGED <<made, frozen, files, sealed, job, exposed>>

\* An exception rolls the transaction back, not the files.
FailPurge ==
  /\ purge # None
  /\ purge' = None
  /\ exposed' = exposed \cup (purge.gone \ files)
  /\ UNCHANGED <<row, made, blobs, frozen, files, sealed, job>>

\* The process ends, whatever it is doing.
Crash ==
  /\ purge # None \/ \E c \in Clients : job[c] # None
  /\ job' = [c \in Clients |-> None]
  /\ purge' = None
  /\ exposed' = exposed \cup (IF purge = None THEN {} ELSE purge.gone \ files)
  /\ UNCHANGED <<row, made, blobs, frozen, files, sealed>>

-----------------------------------------------------------------------------

Next ==
  \/ \E c \in Clients, p \in Materials, h \in Hashes, u \in UploadIds \cup {None},
        f \in BOOLEAN : Place(c, p, h, u, f)
  \/ \E c \in Clients : \/ CommitUpload(c) \/ RefuseUpload(c)
                        \/ CommitRollback(c) \/ RefuseRollback(c)
  \/ \E c \in Clients, v \in Versions : CheckRollback(c, v)
  \/ \E p \in Archives, h \in Hashes : ArchiveUpload(p, h)
  \/ \E h \in Hashes : Freeze(h) \/ RemoveFile(h) \/ KeepFile(h)
  \/ \E v \in Versions : Delete(v) \/ Restore(v) \/ Expire(v)
  \/ \E p \in Materials : Seal(p)
  \/ BeginPurge
  \/ CommitPurge
  \/ FailPurge
  \/ Crash

Spec == Init /\ [][Next]_vars

-----------------------------------------------------------------------------

TypeOK ==
  /\ row \in [Versions -> Rows \cup {None}]
  /\ made \in 0..MaxVersions
  /\ \A v \in Existing : v <= made
  /\ blobs \subseteq Hashes
  /\ frozen \subseteq Hashes
  /\ files \subseteq Hashes
  /\ sealed \subseteq Materials
  /\ job \in [Clients -> Uploads \cup Rollbacks \cup {None}]
  /\ purge \in Purges \cup {None}
  /\ exposed \subseteq Hashes

\* However uploads, rollbacks and restores from the recycle bin overlap, a
\* material never has two final versions (save_attachment's comment on its
\* second look under the lock): what the database's unique index
\* ux_attachment_final_per_material would answer with an error never happens.
OneFinalVersion ==
  \A p \in Places : \A v, w \in Finals(p) : v = w

\* A repeated upload, even one that overtakes the first, adds no second
\* version, to the same place or to another.
UploadsAreIdempotent ==
  \A v, w \in Existing :
     row[v].upload # None /\ row[v].upload = row[w].upload => v = w

\* A request that was checked and received while its task was open adds
\* nothing once the task is archived.
SealedMaterialsGainNothing ==
  [][\A v \in Versions :
       row[v] = None /\ row'[v] # None => row'[v].place \notin sealed]_vars

\* A version that disappears had been beyond its time in the recycle bin until
\* the step that removes it: restoring it in time is enough to keep it.  And a
\* file that disappears belongs to no version but those.
PurgeTakesOnlyTrash ==
  [][/\ \A v \in Existing : row'[v] = None => row[v].life = "expired"
     /\ \A v \in Existing : row[v].blob \in files \ files'
                           => row[v].life = "expired"]_vars

\* A committed version lacks its file only where a purge took the file from
\* under a request that had put or found it, or took it and did not commit.
MissingFilesAreExposed ==
  \A v \in Existing : row[v].blob \in files \cup exposed
                        \/ (purge # None /\ row[v].blob \in purge.gone)

=============================================================================
