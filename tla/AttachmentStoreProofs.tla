----------------------- MODULE AttachmentStoreProofs -----------------------
(***************************************************************************)
(* Proofs about the attachment store, for any number of materials, archive  *)
(* records, contents, clients and versions.                                 *)
(*                                                                          *)
(* The invariant has three facts beside the properties themselves: the file *)
(* of an upload that waits for the lock is there or exposed (Requests),     *)
(* what the purge's transaction deletes stays expired while it holds the    *)
(* lock (Doomed), and the versions whose file it has deleted are among them *)
(* (Taken).                                                                 *)
(***************************************************************************)
EXTENDS AttachmentStore, TLAPS

Requests ==
  \A c \in Clients : job[c] \in Uploads => job[c].blob \in files \cup exposed

Doomed ==
  purge # None => \A v \in purge.rows : row[v] # None /\ row[v].life = "expired"

Taken ==
  purge # None =>
    \A v \in Existing : row[v].blob \in purge.gone => v \in purge.rows

Inv ==
  /\ TypeOK
  /\ OneFinalVersion
  /\ UploadsAreIdempotent
  /\ MissingFilesAreExposed
  /\ Requests
  /\ Doomed
  /\ Taken

-----------------------------------------------------------------------------

(* An upload is not a rollback, and neither is nothing. *)
LEMMA Kinds ==
  /\ \A j \in Uploads : j \notin Rollbacks /\ j # None
  /\ \A j \in Rollbacks : j \notin Uploads /\ j # None
  /\ \A r \in Rows : r # None
  /\ \A p \in Purges : p # None
BY StoreAssumption DEF Uploads, Rollbacks

(* What a change of a place does to the requests under way: nothing to the
   uploads. *)
LEMMA OvertakenJobs ==
  ASSUME TypeOK, NEW p
  PROVE  /\ Overtaken(p) \in [Clients -> Uploads \cup Rollbacks \cup {None}]
         /\ \A c \in Clients : Overtaken(p)[c] \in Uploads => Overtaken(p)[c] = job[c]
<1>1. ASSUME NEW c \in Clients, job[c] \in Rollbacks
      PROVE  [job[c] EXCEPT !.fresh = FALSE] \in Rollbacks
  BY <1>1 DEF Rollbacks
<1> QED BY <1>1, Kinds DEF Overtaken, TypeOK

(* The version an upload makes. *)
LEMMA NewVersion ==
  ASSUME NEW p \in Places, NEW h \in Hashes, NEW u \in UploadIds \cup {None},
         NEW f \in BOOLEAN
  PROVE  /\ Version(p, h, u, f) \in Rows
         /\ Version(p, h, u, f).place = p
         /\ Version(p, h, u, f).blob = h
         /\ Version(p, h, u, f).upload = u
         /\ Version(p, h, u, f).final = f
         /\ Version(p, h, u, f).life = "live"
BY DEF Version, Rows

(* The next version's number is free. *)
LEMMA NextNumber ==
  ASSUME TypeOK, made < MaxVersions
  PROVE  made + 1 \in Versions /\ row[made + 1] = None
<1>1. made + 1 \in Versions
  BY StoreAssumption DEF TypeOK, Versions
<1> QED BY <1>1, StoreAssumption DEF TypeOK, Versions, Existing

-----------------------------------------------------------------------------
(* How the invariant survives, by the kind of change.                       *)

Backed == files \cup exposed

(* Requests come, go and are overtaken; the data stay. *)
LEMMA OnlyRequests ==
  ASSUME Inv,
         UNCHANGED <<row, made, blobs, frozen, files, purge, exposed>>,
         sealed' \subseteq Materials,
         job' \in [Clients -> Uploads \cup Rollbacks \cup {None}],
         \A c \in Clients : job'[c] \in Uploads => job'[c] = job[c]
  PROVE  Inv'
<1>1. TypeOK'
  BY DEF Inv, TypeOK, Existing
<1>2. OneFinalVersion' /\ UploadsAreIdempotent' /\ MissingFilesAreExposed'
  BY DEF Inv, OneFinalVersion, Finals, In, Existing, UploadsAreIdempotent,
         MissingFilesAreExposed
<1>3. Requests'
  BY DEF Inv, Requests
<1>4. Doomed' /\ Taken'
  BY DEF Inv, Doomed, Taken, Existing
<1> QED BY <1>1, <1>2, <1>3, <1>4 DEF Inv

(* Putting a file in place takes no other away. *)
LEMMA FilePut ==
  ASSUME NEW h \in Hashes, PutFile(h), TypeOK
  PROVE  /\ Backed \subseteq Backed'
         /\ h \in files'
         /\ files' \subseteq Hashes
         /\ exposed' \subseteq Hashes
BY DEF PutFile, Backed, TypeOK

(* A version is added, others may lose their finality, files may appear. *)
LEMMA VersionAdded ==
  ASSUME Inv, LockFree, made < MaxVersions,
         NEW r \in Rows,
         r.blob \in Backed',
         \A u \in UploadIds : r.upload = u => ~Known(u),
         row' \in [Versions -> Rows \cup {None}],
         row'[made + 1] = r,
         \A v \in Versions \ {made + 1} :
            \/ row'[v] = row[v]
            \/ row[v] # None /\ row'[v] = [row[v] EXCEPT !.final = FALSE],
         r.final => \A v \in Versions \ {made + 1} :
                       row'[v] # None /\ row'[v].place = r.place => ~row'[v].final,
         made' = made + 1,
         Backed \subseteq Backed',
         blobs' \subseteq Hashes, frozen' \subseteq Hashes,
         files' \subseteq Hashes, exposed' \subseteq Hashes,
         UNCHANGED <<sealed, purge>>,
         job' \in [Clients -> Uploads \cup Rollbacks \cup {None}],
         \A c \in Clients : job'[c] \in Uploads => job'[c] = job[c]
  PROVE  Inv'
<1> DEFINE n == made + 1
<1>n. n \in Versions /\ row[n] = None
  BY NextNumber DEF Inv
<1>s. \A v \in Versions \ {n} :
        row'[v] # None =>
          /\ row[v] # None
          /\ row[v] \in Rows
          /\ row'[v].place = row[v].place
          /\ row'[v].blob = row[v].blob
          /\ row'[v].upload = row[v].upload
          /\ row'[v].final => row[v].final
  <2> SUFFICES ASSUME NEW v \in Versions \ {n}, row'[v] # None
               PROVE  /\ row[v] # None
                      /\ row[v] \in Rows
                      /\ row'[v].place = row[v].place
                      /\ row'[v].blob = row[v].blob
                      /\ row'[v].upload = row[v].upload
                      /\ row'[v].final => row[v].final
    OBVIOUS
  <2>1. row[v] # None /\ row[v] \in Rows
    BY DEF Inv, TypeOK
  <2> QED BY <2>1 DEF Rows
<1>1. TypeOK'
  <2>1. \A v \in Versions : row'[v] # None => v <= made'
    BY <1>s DEF Inv, TypeOK, Versions, Existing
  <2>2. made' \in 0..MaxVersions
    BY StoreAssumption DEF Inv, TypeOK
  <2> QED BY <2>1, <2>2 DEF Inv, TypeOK, Existing
<1>2. OneFinalVersion'
  <2> SUFFICES ASSUME NEW p \in Places, NEW v \in Finals(p)', NEW w \in Finals(p)',
                      v # w
               PROVE  FALSE
    BY DEF OneFinalVersion
  <2>1. /\ v \in Versions /\ row'[v] # None /\ row'[v].place = p /\ row'[v].final
        /\ w \in Versions /\ row'[w] # None /\ row'[w].place = p /\ row'[w].final
    BY DEF Finals, In, Existing
  <2>2. v # n /\ w # n
    BY <2>1
  <2>3. v \in Finals(p) /\ w \in Finals(p)
    BY <2>1, <2>2, <1>s DEF Finals, In, Existing
  <2> QED BY <2>3 DEF Inv, OneFinalVersion
<1>3. UploadsAreIdempotent'
  <2> SUFFICES ASSUME NEW v \in Existing', NEW w \in Existing',
                      row'[v].upload # None, row'[v].upload = row'[w].upload, v # w
               PROVE  FALSE
    BY DEF UploadsAreIdempotent
  <2>1. v \in Versions /\ row'[v] # None /\ w \in Versions /\ row'[w] # None
    BY DEF Existing
  <2>2. r.upload = None \/ r.upload \in UploadIds
    BY DEF Rows
  <2>3. v # n /\ w # n
    BY <2>1, <2>2, <1>s, <1>n DEF Known, Existing
  <2>4. v \in Existing /\ w \in Existing /\ row[v].upload = row[w].upload
        /\ row[v].upload # None
    BY <2>1, <2>3, <1>s DEF Existing
  <2> QED BY <2>4 DEF Inv, UploadsAreIdempotent
<1>4. MissingFilesAreExposed'
  <2> SUFFICES ASSUME NEW v \in Existing' PROVE row'[v].blob \in Backed'
    BY DEF MissingFilesAreExposed, Backed
  <2>1. CASE v = n
    BY <2>1
  <2>2. CASE v # n
    BY <2>2, <1>s DEF Existing, Inv, MissingFilesAreExposed, LockFree, Backed
  <2> QED BY <2>1, <2>2
<1>5. Requests'
  BY DEF Inv, Requests, Backed
<1>6. Doomed' /\ Taken'
  BY DEF Doomed, Taken, LockFree
<1> QED BY <1>1, <1>2, <1>3, <1>4, <1>5, <1>6 DEF Inv

(* A version moves into the recycle bin or out of it, or grows old there. *)
LEMMA VersionMoved ==
  ASSUME Inv,
         NEW v \in Versions, row[v] # None,
         NEW r \in Rows,
         r.place = row[v].place, r.blob = row[v].blob, r.upload = row[v].upload,
         r.final => Finals(r.place) \subseteq {v},
         purge = None \/ r.life = row[v].life \/ row[v].life # "expired",
         row' = [row EXCEPT ![v] = r],
         UNCHANGED <<made, blobs, frozen, files, sealed, purge, exposed>>,
         job' \in [Clients -> Uploads \cup Rollbacks \cup {None}],
         \A c \in Clients : job'[c] \in Uploads => job'[c] = job[c]
  PROVE  Inv'
<1>v. row'[v] = r /\ r # None /\ \A w \in Versions \ {v} : row'[w] = row[w]
  BY Kinds DEF Inv, TypeOK
<1>e. Existing' = Existing
  BY <1>v DEF Existing
<1>1. TypeOK'
  BY <1>e DEF Inv, TypeOK
<1>2. OneFinalVersion'
  <2> SUFFICES ASSUME NEW p \in Places, NEW x \in Finals(p)', NEW y \in Finals(p)',
                      x # y
               PROVE  FALSE
    BY DEF OneFinalVersion
  <2>1. /\ x \in Existing /\ row'[x].place = p /\ row'[x].final
        /\ y \in Existing /\ row'[y].place = p /\ row'[y].final
    BY <1>e DEF Finals, In
  <2>2. CASE x # v /\ y # v
    <3>1. x \in Finals(p) /\ y \in Finals(p)
      BY <2>1, <2>2, <1>v DEF Finals, In, Existing
    <3> QED BY <3>1 DEF Inv, OneFinalVersion
  <2>3. CASE x = v
    BY <2>1, <2>3, <1>v DEF Finals, In, Existing
  <2>4. CASE y = v
    BY <2>1, <2>4, <1>v DEF Finals, In, Existing
  <2> QED BY <2>2, <2>3, <2>4
<1>3. \A w \in Existing : row'[w].blob = row[w].blob /\ row'[w].upload = row[w].upload
  BY <1>v DEF Existing
<1>4. UploadsAreIdempotent' /\ MissingFilesAreExposed' /\ Taken'
  BY <1>3, <1>e DEF Inv, UploadsAreIdempotent, MissingFilesAreExposed, Taken
<1>5. Requests'
  BY DEF Inv, Requests
<1>6. Doomed'
  BY <1>v DEF Inv, Doomed, TypeOK, Purges
<1> QED BY <1>1, <1>2, <1>4, <1>5, <1>6 DEF Inv

-----------------------------------------------------------------------------
(* The actions.                                                             *)

LEMMA StepPlace ==
  ASSUME Inv, NEW c \in Clients, NEW p \in Materials, NEW h \in Hashes,
         NEW u \in UploadIds \cup {None}, NEW f \in BOOLEAN, Place(c, p, h, u, f)
  PROVE  Inv'
<1> DEFINE j == [kind |-> "upload", place |-> p, blob |-> h, upload |-> u, final |-> f]
<1>1. /\ PutFile(h)
      /\ job' = [job EXCEPT ![c] = j]
      /\ UNCHANGED <<row, made, blobs, frozen, sealed, purge>>
  BY DEF Place
<1>2. j \in Uploads /\ j.blob = h
  BY DEF Uploads
<1>3. /\ Backed \subseteq Backed' /\ h \in files'
      /\ files' \subseteq Hashes /\ exposed' \subseteq Hashes
  BY <1>1, FilePut DEF Inv
<1>4. TypeOK'
  <2>1. job' \in [Clients -> Uploads \cup Rollbacks \cup {None}]
    BY <1>1, <1>2 DEF Inv, TypeOK
  <2> QED BY <1>1, <1>3, <2>1 DEF Inv, TypeOK, Existing
<1>5. OneFinalVersion' /\ UploadsAreIdempotent'
  BY <1>1 DEF Inv, OneFinalVersion, Finals, In, Existing, UploadsAreIdempotent
<1>6. MissingFilesAreExposed'
  BY <1>1, <1>3 DEF Inv, MissingFilesAreExposed, Existing, Backed
<1>7. Requests'
  <2>1. \A d \in Clients : job'[d] = IF d = c THEN j ELSE job[d]
    BY <1>1 DEF Inv, TypeOK
  <2>2. Requests' <=> \A d \in Clients : job'[d] \in Uploads => job'[d].blob \in Backed'
    BY DEF Requests, Backed
  <2>3. \A d \in Clients : job[d] \in Uploads => job[d].blob \in Backed
    BY DEF Inv, Requests, Backed
  <2> HIDE DEF j
  <2> QED BY <2>1, <2>2, <2>3, <1>2, <1>3 DEF Backed
<1>8. Doomed' /\ Taken'
  BY <1>1 DEF Inv, Doomed, Taken, Existing
<1> QED BY <1>4, <1>5, <1>6, <1>7, <1>8 DEF Inv

LEMMA StepCommitUpload ==
  ASSUME Inv, NEW c \in Clients, CommitUpload(c)
  PROVE  Inv'
<1> DEFINE j == job[c]
<1> DEFINE r == Version(j.place, j.blob, j.upload, j.final)
<1>1. /\ LockFree /\ j \in Uploads /\ made < MaxVersions
      /\ Finals(j.place) = {} /\ ~Known(j.upload)
      /\ made' = made + 1 /\ row' = [row EXCEPT ![made + 1] = r]
      /\ blobs' = blobs \cup {j.blob}
      /\ job' = [Overtaken(j.place) EXCEPT ![c] = None]
      /\ UNCHANGED <<frozen, files, sealed, purge, exposed>>
  BY DEF CommitUpload, Acceptable
<1>2. /\ j.place \in Materials /\ j.blob \in Hashes
      /\ j.upload \in UploadIds \cup {None} /\ j.final \in BOOLEAN
  BY <1>1 DEF Uploads
<1>3. /\ r \in Rows /\ r.place = j.place /\ r.blob = j.blob
      /\ r.upload = j.upload /\ r.final = j.final
  BY <1>2, NewVersion DEF Places
<1>4. job' \in [Clients -> Uploads \cup Rollbacks \cup {None}]
      /\ \A d \in Clients : job'[d] \in Uploads => job'[d] = job[d]
  BY <1>1, OvertakenJobs, Kinds DEF Inv
<1>5. made + 1 \in Versions /\ row[made + 1] = None
  BY <1>1, NextNumber DEF Inv
<1> HIDE DEF r
<1>6. /\ row' \in [Versions -> Rows \cup {None}]
      /\ row'[made + 1] = r
      /\ \A v \in Versions \ {made + 1} : row'[v] = row[v]
  BY <1>1, <1>3, <1>5 DEF Inv, TypeOK
<1>7. j.blob \in Backed'
  BY <1>1 DEF Inv, Requests, Backed
<1>8. \A v \in Versions \ {made + 1} :
        row'[v] # None /\ row'[v].place = r.place => ~row'[v].final
  BY <1>1, <1>3, <1>6 DEF Finals, In, Existing
<1>9. Backed \subseteq Backed' /\ blobs' \subseteq Hashes /\ frozen' \subseteq Hashes
      /\ files' \subseteq Hashes /\ exposed' \subseteq Hashes
  BY <1>1, <1>2 DEF Backed, Inv, TypeOK
<1> QED BY <1>1, <1>3, <1>4, <1>6, <1>7, <1>8, <1>9, VersionAdded

LEMMA StepArchiveUpload ==
  ASSUME Inv, NEW p \in Archives, NEW h \in Hashes, ArchiveUpload(p, h)
  PROVE  Inv'
<1> DEFINE r == Version(p, h, None, FALSE)
<1>1. /\ LockFree /\ made < MaxVersions /\ PutFile(h) /\ made' = made + 1
      /\ row' = [row EXCEPT ![made + 1] = r] /\ blobs' = blobs \cup {h}
      /\ UNCHANGED <<frozen, sealed, job, purge>>
  BY DEF ArchiveUpload
<1>2. r \in Rows /\ r.blob = h /\ r.upload = None /\ ~r.final
  BY DEF Version, Rows, Places
<1>3. /\ Backed \subseteq Backed' /\ h \in files'
      /\ files' \subseteq Hashes /\ exposed' \subseteq Hashes
  BY <1>1, FilePut DEF Inv
<1>4. made + 1 \in Versions /\ row[made + 1] = None
  BY <1>1, NextNumber DEF Inv
<1> HIDE DEF r
<1>5. /\ row' \in [Versions -> Rows \cup {None}]
      /\ row'[made + 1] = r
      /\ \A v \in Versions \ {made + 1} : row'[v] = row[v]
  BY <1>1, <1>2, <1>4 DEF Inv, TypeOK
<1>6. h \in Backed' /\ blobs' \subseteq Hashes /\ frozen' \subseteq Hashes
  BY <1>1, <1>3 DEF Backed, Inv, TypeOK
<1>7. \A u \in UploadIds : r.upload # u
  BY <1>2, StoreAssumption
<1>8. job' \in [Clients -> Uploads \cup Rollbacks \cup {None}]
      /\ \A d \in Clients : job'[d] \in Uploads => job'[d] = job[d]
  BY <1>1 DEF Inv, TypeOK
<1> QED BY <1>1, <1>2, <1>3, <1>5, <1>6, <1>7, <1>8, VersionAdded

LEMMA StepCommitRollback ==
  ASSUME Inv, NEW c \in Clients, CommitRollback(c)
  PROVE  Inv'
<1> DEFINE t == job[c].target
<1> DEFINE place == row[t].place
<1> DEFINE r == Version(place, row[t].blob, None, TRUE)
<1> DEFINE demoted == [v \in Versions |->
                         IF v \in Finals(place)
                         THEN [row[v] EXCEPT !.final = FALSE] ELSE row[v]]
<1>1. /\ LockFree /\ job[c] \in Rollbacks /\ made < MaxVersions /\ row[t] # None
      /\ row' = [demoted EXCEPT ![made + 1] = r]
      /\ job' = [Overtaken(place) EXCEPT ![c] = None]
      /\ made' = made + 1
      /\ UNCHANGED <<blobs, frozen, files, sealed, purge, exposed>>
  BY DEF CommitRollback, StillPossible
<1>2. t \in Versions /\ row[t] \in Rows
  BY <1>1 DEF Rollbacks, Inv, TypeOK
<1>3. place \in Places /\ row[t].blob \in Hashes
  BY <1>2 DEF Rows
<1>4. r \in Rows /\ r.place = place /\ r.blob = row[t].blob
      /\ r.upload = None /\ r.final
  BY <1>3 DEF Version, Rows
<1>5. job' \in [Clients -> Uploads \cup Rollbacks \cup {None}]
      /\ \A d \in Clients : job'[d] \in Uploads => job'[d] = job[d]
  BY <1>1, OvertakenJobs, Kinds DEF Inv
<1>6. made + 1 \in Versions /\ row[made + 1] = None
  BY <1>1, NextNumber DEF Inv
<1>7. \A v \in Versions :
        IF v \in Finals(place)
        THEN row[v] # None /\ demoted[v] = [row[v] EXCEPT !.final = FALSE]
             /\ demoted[v] \in Rows /\ demoted[v].final = FALSE
        ELSE demoted[v] = row[v]
  BY DEF Finals, In, Existing, Inv, TypeOK, Rows
<1>8. demoted \in [Versions -> Rows \cup {None}]
  BY <1>7 DEF Inv, TypeOK
<1>9. \A v \in Versions : demoted[v] # None /\ demoted[v].place = place
                          => demoted[v].final = FALSE
  <2> SUFFICES ASSUME NEW v \in Versions, demoted[v] # None, demoted[v].place = place,
                      v \notin Finals(place)
               PROVE  demoted[v].final = FALSE
    BY <1>7
  <2>1. demoted[v] = row[v] /\ row[v] \in Rows
    BY <1>7 DEF Inv, TypeOK
  <2> QED BY <2>1 DEF Finals, In, Existing, Rows
<1> HIDE DEF r, demoted
<1>10. /\ row' \in [Versions -> Rows \cup {None}]
       /\ row'[made + 1] = r
       /\ \A v \in Versions \ {made + 1} : row'[v] = demoted[v]
  BY <1>1, <1>4, <1>6, <1>8
<1>11. \A v \in Versions \ {made + 1} :
         \/ row'[v] = row[v]
         \/ row[v] # None /\ row'[v] = [row[v] EXCEPT !.final = FALSE]
  BY <1>10, <1>7
<1>12. \A v \in Versions \ {made + 1} :
         row'[v] # None /\ row'[v].place = r.place => ~row'[v].final
  BY <1>10, <1>9, <1>4
<1>13. row[t].blob \in Backed'
  BY <1>1, <1>2 DEF Inv, MissingFilesAreExposed, Existing, Backed, LockFree
<1>14. \A u \in UploadIds : r.upload # u
  BY <1>4, StoreAssumption
<1>15. Backed \subseteq Backed' /\ blobs' \subseteq Hashes /\ frozen' \subseteq Hashes
       /\ files' \subseteq Hashes /\ exposed' \subseteq Hashes
  BY <1>1 DEF Backed, Inv, TypeOK
<1>16. /\ LockFree /\ made < MaxVersions /\ made' = made + 1
       /\ UNCHANGED <<sealed, purge>>
  BY <1>1
<1>17. r \in Rows /\ r.blob \in Backed'
  BY <1>4, <1>13
<1> QED
  BY ONLY Inv, <1>5, <1>10, <1>11, <1>12, <1>14, <1>15, <1>16, <1>17, VersionAdded

LEMMA StepRequests ==
  ASSUME Inv,
         \/ \E c \in Clients : RefuseUpload(c) \/ RefuseRollback(c)
         \/ \E c \in Clients, v \in Versions : CheckRollback(c, v)
         \/ \E p \in Materials : Seal(p)
  PROVE  Inv'
<1>1. ASSUME NEW c \in Clients, RefuseUpload(c) \/ RefuseRollback(c)
      PROVE  Inv'
  <2>1. /\ job' = [job EXCEPT ![c] = None]
        /\ UNCHANGED <<row, made, blobs, frozen, files, sealed, purge, exposed>>
    BY <1>1 DEF RefuseUpload, RefuseRollback
  <2>2. job' \in [Clients -> Uploads \cup Rollbacks \cup {None}]
        /\ \A d \in Clients : job'[d] \in Uploads => job'[d] = job[d]
    BY <2>1, Kinds DEF Inv, TypeOK
  <2>3. sealed' \subseteq Materials
    BY <2>1 DEF Inv, TypeOK
  <2> QED BY <2>1, <2>2, <2>3, OnlyRequests
<1>2. ASSUME NEW c \in Clients, NEW v \in Versions, CheckRollback(c, v)
      PROVE  Inv'
  <2> DEFINE j == [kind |-> "rollback", target |-> v, fresh |-> TRUE]
  <2>1. /\ job' = [job EXCEPT ![c] = j]
        /\ UNCHANGED <<row, made, blobs, frozen, files, sealed, purge, exposed>>
    BY <1>2 DEF CheckRollback
  <2>2. j \in Rollbacks /\ j \notin Uploads
    BY DEF Rollbacks, Uploads
  <2> HIDE DEF j
  <2>3. job' \in [Clients -> Uploads \cup Rollbacks \cup {None}]
        /\ \A d \in Clients : job'[d] \in Uploads => job'[d] = job[d]
    BY <2>1, <2>2 DEF Inv, TypeOK
  <2>4. sealed' \subseteq Materials
    BY <2>1 DEF Inv, TypeOK
  <2> QED BY <2>1, <2>3, <2>4, OnlyRequests
<1>3. ASSUME NEW p \in Materials, Seal(p)
      PROVE  Inv'
  <2>1. /\ job' = Overtaken(p)
        /\ UNCHANGED <<row, made, blobs, frozen, files, purge, exposed>>
        /\ sealed' \subseteq Materials
    BY <1>3 DEF Seal, Inv, TypeOK
  <2>2. job' \in [Clients -> Uploads \cup Rollbacks \cup {None}]
        /\ \A d \in Clients : job'[d] \in Uploads => job'[d] = job[d]
    BY <2>1, OvertakenJobs DEF Inv
  <2> QED BY <2>1, <2>2, OnlyRequests
<1> QED BY <1>1, <1>2, <1>3

LEMMA StepFreeze ==
  ASSUME Inv, NEW h \in Hashes, Freeze(h)
  PROVE  Inv'
<1>1. /\ PutFile(h) /\ blobs' = blobs \cup {h} /\ frozen' = frozen \cup {h}
      /\ UNCHANGED <<row, made, sealed, job, purge>>
  BY DEF Freeze
<1>2. /\ Backed \subseteq Backed' /\ files' \subseteq Hashes /\ exposed' \subseteq Hashes
  BY <1>1, FilePut DEF Inv
<1>3. TypeOK'
  BY <1>1, <1>2 DEF Inv, TypeOK, Existing
<1>4. OneFinalVersion' /\ UploadsAreIdempotent'
  BY <1>1 DEF Inv, OneFinalVersion, Finals, In, Existing, UploadsAreIdempotent
<1>5. MissingFilesAreExposed'
  BY <1>1, <1>2 DEF Inv, MissingFilesAreExposed, Existing, Backed
<1>6. Requests'
  BY <1>1, <1>2 DEF Inv, Requests, Backed
<1>7. Doomed' /\ Taken'
  BY <1>1 DEF Inv, Doomed, Taken, Existing
<1> QED BY <1>3, <1>4, <1>5, <1>6, <1>7 DEF Inv

LEMMA StepMoved ==
  ASSUME Inv, NEW v \in Versions, Delete(v) \/ Restore(v) \/ Expire(v)
  PROVE  Inv'
<1>1. row[v] # None /\ row[v] \in Rows
  BY DEF Delete, Restore, Expire, Inv, TypeOK
<1>2. row[v].place \in Places
  BY <1>1 DEF Rows
<1>3. CASE Delete(v)
  <2> DEFINE r == [row[v] EXCEPT !.life = "trash", !.final = FALSE,
                                 !.wasFinal = row[v].final]
  <2>1. /\ LockFree /\ row' = [row EXCEPT ![v] = r] /\ job' = Overtaken(row[v].place)
        /\ UNCHANGED <<made, blobs, frozen, files, sealed, purge, exposed>>
    BY <1>3 DEF Delete, SetRow
  <2>2. /\ r \in Rows /\ r.place = row[v].place /\ r.blob = row[v].blob
        /\ r.upload = row[v].upload /\ ~r.final
    BY <1>1 DEF Rows
  <2>3. job' \in [Clients -> Uploads \cup Rollbacks \cup {None}]
        /\ \A d \in Clients : job'[d] \in Uploads => job'[d] = job[d]
    BY <2>1, OvertakenJobs DEF Inv
  <2> HIDE DEF r
  <2> QED BY <1>1, <2>1, <2>2, <2>3, VersionMoved DEF LockFree
<1>4. CASE Restore(v)
  <2> DEFINE r == [row[v] EXCEPT !.life = "live", !.final = RegainsFinal(v),
                                 !.wasFinal = FALSE]
  <2>1. /\ LockFree /\ row' = [row EXCEPT ![v] = r] /\ job' = Overtaken(row[v].place)
        /\ UNCHANGED <<made, blobs, frozen, files, sealed, purge, exposed>>
    BY <1>4 DEF Restore, SetRow
  <2>2. RegainsFinal(v) \in BOOLEAN
    BY <1>1 DEF RegainsFinal, Rows
  <2>3. /\ r \in Rows /\ r.place = row[v].place /\ r.blob = row[v].blob
        /\ r.upload = row[v].upload
    BY <1>1, <2>2 DEF Rows
  <2>4. r.final => RegainsFinal(v)
    BY <1>1 DEF Rows
  <2>5. job' \in [Clients -> Uploads \cup Rollbacks \cup {None}]
        /\ \A d \in Clients : job'[d] \in Uploads => job'[d] = job[d]
    BY <2>1, OvertakenJobs DEF Inv
  <2> HIDE DEF r
  <2>6. r.final => Finals(r.place) \subseteq {v}
    BY <2>3, <2>4 DEF RegainsFinal
  <2> QED BY <1>1, <2>1, <2>3, <2>5, <2>6, VersionMoved DEF LockFree
<1>5. CASE Expire(v)
  <2> DEFINE r == [row[v] EXCEPT !.life = "expired"]
  <2>1. /\ row[v].life = "trash" /\ row' = [row EXCEPT ![v] = r]
        /\ UNCHANGED <<made, blobs, frozen, files, sealed, job, purge, exposed>>
    BY <1>5 DEF Expire
  <2>2. /\ r \in Rows /\ r.place = row[v].place /\ r.blob = row[v].blob
        /\ r.upload = row[v].upload /\ (r.final <=> row[v].final)
    BY <1>1 DEF Rows
  <2>3. job' \in [Clients -> Uploads \cup Rollbacks \cup {None}]
        /\ \A d \in Clients : job'[d] \in Uploads => job'[d] = job[d]
    BY <2>1 DEF Inv, TypeOK
  <2> HIDE DEF r
  <2>4. r.final => Finals(r.place) \subseteq {v}
    BY <1>1, <1>2, <2>2 DEF Inv, OneFinalVersion, Finals, In, Existing
  <2> QED BY <1>1, <2>1, <2>2, <2>3, <2>4, VersionMoved
<1> QED BY <1>3, <1>4, <1>5

LEMMA StepBeginPurge ==
  ASSUME Inv, BeginPurge
  PROVE  Inv'
<1> DEFINE q == [rows |-> Expired, todo |-> {row[v].blob : v \in Expired}, gone |-> {}]
<1>1. /\ LockFree /\ purge' = q
      /\ UNCHANGED <<row, made, blobs, frozen, files, sealed, job, exposed>>
  BY DEF BeginPurge
<1>2. \A v \in Expired : v \in Versions /\ row[v] # None /\ row[v].life = "expired"
                         /\ row[v].blob \in Hashes
  BY DEF Expired, Existing, Inv, TypeOK, Rows
<1>3. q \in Purges /\ q.rows = Expired /\ q.gone = {}
  BY <1>2 DEF Purges
<1> HIDE DEF q
<1>4. TypeOK'
  BY <1>1, <1>3 DEF Inv, TypeOK, Existing
<1>5. OneFinalVersion' /\ UploadsAreIdempotent' /\ Requests'
  BY <1>1 DEF Inv, OneFinalVersion, Finals, In, Existing, UploadsAreIdempotent, Requests
<1>6. MissingFilesAreExposed'
  BY <1>1 DEF Inv, MissingFilesAreExposed, Existing, LockFree
<1>7. Doomed' /\ Taken'
  BY <1>1, <1>2, <1>3 DEF Doomed, Taken
<1> QED BY <1>4, <1>5, <1>6, <1>7 DEF Inv

LEMMA StepRemoveFile ==
  ASSUME Inv, NEW h \in Hashes, RemoveFile(h)
  PROVE  Inv'
<1> DEFINE q == [purge EXCEPT !.todo = @ \ {h}, !.gone = @ \cup {h}]
<1>1. /\ purge # None /\ ~Referenced(h)
      /\ files' = files \ {h} /\ purge' = q
      /\ exposed' = exposed \cup (IF Requested(h) THEN {h} ELSE {})
      /\ UNCHANGED <<row, made, blobs, frozen, sealed, job>>
  BY DEF RemoveFile, Removable
<1>2. purge \in Purges
  BY <1>1 DEF Inv, TypeOK
<1>3. q \in Purges /\ q.rows = purge.rows /\ q.gone = purge.gone \cup {h} /\ q # None
  <2>1. q \in Purges /\ q.rows = purge.rows /\ q.gone = purge.gone \cup {h}
    BY <1>2 DEF Purges
  <2> QED BY <2>1, Kinds
<1> HIDE DEF q
<1>4. TypeOK'
  BY <1>1, <1>3 DEF Inv, TypeOK, Existing
<1>5. OneFinalVersion' /\ UploadsAreIdempotent'
  BY <1>1 DEF Inv, OneFinalVersion, Finals, In, Existing, UploadsAreIdempotent
<1>6. Requests'
  BY <1>1 DEF Inv, Requests, Requested
<1>7. MissingFilesAreExposed'
  BY <1>1, <1>3 DEF Inv, MissingFilesAreExposed, Existing
<1>8. Doomed'
  BY <1>1, <1>3 DEF Inv, Doomed
<1>9. Taken'
  BY <1>1, <1>3 DEF Inv, Taken, Referenced, Existing
<1> QED BY <1>4, <1>5, <1>6, <1>7, <1>8, <1>9 DEF Inv

LEMMA StepKeepFile ==
  ASSUME Inv, NEW h \in Hashes, KeepFile(h)
  PROVE  Inv'
<1> DEFINE q == [purge EXCEPT !.todo = @ \ {h}]
<1>1. /\ purge # None /\ purge' = q
      /\ UNCHANGED <<row, made, blobs, frozen, files, sealed, job, exposed>>
  BY DEF KeepFile
<1>2. purge \in Purges
  BY <1>1 DEF Inv, TypeOK
<1>3. q \in Purges /\ q.rows = purge.rows /\ q.gone = purge.gone
  BY <1>2 DEF Purges
<1> HIDE DEF q
<1>4. TypeOK'
  BY <1>1, <1>3 DEF Inv, TypeOK, Existing
<1>5. OneFinalVersion' /\ UploadsAreIdempotent' /\ Requests'
  BY <1>1 DEF Inv, OneFinalVersion, Finals, In, Existing, UploadsAreIdempotent, Requests
<1>6. MissingFilesAreExposed'
  BY <1>1, <1>3, Kinds DEF Inv, MissingFilesAreExposed, Existing
<1>7. Doomed' /\ Taken'
  BY <1>1, <1>3 DEF Inv, Doomed, Taken, Existing
<1> QED BY <1>4, <1>5, <1>6, <1>7 DEF Inv

(* The commit: every version that lacks its file goes with it. *)
LEMMA StepCommitPurge ==
  ASSUME Inv, CommitPurge
  PROVE  Inv'
<1>1. /\ purge # None /\ purge' = None /\ blobs' = blobs \ purge.gone
      /\ row' = [v \in Versions |-> IF v \in purge.rows THEN None ELSE row[v]]
      /\ UNCHANGED <<made, frozen, files, sealed, job, exposed>>
  BY DEF CommitPurge
<1>2. \A v \in Existing' : v \in Existing /\ v \notin purge.rows /\ row'[v] = row[v]
  BY <1>1 DEF Existing
<1>3. TypeOK'
  BY <1>1, <1>2 DEF Inv, TypeOK
<1>4. OneFinalVersion'
  BY <1>2 DEF Inv, OneFinalVersion, Finals, In
<1>5. UploadsAreIdempotent'
  BY <1>2 DEF Inv, UploadsAreIdempotent
<1>6. MissingFilesAreExposed'
  BY <1>1, <1>2 DEF Inv, MissingFilesAreExposed, Taken
<1>7. Requests' /\ Doomed' /\ Taken'
  BY <1>1 DEF Inv, Requests, Doomed, Taken
<1> QED BY <1>3, <1>4, <1>5, <1>6, <1>7 DEF Inv

(* A purge that does not commit, alone or with the whole process. *)
LEMMA StepFailure ==
  ASSUME Inv, FailPurge \/ Crash
  PROVE  Inv'
<1>1. /\ purge' = None
      /\ exposed' = exposed \cup (IF purge = None THEN {} ELSE purge.gone \ files)
      /\ job' = job \/ job' = [c \in Clients |-> None]
      /\ UNCHANGED <<row, made, blobs, frozen, files, sealed>>
  BY DEF FailPurge, Crash
<1>2. purge # None => purge.gone \subseteq Hashes
  BY DEF Inv, TypeOK, Purges
<1>3. TypeOK'
  BY <1>1, <1>2 DEF Inv, TypeOK, Existing
<1>4. OneFinalVersion' /\ UploadsAreIdempotent'
  BY <1>1 DEF Inv, OneFinalVersion, Finals, In, Existing, UploadsAreIdempotent
<1>5. MissingFilesAreExposed'
  BY <1>1 DEF Inv, MissingFilesAreExposed, Existing
<1>6. Requests'
  BY <1>1, Kinds DEF Inv, Requests
<1>7. Doomed' /\ Taken'
  BY <1>1 DEF Doomed, Taken
<1> QED BY <1>3, <1>4, <1>5, <1>6, <1>7 DEF Inv

-----------------------------------------------------------------------------

LEMMA Initially == Init => Inv
<1> SUFFICES ASSUME Init PROVE Inv
  OBVIOUS
<1>1. TypeOK
  BY StoreAssumption DEF Init, TypeOK, Existing
<1> QED BY <1>1, Kinds DEF Init, Inv, OneFinalVersion, Finals, In, Existing,
      UploadsAreIdempotent, MissingFilesAreExposed, Requests, Doomed, Taken

LEMMA Inductive == Inv /\ [Next]_vars => Inv'
<1> SUFFICES ASSUME Inv, [Next]_vars PROVE Inv'
  OBVIOUS
<1>1. CASE UNCHANGED vars
  BY <1>1 DEF vars, Inv, TypeOK, OneFinalVersion, Finals, In, Existing,
      UploadsAreIdempotent, MissingFilesAreExposed, Requests, Doomed, Taken
<1>2. CASE \E c \in Clients, p \in Materials, h \in Hashes, u \in UploadIds \cup {None},
              f \in BOOLEAN : Place(c, p, h, u, f)
  BY <1>2, StepPlace
<1>3. CASE \E c \in Clients : CommitUpload(c) \/ CommitRollback(c)
  BY <1>3, StepCommitUpload, StepCommitRollback
<1>4. CASE \/ \E c \in Clients : RefuseUpload(c) \/ RefuseRollback(c)
           \/ \E c \in Clients, v \in Versions : CheckRollback(c, v)
           \/ \E p \in Materials : Seal(p)
  BY <1>4, StepRequests
<1>5. CASE \E p \in Archives, h \in Hashes : ArchiveUpload(p, h)
  BY <1>5, StepArchiveUpload
<1>6. CASE \E h \in Hashes : Freeze(h) \/ RemoveFile(h) \/ KeepFile(h)
  BY <1>6, StepFreeze, StepRemoveFile, StepKeepFile
<1>7. CASE \E v \in Versions : Delete(v) \/ Restore(v) \/ Expire(v)
  BY <1>7, StepMoved
<1>8. CASE BeginPurge \/ CommitPurge \/ FailPurge \/ Crash
  BY <1>8, StepBeginPurge, StepCommitPurge, StepFailure
<1> QED BY <1>1, <1>2, <1>3, <1>4, <1>5, <1>6, <1>7, <1>8 DEF Next

LEMMA Invariance == Spec => []Inv
BY Initially, Inductive, PTL DEF Spec

(* Types are right. *)
THEOREM TypeCorrect == Spec => []TypeOK
BY Invariance, PTL DEF Inv

(* No material ever has two final versions. *)
THEOREM FinalIsUnique == Spec => []OneFinalVersion
BY Invariance, PTL DEF Inv

(* A client's upload id makes one version at most. *)
THEOREM UploadsOnce == Spec => []UploadsAreIdempotent
BY Invariance, PTL DEF Inv

(* A version lacks its file only through the races that set exposed. *)
THEOREM MissingFiles == Spec => []MissingFilesAreExposed
BY Invariance, PTL DEF Inv

(* What the purge removes, versions and files, was expired trash when it did:
   the versions because their transaction holds the lock since it chose them,
   the files because no other version refers to them. *)
LEMMA PurgeStep ==
  ASSUME Inv, [Next]_vars
  PROVE  /\ \A v \in Existing : row'[v] = None => row[v].life = "expired"
         /\ \A v \in Existing : row[v].blob \in files \ files'
                               => row[v].life = "expired"
<1> SUFFICES ASSUME NEW v \in Existing
             PROVE  /\ row'[v] = None => row[v].life = "expired"
                    /\ row[v].blob \in files \ files' => row[v].life = "expired"
  OBVIOUS
<1>v. v \in Versions /\ row[v] # None /\ row[v] \in Rows
  BY DEF Existing, Inv, TypeOK
<1>1. CASE CommitPurge
  BY <1>1, <1>v DEF CommitPurge, Inv, Doomed
<1>2. ASSUME NEW h \in Hashes, RemoveFile(h)
      PROVE  /\ row'[v] = None => row[v].life = "expired"
             /\ row[v].blob \in files \ files' => row[v].life = "expired"
  BY <1>2, <1>v DEF RemoveFile, Removable, Referenced, Inv, Doomed
<1>3. ASSUME NEW c \in Clients, CommitUpload(c)
      PROVE  row'[v] # None /\ files' = files
  <2>1. v # made + 1
    BY <1>3, <1>v, NextNumber DEF CommitUpload, Inv
  <2> QED BY <1>3, <1>v, <2>1 DEF CommitUpload, Inv, TypeOK
<1>4. ASSUME NEW c \in Clients, CommitRollback(c)
      PROVE  row'[v] # None /\ files' = files
  <2>1. v # made + 1
    BY <1>4, <1>v, NextNumber DEF CommitRollback, Inv
  <2>2. [row[v] EXCEPT !.final = FALSE] \in Rows
    BY <1>v DEF Rows
  <2> QED BY <1>4, <1>v, <2>1, <2>2, Kinds DEF CommitRollback
<1>5. ASSUME NEW p \in Archives, NEW h \in Hashes, ArchiveUpload(p, h)
      PROVE  row'[v] # None /\ files \subseteq files'
  <2>1. v # made + 1
    BY <1>5, <1>v, NextNumber DEF ArchiveUpload, Inv
  <2> QED BY <1>5, <1>v, <2>1 DEF ArchiveUpload, PutFile, Inv, TypeOK
<1>6. ASSUME NEW w \in Versions, Delete(w) \/ Restore(w) \/ Expire(w)
      PROVE  row'[v] # None /\ files' = files
  <2>1. row[w] # None /\ row[w] \in Rows
    BY <1>6 DEF Delete, Restore, Expire, Inv, TypeOK
  <2>2. RegainsFinal(w) \in BOOLEAN
    BY <2>1 DEF RegainsFinal, Rows
  <2>3. PICK r \in Rows : row' = [row EXCEPT ![w] = r] /\ files' = files
    <3>1. CASE Delete(w)
      <4>1. [row[w] EXCEPT !.life = "trash", !.final = FALSE,
                           !.wasFinal = row[w].final] \in Rows
        BY <2>1 DEF Rows
      <4> QED BY <3>1, <4>1 DEF Delete, SetRow
    <3>2. CASE Restore(w)
      <4>1. [row[w] EXCEPT !.life = "live", !.final = RegainsFinal(w),
                           !.wasFinal = FALSE] \in Rows
        BY <2>1, <2>2 DEF Rows
      <4> QED BY <3>2, <4>1 DEF Restore, SetRow
    <3>3. CASE Expire(w)
      <4>1. [row[w] EXCEPT !.life = "expired"] \in Rows
        BY <2>1 DEF Rows
      <4> QED BY <3>3, <4>1 DEF Expire
    <3> QED BY <1>6, <3>1, <3>2, <3>3
  <2> QED BY <1>v, <2>3, Kinds DEF Inv, TypeOK
<1>7. CASE UNCHANGED <<row, files>>
  BY <1>7, <1>v
<1>8. ASSUME NEW h \in Hashes, PutFile(h), row' = row
      PROVE  row'[v] # None /\ files \subseteq files'
  BY <1>8, <1>v DEF PutFile
<1>9. CASE \E c \in Clients, p \in Materials, h \in Hashes, u \in UploadIds \cup {None},
              f \in BOOLEAN : Place(c, p, h, u, f)
  BY <1>8, <1>9 DEF Place
<1>10. CASE \/ \E c \in Clients : RefuseUpload(c) \/ RefuseRollback(c)
            \/ \E c \in Clients, w \in Versions : CheckRollback(c, w)
            \/ \E p \in Materials : Seal(p)
            \/ BeginPurge \/ FailPurge \/ Crash
            \/ UNCHANGED vars
  BY <1>7, <1>10 DEF RefuseUpload, RefuseRollback, CheckRollback, Seal, BeginPurge,
       FailPurge, Crash, vars
<1>11. CASE \E h \in Hashes : Freeze(h) \/ RemoveFile(h) \/ KeepFile(h)
  BY <1>2, <1>7, <1>8, <1>11 DEF Freeze, KeepFile
<1>12. CASE \E c \in Clients : CommitUpload(c) \/ CommitRollback(c)
  BY <1>3, <1>4, <1>12
<1>13. CASE \E p \in Archives, h \in Hashes : ArchiveUpload(p, h)
  BY <1>5, <1>13
<1>14. CASE \E w \in Versions : Delete(w) \/ Restore(w) \/ Expire(w)
  BY <1>6, <1>14
<1> QED BY <1>1, <1>9, <1>10, <1>11, <1>12, <1>13, <1>14 DEF Next

(* The purge takes expired trash and nothing else, at every step. *)
THEOREM PurgedWereTrash == Spec => PurgeTakesOnlyTrash
<1>1. Inv /\ [Next]_vars
      => [/\ \A v \in Existing : row'[v] = None => row[v].life = "expired"
          /\ \A v \in Existing : row[v].blob \in files \ files'
                                => row[v].life = "expired"]_vars
  BY PurgeStep
<1> QED BY <1>1, Invariance, PTL DEF Spec, PurgeTakesOnlyTrash

(* An archived task's materials gain no version: what adds one looks again
   under the lock, and scans belong to no task. *)
LEMMA SealedStep ==
  ASSUME Inv, [Next]_vars
  PROVE  \A v \in Versions :
           row[v] = None /\ row'[v] # None => row'[v].place \notin sealed
<1> SUFFICES ASSUME NEW v \in Versions, row[v] = None, row'[v] # None
             PROVE  row'[v].place \notin sealed
  OBVIOUS
<1>1. ASSUME NEW c \in Clients, CommitUpload(c)
      PROVE  row'[v].place \notin sealed
  BY <1>1 DEF CommitUpload, Acceptable, Version, Inv, TypeOK
<1>2. ASSUME NEW c \in Clients, CommitRollback(c)
      PROVE  row'[v].place \notin sealed
  <2>1. v \notin Finals(row[job[c].target].place)
    BY DEF Finals, In, Existing
  <2>2. CASE v = made + 1
    BY <1>2, <2>2 DEF CommitRollback, StillPossible, Version
  <2>3. CASE v # made + 1
    BY <1>2, <2>1, <2>3 DEF CommitRollback
  <2> QED BY <2>2, <2>3
<1>3. ASSUME NEW p \in Archives, NEW h \in Hashes, ArchiveUpload(p, h)
      PROVE  row'[v].place \notin sealed
  BY <1>3, StoreAssumption DEF ArchiveUpload, Version, Inv, TypeOK
<1>4. ASSUME NEW w \in Versions, Delete(w) \/ Restore(w) \/ Expire(w)
      PROVE  FALSE
  BY <1>4 DEF Delete, Restore, Expire, SetRow, Inv, TypeOK
<1>5. CASE CommitPurge
  BY <1>5 DEF CommitPurge
<1>6. CASE \E c \in Clients, p \in Materials, h \in Hashes, u \in UploadIds \cup {None},
              f \in BOOLEAN : Place(c, p, h, u, f)
  BY <1>6 DEF Place
<1>7. CASE \/ \E c \in Clients : RefuseUpload(c) \/ RefuseRollback(c)
           \/ \E c \in Clients, w \in Versions : CheckRollback(c, w)
           \/ \E p \in Materials : Seal(p)
           \/ BeginPurge \/ FailPurge \/ Crash
           \/ UNCHANGED vars
  BY <1>7 DEF RefuseUpload, RefuseRollback, CheckRollback, Seal, BeginPurge,
       FailPurge, Crash, vars
<1>8. CASE \E h \in Hashes : Freeze(h) \/ RemoveFile(h) \/ KeepFile(h)
  BY <1>8 DEF Freeze, RemoveFile, KeepFile
<1> QED BY <1>1, <1>2, <1>3, <1>4, <1>5, <1>6, <1>7, <1>8 DEF Next

(* No request adds to a material after its task is archived. *)
THEOREM SealedStaysSealed == Spec => SealedMaterialsGainNothing
<1>1. Inv /\ [Next]_vars
      => [\A v \in Versions :
            row[v] = None /\ row'[v] # None => row'[v].place \notin sealed]_vars
  BY SealedStep
<1> QED BY <1>1, Invariance, PTL DEF Spec, SealedMaterialsGainNothing

=============================================================================
