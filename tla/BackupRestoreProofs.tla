------------------------- MODULE BackupRestoreProofs -------------------------
(***************************************************************************)
(* BackupRestore proved for every set of commits, any number of archives    *)
(* and any retention: type correctness, that what a restore replaces stays  *)
(* in its pre-restore archive through failures and crashes, that archives   *)
(* and served data are whole, and that a restore is undone or done.         *)
(***************************************************************************)
EXTENDS BackupRestore, TLAPS

LEMMA ItemOfOrder == ASSUME item \in 1..3 PROVE Item \in Items
  BY DEF Item, Order, Items

\* What may be put in one place of well-formed items.
LEMMA Put ==
  ASSUME NEW items, WellFormed(items), NEW i \in Items, NEW v \in Value(i)
  PROVE  WellFormed([items EXCEPT ![i] = v])
  BY DEF WellFormed

LEMMA NoneIsValue == \A i \in Items : None \in Value(i)
  BY DEF Value

LEMMA AbsentIsWellFormed == WellFormed(Absent)
  BY NoneIsValue DEF WellFormed, Absent

\* What is in a place.
LEMMA Get ==
  ASSUME NEW items, WellFormed(items)
  PROVE  /\ items["database"] \in Databases \cup {None}
         /\ items["attachments"] \in (SUBSET Commits) \cup {None}
         /\ items["archives"] \in {{}, None}
         /\ DOMAIN items = Items
  BY DEF WellFormed, Value, Items

LEMMA DatabaseValue == Value("database") = {None} \cup Databases
  BY DEF Value

LEMMA AttachmentsValue == Value("attachments") = {None} \cup SUBSET Commits
  BY DEF Value

LEMMA NewDatabaseType == NewDatabase \in Databases
  BY DEF NewDatabase, Databases

LEMMA CreatedIsWellFormed ==
  ASSUME NEW items, WellFormed(items)
  PROVE  WellFormed(Created(items))
<1>1. \A i \in Items : Created(items)[i] \in Value(i)
  BY NewDatabaseType DEF WellFormed, Created, Value, Items
<1> QED
  BY <1>1 DEF WellFormed, Created

\* Writing records changes nothing else of the database, and no business data.
LEMMA Records_Written ==
  ASSUME WellFormed(live), live["database"] # None,
         NEW records \in [Backups -> Records \cup {None}],
         SetRecords(records)
  PROVE  /\ WellFormed(live')
         /\ live'["database"] \in Databases
         /\ live'["database"] # None
         /\ live'["database"].record = records
         /\ live'["database"].commits = live["database"].commits
         /\ Data(live') = Data(live)
<1> DEFINE d == live["database"]
           e == [d EXCEPT !.record = records]
<1>1. d \in Databases
  BY Get
<1>2. e \in Databases /\ e.record = records /\ e.commits = d.commits
  BY <1>1 DEF Databases
<1>3. e # None /\ live' = [live EXCEPT !["database"] = e]
  BY <1>2, BackupAssumption DEF SetRecords
<1>4. WellFormed(live')
  BY <1>2, <1>3, Put, DatabaseValue DEF Items
<1>5. live'["database"] = e /\ \A i \in Items \ {"database"} : live'[i] = live[i]
  BY <1>3, Get DEF Items
<1>6. \A i \in Items : Datum(i, live'[i]) = Datum(i, live[i])
  BY <1>2, <1>3, <1>5 DEF Datum
<1> HIDE DEF d, e
<1>7. Data(live') = Data(live)
  BY <1>6 DEF Data
<1> QED
  BY <1>2, <1>3, <1>4, <1>5, <1>7 DEF d

\* In particular writing one of them.
LEMMA Record_Written ==
  ASSUME WellFormed(live), live["database"] # None,
         NEW b \in Backups, NEW r \in Records, SetRecord(b, r)
  PROVE  /\ WellFormed(live')
         /\ live'["database"] # None
         /\ live'["database"].record = [live["database"].record EXCEPT ![b] = r]
         /\ live'["database"].record[b] = r
         /\ Data(live') = Data(live)
<1>1. live["database"].record \in [Backups -> Records \cup {None}]
  BY Get DEF Databases
<1> DEFINE R == [live["database"].record EXCEPT ![b] = r]
<1>2. R \in [Backups -> Records \cup {None}] /\ R[b] = r
  BY <1>1
<1>3. SetRecords(R)
  BY DEF SetRecord
<1> QED
  BY <1>2, <1>3, Records_Written

LEMMA RecordType ==
  ASSUME WellFormed(live), NEW b \in Backups, Recorded(b)
  PROVE  Record(b) \in Records
  BY Get DEF Recorded, Record, Databases

\* A failed backup's commit takes records away, and changes none but its flags.
LEMMA Failed_Written ==
  ASSUME WellFormed(live), NEW m \in Makers, made[m] \in Backups, Recorded(made[m]),
         NEW struck, Failed(m, struck)
  PROVE  /\ WellFormed(live') /\ live["database"] # None /\ live'["database"] # None
         /\ Data(live') = Data(live)
         /\ \A b \in Backups : live'["database"].record[b] # None =>
              Record(b) # None /\ live'["database"].record[b].kind = Record(b).kind
<1> DEFINE marked == [Record(made[m]) EXCEPT !.completed = FALSE]
           R == [b \in Backups |-> IF b \in struck THEN None
                                   ELSE IF b = made[m] THEN marked ELSE Record(b)]
<1>1. Record(made[m]) \in Records /\ live["database"] # None /\ Record(made[m]) # None
  BY RecordType DEF Recorded
<1>2. marked \in Records /\ marked.kind = Record(made[m]).kind
  BY <1>1 DEF Records
<1>3. \A b \in Backups : Record(b) \in Records \cup {None}
  BY <1>1, Get DEF Record, Databases
<1> HIDE DEF marked
<1>4. R \in [Backups -> Records \cup {None}]
  BY <1>2, <1>3
<1>5. SetRecords(R)
  <2>1. R = [b \in Backups |-> IF b \in struck THEN None
                               ELSE IF b = made[m]
                                    THEN [Record(b) EXCEPT !.completed = FALSE]
                                    ELSE Record(b)]
    BY DEF marked
  <2> QED
    BY <2>1 DEF Failed
<1>6. \A b \in Backups : R[b] # None => Record(b) # None /\ R[b].kind = Record(b).kind
  BY <1>1, <1>2
<1> HIDE DEF R
<1> QED
  BY <1>1, <1>4, <1>5, <1>6, Records_Written

-----------------------------------------------------------------------------

\* A purge is under way only while the gate is open, and restore makes its
\* archive only right behind the closed gate.
GateInv ==
  /\ purging # {} => phase = "idle" /\ live["database"] # None
  /\ \A m \in Makers : m = "restore" /\ stage[m] # "idle" => phase = "backup"

TypeInv == TypeOK /\ GateInv

LEMMA TypeInit == Init => TypeInv
<1> SUFFICES ASSUME Init PROVE TypeInv
  OBVIOUS
<1>1. WellFormed(live) /\ WellFormed(previous) /\ WellFormed(new)
  BY AbsentIsWellFormed, CreatedIsWellFormed DEF Init
<1>2. \A b \in Backups : WellFormed(file[b])
  BY AbsentIsWellFormed DEF Init
<1>3. \A m \in Makers : WellFormed(snapshot[m])
  BY AbsentIsWellFormed DEF Init
<1>4. /\ file = [b \in Backups |-> file[b]]
      /\ snapshot = [m \in Makers |-> snapshot[m]]
      /\ made \in [Makers -> 0..issued]
      /\ \A m \in Makers : stage[m] = "idle"
      /\ issued \in 0..MaxBackups
  BY BackupAssumption DEF Init
<1>5. /\ stage \in [Makers -> {"idle", "recorded", "pack", "complete", "retain"}]
      /\ storing = {} /\ purging = {}
      /\ phase = "idle" /\ item = 1 /\ source = 0 /\ exposed \in BOOLEAN
  BY DEF Init
<1>6. TypeOK
  BY <1>1, <1>2, <1>3, <1>4, <1>5 DEF TypeOK
<1> QED
  BY <1>4, <1>5, <1>6 DEF TypeInv, GateInv

LEMMA TypeNext == TypeInv /\ [Next]_vars => TypeInv'
<1> SUFFICES ASSUME TypeInv, [Next]_vars PROVE TypeInv'
  OBVIOUS
<1> USE DEF TypeInv, TypeOK, GateInv
<1> USE DEF making, writing, restoring
<1>0. MaxBackups \in Nat /\ Makers \subseteq {"request", "cycle", "restore"}
  BY BackupAssumption
<1>1. ASSUME NEW c \in Commits, Store(c) PROVE TypeInv'
  <2>1. Created(live)["attachments"] \in SUBSET Commits
    BY Get DEF Created, Items
  <2>2. WellFormed(live')
    BY <1>1, <2>1, Put, AttachmentsValue DEF Store, Items
  <2> QED
    BY <1>1, <2>2 DEF Store, Served, GateOpen, Items
<1>2. ASSUME NEW c \in Commits, Commit(c) PROVE TypeInv'
  <2> DEFINE d == live["database"]
             e == [d EXCEPT !.commits = d.commits \cup {c}]
  <2>1. d \in Databases
    BY <1>2, Get DEF Commit, Writable, Served
  <2>2. e \in Databases
    BY <2>1 DEF Databases
  <2>3. live' = [live EXCEPT !["database"] = e]
    BY <1>2 DEF Commit
  <2>4. WellFormed(live')
    BY <2>2, <2>3, Put, DatabaseValue DEF Items
  <2> QED
    BY <1>2, <2>4 DEF Commit, Writable
<1>3. ASSUME NEW c \in Commits, Abort(c) PROVE TypeInv'
  BY <1>3 DEF Abort
<1>4. ASSUME NEW c \in Commits, PurgeFile(c) PROVE TypeInv'
  <2>1. IF live["attachments"] = None THEN TRUE ELSE live["attachments"] \ {c} \in SUBSET Commits
    BY Get
  <2>2. WellFormed(live') /\ live'["database"] = live["database"]
    <3>1. CASE live' = live
      BY <3>1
    <3>2. CASE live["attachments"] = None /\ live' = [live EXCEPT !["attachments"] = None]
      BY <3>2, Put, Get, AttachmentsValue DEF Items
    <3>3. CASE /\ live["attachments"] # None
               /\ live' = [live EXCEPT !["attachments"] = live["attachments"] \ {c}]
      BY <2>1, <3>3, Put, Get, AttachmentsValue DEF Items
    <3> QED
      BY <1>4, <3>1, <3>2, <3>3 DEF PurgeFile
  <2> QED
    BY <1>4, <2>2 DEF PurgeFile, Writable, Served, GateOpen
<1>5. CASE PurgeRow
  <2> DEFINE d == live["database"]
             e == [d EXCEPT !.commits = d.commits \ purging]
  <2>1. d \in Databases
    BY <1>5, Get DEF PurgeRow
  <2>2. e \in Databases
    BY <2>1 DEF Databases
  <2>3. live' = [live EXCEPT !["database"] = e] \/ live' = live
    BY <1>5 DEF PurgeRow
  <2> HIDE DEF e
  <2>4. WellFormed(live')
    BY <2>2, <2>3, Put, DatabaseValue DEF Items
  <2> QED
    BY <1>5, <2>4 DEF PurgeRow
<1>6. ASSUME NEW b \in Backups, Trash(b) PROVE TypeInv'
  <2>1. [Record(b) EXCEPT !.deleted = TRUE] \in Records
    BY <1>6, RecordType DEF Trash, Usable, Records
  <2>2. WellFormed(live')
    BY <1>6, <2>1, Record_Written DEF Trash, Writable, Served
  <2> QED
    BY <1>6, <2>2 DEF Trash, Writable
<1>7. ASSUME NEW b \in Backups, Untrash(b) PROVE TypeInv'
  <2>1. [Record(b) EXCEPT !.deleted = FALSE] \in Records
    BY <1>7, RecordType DEF Untrash, Records
  <2>2. WellFormed(live')
    BY <1>7, <2>1, Record_Written DEF Untrash, Writable, Served
  <2> QED
    BY <1>7, <2>2 DEF Untrash, Writable
<1>8. ASSUME NEW b \in Backups, Import(b) PROVE TypeInv'
  <2>1. issued + 1 \in Backups
    BY <1>0, <1>8 DEF Import, Backups
  <2>2. WellFormed(live')
    BY <1>8, <2>1, Record_Written DEF Import, Writable, Served, Records
  <2>3. file' = [a \in Backups |-> file'[a]] /\ \A a \in Backups : WellFormed(file'[a])
    BY <1>8, <2>1 DEF Import
  <2> QED
    BY <1>0, <1>8, <2>1, <2>2, <2>3 DEF Import, Writable, Backups
<1>9. ASSUME NEW m \in Makers, Begin(m) PROVE TypeInv'
  <2>1. issued + 1 \in Backups
    BY <1>0, <1>9 DEF Begin, Backups
  <2>2. [kind |-> Kind(m), completed |-> FALSE, deleted |-> FALSE] \in Records
    BY <1>0 DEF Kind, Records
  <2>3. WellFormed(live') /\ live'["database"] # None
    BY <1>9, <2>1, <2>2, Record_Written DEF Begin, Admitted, Writable, Served
  <2> QED
    BY <1>0, <1>9, <2>1, <2>3 DEF Begin, Backups
<1>10. ASSUME NEW m \in Makers, Snapshot(m) PROVE TypeInv'
  <2>1. WellFormed(Created(live))
    BY CreatedIsWellFormed
  <2>2. Created(live)["database"] = live["database"]
    BY <1>10 DEF Snapshot, Recorded, Created, Items
  <2> QED
    BY <1>10, <2>1, <2>2 DEF Snapshot
<1>11. ASSUME NEW m \in Makers, Pack(m) PROVE TypeInv'
  <2>1. made[m] \in Backups
    BY <1>0, <1>11 DEF Pack, Backups
  <2> QED
    BY <1>11, <2>1, AbsentIsWellFormed DEF Pack
<1>12. ASSUME NEW m \in Makers, Fail(m) PROVE TypeInv'
  <2>1. made[m] \in Backups
    BY <1>0, <1>12 DEF Fail, Backups
  <2>2. WellFormed(live') /\ (live["database"] # None => live'["database"] # None)
    <3>1. CASE UNCHANGED live
      BY <3>1
    <3>2. CASE Recorded(made[m]) /\ \E struck : Failed(m, struck)
      BY <2>1, <3>2, Failed_Written
    <3> QED
      BY <1>12, <3>1, <3>2 DEF Fail
  <2>3. file' = [b \in Backups |-> file'[b]] /\ \A b \in Backups : WellFormed(file'[b])
    BY <1>12, AbsentIsWellFormed DEF Fail, RemoveFiles
  <2> QED
    BY <1>12, <2>2, <2>3, AbsentIsWellFormed DEF Fail, Finish
<1>13. ASSUME NEW m \in Makers, Complete(m) PROVE TypeInv'
  <2>1. made[m] \in Backups
    BY <1>0, <1>13 DEF Complete, Backups
  <2>2. [Record(made[m]) EXCEPT !.completed = TRUE] \in Records
    BY <1>13, <2>1, RecordType DEF Complete, Records
  <2>3. WellFormed(live') /\ live'["database"] # None
    BY <1>13, <2>1, <2>2, Record_Written DEF Complete, SetCompleted, Recorded
  <2> QED
    BY <1>13, <2>3 DEF Complete
<1>14. ASSUME NEW m \in Makers, Retain(m) PROVE TypeInv'
  <2>1. live["database"] # None
    BY <1>14 DEF Retain, Admitted, Writable, Served
  <2>2. \A b \in Backups : Record(b) \in Records \cup {None}
    BY <2>1, Get DEF Record, Databases
  <2>3. PICK gone \in SUBSET Removable :
          /\ RemoveFiles(gone)
          /\ SetRecords([b \in Backups |-> IF b \in gone THEN None ELSE Record(b)])
    BY <1>14 DEF Retain
  <2>4. WellFormed(live') /\ live'["database"] # None
    BY <2>1, <2>2, <2>3, Records_Written
  <2>5. file' = [b \in Backups |-> file'[b]] /\ \A b \in Backups : WellFormed(file'[b])
    BY <2>3, AbsentIsWellFormed DEF RemoveFiles
  <2> QED
    BY <1>14, <2>4, <2>5, AbsentIsWellFormed DEF Retain, Finish
<1>15. ASSUME NEW b \in Backups, CloseGate(b) PROVE TypeInv'
  BY <1>0, <1>15 DEF CloseGate, Backups
<1>16. CASE Extract
  BY <1>0, <1>16 DEF Extract, Exchanging, Backups
<1>17. CASE ExtractFails
  BY <1>17 DEF ExtractFails
<1>18. ASSUME NEW next \in {"aside", "install", "validate", "cleanup", "putBack", "reopen"},
              Advance(next), phase \in Exchanging \cup Undoing
       PROVE  item' \in 1..3 /\ phase' \in Exchanging \cup Undoing \cup {"reopen"}
  BY <1>18 DEF Advance, Exchanging, Undoing
<1>19. Item \in Items
  BY ItemOfOrder
<1>20. CASE Discard
  BY <1>18, <1>19, <1>20, Put, NoneIsValue DEF Discard, Still, Exchanging, Undoing
<1>21. CASE Aside
  BY <1>18, <1>19, <1>21, Put, NoneIsValue DEF Aside, Still, Exchanging, Undoing, WellFormed
<1>22. CASE Install
  BY <1>18, <1>19, <1>22, Put DEF Install, Still, Exchanging, Undoing, WellFormed
<1>23. CASE Validate
  BY <1>23 DEF Validate, Still, Exchanging
<1>24. CASE Cleanup
  BY <1>18, <1>19, <1>24, Put, NoneIsValue DEF Cleanup, Still, Exchanging, Undoing
<1>25. CASE Raise
  <2>1. ASSUME Item # "database", NEW rest \in SUBSET previous[Item], previous[Item] # None
        PROVE  rest \in Value(Item)
    BY <1>19, <2>1, Get DEF Value, Items
  <2>2. WellFormed(previous')
    <3>1. CASE UNCHANGED previous
      BY <3>1
    <3>2. CASE /\ phase \in {"discard", "cleanup"}
               /\ Item # "database"
               /\ \E rest \in SUBSET previous[Item] : previous' = [previous EXCEPT ![Item] = rest]
      <4>1. PICK rest \in SUBSET previous[Item] : previous' = [previous EXCEPT ![Item] = rest]
        BY <3>2
      <4>2. previous[Item] # None
        BY <1>25, <3>2 DEF Raise
      <4>3. rest \in Value(Item)
        BY <2>1, <3>2, <4>2
      <4> QED
        BY <1>19, <4>1, <4>3, Put
    <3> QED
      BY <1>25, <3>1, <3>2 DEF Raise
  <2> QED
    BY <1>25, <2>2 DEF Raise, Exchanging, Undoing
<1>26. CASE Erase
  BY <1>18, <1>19, <1>26, Put, NoneIsValue DEF Erase, Still, Exchanging, Undoing
<1>27. CASE PutBack
  BY <1>18, <1>19, <1>27, Put, NoneIsValue DEF PutBack, Still, Exchanging, Undoing, WellFormed
<1>28. CASE UndoFails
  BY <1>28 DEF UndoFails, Undoing
<1>29. CASE Reopen
  BY <1>29, AbsentIsWellFormed DEF Reopen, GateIsOpen
<1>30. CASE Restart
  BY <1>30, AbsentIsWellFormed, CreatedIsWellFormed DEF Restart, GateIsOpen
<1>31. CASE UNCHANGED vars
  BY <1>31 DEF vars
<1> QED
  BY <1>1, <1>2, <1>3, <1>4, <1>5, <1>6, <1>7, <1>8, <1>9, <1>10, <1>11, <1>12, <1>13, <1>14,
     <1>15, <1>16, <1>17, <1>20, <1>21, <1>22, <1>23, <1>24, <1>25, <1>26, <1>27, <1>28, <1>29,
     <1>30, <1>31
  DEF Next, Make, Exchange

\* Every variable of the host's backups keeps its type.
THEOREM TypeCorrect == Spec => []TypeOK
<1>1. TypeInv => TypeOK
  BY DEF TypeInv
<1> QED
  BY TypeInit, TypeNext, <1>1, PTL DEF Spec
-----------------------------------------------------------------------------
(* Where the records in a database come from.                               *)

\* Every database there is: served, put aside, in an archive, being packed or
\* extracted.
DBs == {live["database"], previous["database"], new["database"]}
         \cup {file[b]["database"] : b \in Backups}
         \cup {snapshot[m]["database"] : m \in Makers}

\* No database knows an archive that is still to be made.
Fresh ==
  \A d \in DBs : d # None => \A b \in Backups : b > issued => d.record[b] = None

\* Whichever database knows archive b knows it as a pre-restore backup.
PreRestore(b) ==
  \A d \in DBs : d # None /\ d.record[b] # None => d.record[b].kind = "pre-restore"

\* The records of database d come from databases there were, but for that of a
\* new archive.
Derived(d) ==
  \A b \in Backups : d.record[b] # None =>
    \/ \E e \in DBs : e # None /\ e.record[b] # None /\ e.record[b].kind = d.record[b].kind
    \/ b = issued + 1 /\ issued' = issued + 1

FlowStep ==
  /\ \A d \in DBs' : d = None \/ Derived(d)
  /\ issued' \in {issued, issued + 1}

\* A step of which only the served database may be a new one.
LEMMA FlowFromLive ==
  ASSUME live'["database"] = None \/ Derived(live'["database"]),
         previous'["database"] \in DBs \cup {None},
         new'["database"] \in DBs \cup {None},
         \A b \in Backups : file'[b]["database"] \in DBs \cup {None},
         \A m \in Makers : snapshot'[m]["database"] \in DBs \cup {None},
         issued' \in {issued, issued + 1}
  PROVE  FlowStep
<1>1. \A d \in DBs : d = None \/ Derived(d)
  BY DEF Derived
<1> SUFFICES ASSUME NEW d \in DBs' PROVE d = None \/ Derived(d)
  BY DEF FlowStep
<1>2. \/ d = live'["database"]
      \/ d \in DBs \cup {None}
  BY DEF DBs
<1> QED
  BY <1>1, <1>2

LEMMA OldDatabases ==
  /\ live["database"] \in DBs /\ previous["database"] \in DBs /\ new["database"] \in DBs
  /\ \A b \in Backups : file[b]["database"] \in DBs
  /\ \A m \in Makers : snapshot[m]["database"] \in DBs
  /\ Absent["database"] = None
  BY DEF DBs, Absent, Items

LEMMA OldIsDerived == \A d \in DBs : d = None \/ Derived(d)
  BY DEF Derived

LEMMA NewIsDerived == Derived(NewDatabase)
  BY DEF Derived, NewDatabase

\* Changing flags of a record keeps its kind.
LEMMA FlagsKeepKind ==
  ASSUME TypeOK, live["database"] # None, NEW b \in Backups, Record(b) # None,
         NEW r \in Records, r.kind = Record(b).kind, SetRecord(b, r)
  PROVE  Derived(live'["database"])
<1>1. live'["database"].record = [live["database"].record EXCEPT ![b] = r]
  BY Record_Written DEF TypeOK
<1>2. live["database"].record \in [Backups -> Records \cup {None}]
  BY Get DEF TypeOK, Databases
<1> QED
  BY <1>1, <1>2, OldDatabases DEF Derived, Record

LEMMA FreshRecordIsDerived ==
  ASSUME TypeOK, live["database"] # None, issued + 1 \in Backups, issued' = issued + 1,
         NEW r \in Records, SetRecord(issued + 1, r)
  PROVE  Derived(live'["database"])
<1>1. live'["database"].record = [live["database"].record EXCEPT ![issued + 1] = r]
  BY Record_Written DEF TypeOK
<1>2. live["database"].record \in [Backups -> Records \cup {None}]
  BY Get DEF TypeOK, Databases
<1> QED
  BY <1>1, <1>2, OldDatabases DEF Derived

LEMMA Flow == TypeInv /\ Next => FlowStep
<1> SUFFICES ASSUME TypeInv, Next PROVE FlowStep
  OBVIOUS
<1> USE DEF TypeInv, making, writing, restoring
<1>0. MaxBackups \in Nat /\ Makers \subseteq {"request", "cycle", "restore"}
  BY BackupAssumption
<1>t. TypeOK /\ WellFormed(live) /\ WellFormed(previous) /\ issued \in Nat
  BY <1>0 DEF TypeOK
<1>i. Item \in Items /\ DOMAIN live = Items /\ DOMAIN previous = Items
  BY <1>t, ItemOfOrder, Get DEF TypeOK
<1>1. ASSUME NEW c \in Commits, Store(c) PROVE FlowStep
  <2>1. live'["database"] = live["database"]
    BY <1>1, <1>i DEF Store, Items
  <2> QED
    BY <1>1, <2>1, OldDatabases, OldIsDerived, FlowFromLive DEF Store
<1>2. ASSUME NEW c \in Commits, Commit(c) \/ Abort(c) \/ PurgeFile(c) PROVE FlowStep
  <2>1. live["database"] # None => live'["database"].record = live["database"].record
    <3>1. CASE Commit(c)
      BY <1>t, <1>i, <3>1, Get DEF Commit, Writable, Served, Databases, Items
    <3>2. CASE Abort(c)
      BY <3>2 DEF Abort
    <3>3. CASE PurgeFile(c)
      BY <1>i, <3>3 DEF PurgeFile, Items
    <3> QED
      BY <1>2, <3>1, <3>2, <3>3
  <2>2. live["database"] # None \/ live'["database"] = live["database"]
    BY <1>2 DEF Commit, Abort, PurgeFile, Writable, Served
  <2>3. live'["database"] = None \/ Derived(live'["database"])
    BY <2>1, <2>2, OldDatabases, OldIsDerived DEF Derived
  <2> QED
    BY <1>2, <2>3, OldDatabases, FlowFromLive DEF Commit, Abort, PurgeFile
<1>3. CASE PurgeRow
  <2>1. live["database"] # None
    BY <1>3 DEF PurgeRow, GateInv
  <2>2. live'["database"].record = live["database"].record
    BY <1>t, <1>i, <1>3, <2>1, Get DEF PurgeRow, Databases, Items
  <2>3. Derived(live'["database"])
    BY <2>1, <2>2, OldDatabases DEF Derived
  <2> QED
    BY <1>3, <2>3, OldDatabases, FlowFromLive DEF PurgeRow
<1>4. ASSUME NEW b \in Backups, Trash(b) \/ Untrash(b) PROVE FlowStep
  <2>1. Recorded(b) /\ live["database"] # None
    BY <1>4 DEF Trash, Untrash, Usable, Recorded
  <2>2. Record(b) \in Records /\ Record(b) # None
    BY <1>t, <2>1, RecordType DEF Recorded
  <2>3. PICK f \in BOOLEAN : SetRecord(b, [Record(b) EXCEPT !.deleted = f])
    BY <1>4 DEF Trash, Untrash
  <2>4. /\ [Record(b) EXCEPT !.deleted = f] \in Records
        /\ [Record(b) EXCEPT !.deleted = f].kind = Record(b).kind
    BY <2>2 DEF Records
  <2>5. Derived(live'["database"])
    BY <1>t, <2>1, <2>2, <2>3, <2>4, FlagsKeepKind
  <2> QED
    BY <1>4, <2>5, OldDatabases, FlowFromLive DEF Trash, Untrash
<1>5. ASSUME NEW b \in Backups, Import(b) PROVE FlowStep
  <2>1. issued + 1 \in Backups
    BY <1>0, <1>t, <1>5 DEF Import, Backups
  <2>2. [kind |-> "imported", completed |-> TRUE, deleted |-> FALSE] \in Records
    BY DEF Records
  <2>3. Derived(live'["database"])
    BY <1>t, <1>5, <2>1, <2>2, FreshRecordIsDerived DEF Import, Writable, Served
  <2>4. \A a \in Backups : file'[a]["database"] \in DBs
    BY <1>5, OldDatabases DEF Import, TypeOK
  <2> QED
    BY <1>5, <2>3, <2>4, OldDatabases, FlowFromLive DEF Import
<1>6. ASSUME NEW m \in Makers, Begin(m) PROVE FlowStep
  <2>1. issued + 1 \in Backups
    BY <1>0, <1>t, <1>6 DEF Begin, Backups
  <2>2. [kind |-> Kind(m), completed |-> FALSE, deleted |-> FALSE] \in Records
    BY <1>0 DEF Kind, Records
  <2>3. Derived(live'["database"])
    BY <1>t, <1>6, <2>1, <2>2, FreshRecordIsDerived DEF Begin, Admitted, Writable, Served
  <2> QED
    BY <1>6, <2>3, OldDatabases, FlowFromLive DEF Begin
<1>7. ASSUME NEW m \in Makers, Snapshot(m) PROVE FlowStep
  <2>1. Created(live)["database"] = live["database"]
    BY <1>7 DEF Snapshot, Recorded, Created, Items
  <2>2. \A n \in Makers : snapshot'[n]["database"] \in DBs
    BY <1>7, <2>1, OldDatabases DEF Snapshot, TypeOK
  <2> QED
    BY <1>7, <2>1, <2>2, OldDatabases, OldIsDerived, FlowFromLive DEF Snapshot
<1>8. ASSUME NEW m \in Makers, Pack(m) PROVE FlowStep
  <2>1. \A a \in Backups : file'[a]["database"] \in DBs
    BY <1>8, OldDatabases DEF Pack, TypeOK
  <2>2. \A n \in Makers : snapshot'[n]["database"] \in DBs \cup {None}
    BY <1>8, OldDatabases DEF Pack, TypeOK
  <2> QED
    BY <1>8, <2>1, <2>2, OldDatabases, OldIsDerived, FlowFromLive DEF Pack
<1>m. \A m \in Makers : stage[m] # "idle" => made[m] \in Backups
  BY <1>0 DEF TypeOK, Backups
<1>9. ASSUME NEW m \in Makers, Fail(m) \/ Complete(m) PROVE FlowStep
  <2>1. \A n \in Makers : snapshot'[n]["database"] \in DBs \cup {None}
    BY <1>9, OldDatabases DEF Fail, Complete, Finish, TypeOK
  <2>2. \A a \in Backups : file'[a]["database"] \in DBs \cup {None}
    BY <1>9, OldDatabases DEF Fail, Complete, RemoveFiles, TypeOK
  <2>3. made[m] \in Backups
    BY <1>9, <1>m DEF Fail, Complete
  <2>4. CASE UNCHANGED live
    BY <1>9, <2>1, <2>2, <2>4, OldDatabases, OldIsDerived, FlowFromLive DEF Fail, Complete, Finish
  <2>5. CASE Recorded(made[m]) /\ \E struck : Failed(m, struck)
    <3>1. Derived(live'["database"])
      BY <1>t, <2>3, <2>5, Failed_Written, OldDatabases DEF Derived, Record
    <3> QED
      BY <1>9, <2>1, <2>2, <3>1, OldDatabases, FlowFromLive DEF Fail, Complete, Finish
  <2>6. CASE Recorded(made[m]) /\ SetCompleted(made[m], TRUE)
    <3>1. Record(made[m]) \in Records /\ Record(made[m]) # None /\ live["database"] # None
      BY <1>t, <2>3, <2>6, RecordType DEF Recorded
    <3>2. /\ [Record(made[m]) EXCEPT !.completed = TRUE] \in Records
          /\ [Record(made[m]) EXCEPT !.completed = TRUE].kind = Record(made[m]).kind
      BY <3>1 DEF Records
    <3>3. Derived(live'["database"])
      BY <1>t, <2>3, <2>6, <3>1, <3>2, FlagsKeepKind DEF SetCompleted
    <3> QED
      BY <1>9, <2>1, <2>2, <3>3, OldDatabases, FlowFromLive DEF Fail, Complete, Finish
  <2> QED
    BY <1>9, <2>4, <2>5, <2>6 DEF Fail, Complete
<1>10. ASSUME NEW m \in Makers, Retain(m) PROVE FlowStep
  <2>1. live["database"] # None
    BY <1>10 DEF Retain, Admitted, Writable, Served
  <2>2. \A b \in Backups : Record(b) \in Records \cup {None}
    BY <1>t, <2>1, Get DEF Record, Databases
  <2>3. PICK gone \in SUBSET Removable :
          /\ RemoveFiles(gone)
          /\ SetRecords([b \in Backups |-> IF b \in gone THEN None ELSE Record(b)])
    BY <1>10 DEF Retain
  <2>4. live'["database"].record = [b \in Backups |-> IF b \in gone THEN None ELSE Record(b)]
    BY <1>t, <2>1, <2>2, <2>3, Records_Written
  <2>5. Derived(live'["database"])
    BY <2>1, <2>4, OldDatabases DEF Derived, Record
  <2>6. \A a \in Backups : file'[a]["database"] \in DBs \cup {None}
    BY <2>3, OldDatabases DEF RemoveFiles
  <2>7. \A n \in Makers : snapshot'[n]["database"] \in DBs \cup {None}
    BY <1>10, OldDatabases DEF Retain, Finish, TypeOK
  <2> QED
    BY <1>10, <2>5, <2>6, <2>7, OldDatabases, FlowFromLive DEF Retain, Finish
<1>11. CASE (\E b \in Backups : CloseGate(b)) \/ ExtractFails \/ Validate \/ UndoFails
  BY <1>11, OldDatabases, OldIsDerived, FlowFromLive
  DEF CloseGate, ExtractFails, Validate, UndoFails, Still
<1>12. CASE Extract
  <2>1. source \in Backups
    BY <1>12 DEF Extract, TypeOK
  <2> QED
    BY <1>12, <2>1, OldDatabases, OldIsDerived, FlowFromLive DEF Extract
<1>13. CASE Discard \/ Aside \/ Install \/ Cleanup \/ Erase \/ PutBack
  <2>1. /\ live'["database"] \in DBs \cup {None}
        /\ previous'["database"] \in DBs \cup {None}
    <3>1. ASSUME NEW x \in {live, previous, new}, NEW v \in {None, live[Item], previous[Item], new[Item]}
          PROVE  [x EXCEPT ![Item] = v]["database"] \in DBs \cup {None}
      <4>1. DOMAIN x = Items
        BY <1>t, <1>i, Get DEF TypeOK
      <4>2. CASE Item = "database"
        BY <1>i, <4>1, <4>2, OldDatabases
      <4>3. CASE Item # "database"
        BY <1>i, <4>1, <4>3, OldDatabases DEF Items
      <4> QED
        BY <4>2, <4>3
    <3>2. live' = live \/ \E v \in {None, live[Item], previous[Item], new[Item]} :
                              live' = [live EXCEPT ![Item] = v]
      BY <1>13 DEF Discard, Aside, Install, Cleanup, Erase, PutBack
    <3>3. previous' = previous \/ \E v \in {None, live[Item], previous[Item], new[Item]} :
                              previous' = [previous EXCEPT ![Item] = v]
      BY <1>13 DEF Discard, Aside, Install, Cleanup, Erase, PutBack
    <3> QED
      BY <3>1, <3>2, <3>3, OldDatabases
  <2> QED
    BY <1>13, <2>1, OldDatabases, OldIsDerived, FlowFromLive
    DEF Discard, Aside, Install, Cleanup, Erase, PutBack, Still
<1>14. CASE Raise
  <2>1. previous'["database"] = previous["database"]
    <3>1. CASE UNCHANGED previous
      BY <3>1
    <3>2. CASE Item # "database" /\ \E rest : previous' = [previous EXCEPT ![Item] = rest]
      BY <1>i, <3>2 DEF Items
    <3> QED
      BY <1>14, <3>1, <3>2 DEF Raise
  <2> QED
    BY <1>14, <2>1, OldDatabases, OldIsDerived, FlowFromLive DEF Raise
<1>15. CASE Reopen
  BY <1>15, OldDatabases, OldIsDerived, FlowFromLive DEF Reopen, GateIsOpen
<1>16. CASE Restart
  <2>1. live'["database"] = live["database"] \/ live'["database"] = NewDatabase
    BY <1>16 DEF Restart, Created, Items
  <2>2. \A n \in Makers : snapshot'[n]["database"] = None
    BY <1>16, OldDatabases DEF Restart
  <2> QED
    BY <1>16, <2>1, <2>2, OldDatabases, OldIsDerived, NewIsDerived, FlowFromLive
    DEF Restart, GateIsOpen
<1> QED
  BY <1>1, <1>2, <1>3, <1>4, <1>5, <1>6, <1>7, <1>8, <1>9, <1>10, <1>11, <1>12, <1>13, <1>14,
     <1>15, <1>16
  DEF Next, Make, Exchange

-----------------------------------------------------------------------------
(* What a restore replaces stays in its pre-restore archive.                *)

\* Archive w has data d, and nobody is going to write or remove it: no maker
\* makes it, and retention never takes it for an automatic one.
Keeps(w, d) ==
  /\ w \in 1..issued
  /\ Data(file[w]) = d
  /\ PreRestore(w)
  /\ \A m \in Makers : made[m] # w

Kept == \A d \in replaced : \E w \in Backups : Keeps(w, d)

\* When restore goes on to extract, its archive has the data that are served.
KeptNow == phase = "extract" => \E w \in Backups : Keeps(w, Data(live))

\* Until then its archive is being made of them.
Packing ==
  \A m \in Makers : m = "restore" /\ stage[m] # "idle" =>
    /\ PreRestore(made[m])
    /\ Recorded(made[m]) /\ ~Record(made[m]).deleted
    /\ stage[m] = "pack" => Data(snapshot[m]) = Data(live)
    /\ stage[m] \in {"complete", "retain"} => Data(file[made[m]]) = Data(live)

\* Two makers make two archives.
Apart == \A m, n \in Makers : m # n /\ stage[m] # "idle" => made[m] # made[n]

\* Behind the gate no other maker has a transaction open.
Alone ==
  phase # "idle" =>
    \A m \in Makers : m # "restore" => stage[m] \notin {"pack", "complete"}

KeepInv == TypeInv /\ Fresh /\ Alone /\ Apart /\ Kept /\ KeptNow /\ Packing

\* Fresh is kept by every step, and so is what is known of an archive.
LEMMA FreshNext == TypeInv /\ Fresh /\ FlowStep => Fresh'
<1> SUFFICES ASSUME TypeInv, Fresh, FlowStep,
                    NEW d \in DBs', d # None, NEW b \in Backups, b > issued'
             PROVE  d.record[b] = None
  BY DEF Fresh
<1>1. Derived(d)
  BY DEF FlowStep
<1>2. issued \in Nat /\ b \in Nat
  BY BackupAssumption DEF TypeInv, TypeOK, Backups
<1>3. b > issued /\ ~(b = issued + 1 /\ issued' = issued + 1)
  BY <1>2 DEF FlowStep
<1> QED
  BY <1>1, <1>3 DEF Derived, Fresh

LEMMA PreRestoreNext ==
  ASSUME TypeInv, FlowStep, NEW w \in 1..issued, PreRestore(w)
  PROVE  PreRestore(w)'
<1> SUFFICES ASSUME NEW d \in DBs', d # None, d.record[w] # None
             PROVE  d.record[w].kind = "pre-restore"
  BY DEF PreRestore
<1>1. Derived(d)
  BY DEF FlowStep
<1>2. w \in Backups /\ w # issued + 1
  BY BackupAssumption DEF TypeInv, TypeOK, Backups
<1> QED
  BY <1>1, <1>2 DEF Derived, PreRestore

\* An archive keeps data through a step that leaves its file alone and in which
\* no maker takes its name.
LEMMA KeepsNext ==
  ASSUME TypeInv, FlowStep, NEW w \in Backups, NEW d, Keeps(w, d),
         file'[w] = file[w],
         \A m \in Makers : made'[m] \in {made[m], 0, issued + 1}
  PROVE  Keeps(w, d)'
<1>1. w \in 1..issued /\ w \in 1..issued' /\ w # issued + 1 /\ w # 0
  BY BackupAssumption DEF Keeps, FlowStep, TypeInv, TypeOK
<1>2. PreRestore(w)'
  BY <1>1, PreRestoreNext DEF Keeps
<1>3. \A m \in Makers : made'[m] # w
  BY <1>1 DEF Keeps
<1>4. Data(file'[w]) = d
  BY DEF Keeps
<1> QED
  BY <1>1, <1>2, <1>3, <1>4 DEF Keeps

\* All the witnesses in a step that removes no archive.
LEMMA KeptUnchanged ==
  ASSUME TypeInv, FlowStep, Kept,
         \A w \in 1..issued : \/ file'[w] = file[w]
                             \/ \E m \in Makers : made[m] = w,
         \A m \in Makers : made'[m] \in {made[m], 0, issued + 1},
         replaced' = replaced
  PROVE  Kept'
<1> SUFFICES ASSUME NEW d \in replaced PROVE \E w \in Backups : Keeps(w, d)'
  BY DEF Kept
<1>1. PICK w \in Backups : Keeps(w, d)
  BY DEF Kept
<1>2. file'[w] = file[w]
  BY <1>1 DEF Keeps
<1> QED
  BY <1>1, <1>2, KeepsNext

\* ... and in one of retention, which removes what somebody has moved to the
\* trash, automatic archives and perhaps the one being made.
LEMMA KeptRemoved ==
  ASSUME TypeInv, FlowStep, Kept, live["database"] # None,
         NEW gone \in SUBSET Removable, NEW own, \/ own = {}
                                                \/ \E m \in Makers : own = {made[m]},
         RemoveFiles(gone \cup own),
         \A m \in Makers : made'[m] \in {made[m], 0, issued + 1}
  PROVE  Kept'
<1> SUFFICES ASSUME NEW d \in replaced' PROVE \E w \in Backups : Keeps(w, d)'
  BY DEF Kept
<1>1. d \in replaced /\ d \notin {Data(file[b]) : b \in (gone \cup own) \cap Trashed}
  BY DEF RemoveFiles
<1>2. PICK w \in Backups : Keeps(w, d)
  BY <1>1 DEF Kept
<1>3. w \notin own
  BY <1>2 DEF Keeps
<1>4. w \notin (gone \cup own) \cap Trashed
  BY <1>1, <1>2 DEF Keeps
<1>5. w \notin Automatic
  BY <1>2, OldDatabases DEF Keeps, PreRestore, Automatic, Usable, Recorded, Record
<1>6. w \notin gone
  BY <1>4, <1>5 DEF Removable
<1>7. file'[w] = file[w]
  BY <1>3, <1>6 DEF RemoveFiles
<1> QED
  BY <1>2, <1>7, KeepsNext

LEMMA KeepInit == Init => KeepInv
<1> SUFFICES ASSUME Init PROVE KeepInv
  OBVIOUS
<1>1. live["database"] = NewDatabase
  BY DEF Init, Created, Absent, Items
<1>2. \A d \in DBs : d \in {None, NewDatabase}
  BY <1>1, OldDatabases DEF Init, DBs
<1>3. Fresh
  BY <1>2 DEF Fresh, NewDatabase
<1>4. phase = "idle" /\ replaced = {} /\ \A m \in Makers : stage[m] = "idle"
  BY DEF Init
<1> QED
  BY <1>3, <1>4, TypeInit DEF KeepInv, Alone, Apart, Kept, KeptNow, Packing

LEMMA KeepNext == KeepInv /\ [Next]_vars => KeepInv'
<1> SUFFICES ASSUME KeepInv, [Next]_vars PROVE KeepInv'
  OBVIOUS
<1> USE DEF making, writing, restoring
<1>t. TypeInv /\ TypeOK /\ GateInv /\ TypeInv' /\ GateInv'
  BY TypeNext DEF KeepInv, TypeInv
<1>n. issued \in Nat /\ MaxBackups \in Nat /\ made \in [Makers -> 0..issued]
  BY <1>t, BackupAssumption DEF TypeOK
<1>b. \A m \in Makers : stage[m] # "idle" => made[m] \in 1..issued /\ made[m] \in Backups
  BY <1>t, <1>n DEF TypeOK, Backups
<1>1. CASE UNCHANGED <<live, previous, file, issued, making, restoring, replaced>>
  <2>1. DBs' = DBs
    BY <1>1 DEF DBs
  <2>2. Fresh' /\ \A w : PreRestore(w)' = PreRestore(w)
    BY <1>1, <2>1 DEF KeepInv, Fresh, PreRestore
  <2> QED
    BY <1>1, <1>t, <2>2
    DEF KeepInv, Alone, Apart, Kept, KeptNow, Packing, Keeps, Data, Recorded, Record
<1> SUFFICES ASSUME Next PROVE KeepInv'
  BY <1>1 DEF vars
<1>f. FlowStep /\ Fresh' /\ Kept /\ Fresh /\ Apart /\ Alone /\ KeptNow /\ Packing
  BY <1>t, Flow, FreshNext DEF KeepInv
<1>g. phase' # "backup" => Packing'
  BY <1>t DEF Packing, GateInv
<1>h. \A w \in 1..issued : PreRestore(w) => PreRestore(w)'
  BY <1>t, <1>f, PreRestoreNext
<1>2. ASSUME UNCHANGED <<file, making, restoring, replaced>>, phase = "idle" PROVE KeepInv'
  BY <1>2, <1>t, <1>f, <1>g, KeptUnchanged DEF KeepInv, Alone, Apart, KeptNow
<1>3. ASSUME NEW c \in Commits, Store(c) \/ Commit(c) \/ Abort(c) \/ PurgeFile(c) PROVE KeepInv'
  BY <1>1, <1>2, <1>3 DEF Store, Commit, Abort, PurgeFile, Writable, Served, GateOpen
<1>4. CASE PurgeRow
  BY <1>2, <1>4, <1>t DEF PurgeRow, GateInv
<1>5. ASSUME NEW b \in Backups, Trash(b) \/ Untrash(b) PROVE KeepInv'
  BY <1>2, <1>5 DEF Trash, Untrash, Writable, Served, GateOpen
<1>6. ASSUME NEW b \in Backups, Import(b) PROVE KeepInv'
  <2>1. phase = "idle" /\ phase' = "idle" /\ UNCHANGED <<making, replaced>>
    BY <1>6 DEF Import, Writable, Served, GateOpen
  <2>2. \A w \in 1..issued : file'[w] = file[w]
    BY <1>6, <1>n, <1>t DEF Import, TypeOK, Backups
  <2> QED
    BY <1>t, <1>f, <1>g, <2>1, <2>2, KeptUnchanged DEF KeepInv, Alone, Apart, KeptNow
<1>7. ASSUME NEW m \in Makers, Begin(m) PROVE KeepInv'
  <2>1. /\ phase' = phase /\ phase \in {"idle", "backup"} /\ UNCHANGED <<file, replaced>>
        /\ made' = [made EXCEPT ![m] = issued + 1]
        /\ stage' = [stage EXCEPT ![m] = "recorded"]
        /\ stage[m] = "idle"
    BY <1>7 DEF Begin, Admitted, Writable, Served, GateOpen
  <2>2. Apart'
    BY <1>n, <1>f, <1>t, <2>1 DEF Apart, TypeOK
  <2>3. Alone'
    BY <1>f, <1>t, <2>1 DEF Alone, TypeOK
  <2>4. Kept'
    BY <1>n, <1>t, <1>f, <2>1, KeptUnchanged
  <2>5. Packing'
    <3>1. CASE m # "restore"
      BY <1>7, <1>g, <3>1 DEF Begin, Admitted, Writable, Served, GateOpen
    <3>2. CASE m = "restore"
      <4> DEFINE r == [kind |-> "pre-restore", completed |-> FALSE, deleted |-> FALSE]
      <4>1. issued + 1 \in Backups /\ live["database"] # None /\ SetRecord(issued + 1, r)
        BY <1>7, <1>n, <3>2 DEF Begin, Backups, Admitted, Kind
      <4>2. r \in Records /\ r # None
        BY BackupAssumption DEF Records
      <4>3. live'["database"] # None /\ live'["database"].record[issued + 1] = r
        BY <1>t, <4>1, <4>2, Record_Written DEF TypeOK
      <4>4. \A d \in DBs' : d = live'["database"] \/ d \in DBs
        BY <1>7 DEF Begin, DBs
      <4>5. \A w : w = issued + 1 => PreRestore(w)'
        <5> SUFFICES ASSUME NEW d \in DBs', d # None, d.record[issued + 1] # None
                     PROVE  d.record[issued + 1].kind = "pre-restore"
          BY DEF PreRestore
        <5>1. d \notin DBs
          BY <1>f, <1>n, <4>1 DEF Fresh
        <5> QED
          BY <4>3, <4>4, <5>1
      <4>6. made'[m] = issued + 1 /\ stage'[m] = "recorded"
        BY <1>n, <1>t, <2>1 DEF TypeOK
      <4>7. PreRestore(made[m])'
        BY <4>5, <4>6 DEF PreRestore
      <4>8. Recorded(made[m])' /\ ~Record(made[m])'.deleted
        BY <4>2, <4>3, <4>6 DEF Recorded, Record
      <4> QED
        BY <3>2, <4>6, <4>7, <4>8 DEF Packing
    <3> QED
      BY <3>1, <3>2
  <2> QED
    BY <1>t, <1>f, <2>1, <2>2, <2>3, <2>4, <2>5 DEF KeepInv, KeptNow
<1>8. ASSUME NEW m \in Makers, Snapshot(m) PROVE KeepInv'
  <2>1. /\ UNCHANGED <<made, phase, file, replaced>>
        /\ stage[m] = "recorded" /\ stage' = [stage EXCEPT ![m] = "pack"]
        /\ snapshot' = [snapshot EXCEPT ![m] = Created(live)]
        /\ live' = Created(live)
        /\ Recorded(made[m])
    BY <1>8 DEF Snapshot
  <2>2. IF m = "restore" THEN phase = "backup" ELSE phase = "idle"
    BY <1>8, <1>t, <2>1 DEF Snapshot, Admitted, Writable, Served, GateOpen, GateInv
  <2>3. Apart' /\ Alone'
    BY <1>f, <1>t, <2>1, <2>2 DEF Apart, Alone, TypeOK
  <2>4. Kept'
    BY <1>n, <1>t, <1>f, <2>1, KeptUnchanged
  <2>5. Packing'
    <3>1. CASE m # "restore"
      BY <1>g, <2>1, <2>2, <3>1
    <3>2. CASE m = "restore"
      <4>1. live'["database"] = live["database"]
        BY <2>1 DEF Recorded, Created, Items
      <4>2. snapshot'[m] = live' /\ stage'[m] = "pack" /\ made'[m] = made[m]
        BY <1>t, <2>1 DEF TypeOK
      <4>3. PreRestore(made[m])'
        <5>1. PreRestore(made[m])
          BY <1>f, <2>1, <3>2 DEF Packing
        <5> QED
          BY <1>b, <1>h, <2>1, <5>1 DEF PreRestore
      <4>4. Recorded(made[m])' /\ ~Record(made[m])'.deleted
        BY <1>f, <2>1, <3>2, <4>1 DEF Packing, Recorded, Record
      <4> QED
        BY <3>2, <4>2, <4>3, <4>4 DEF Packing
    <3> QED
      BY <3>1, <3>2
  <2> QED
    BY <1>t, <1>f, <2>1, <2>2, <2>3, <2>4, <2>5 DEF KeepInv, KeptNow
<1>9. ASSUME NEW m \in Makers, Pack(m) PROVE KeepInv'
  <2>1. /\ UNCHANGED <<made, phase, live, replaced>>
        /\ stage[m] = "pack" /\ stage' = [stage EXCEPT ![m] = "complete"]
        /\ file' = [file EXCEPT ![made[m]] = snapshot[m]]
    BY <1>9 DEF Pack
  <2>2. IF m = "restore" THEN phase = "backup" ELSE phase = "idle"
    BY <1>f, <1>t, <2>1 DEF Alone, GateInv
  <2>3. Apart' /\ Alone'
    BY <1>f, <1>t, <2>1, <2>2 DEF Apart, Alone, TypeOK
  <2>4. Kept'
    <3>1. \A w \in 1..issued : file'[w] = file[w] \/ made[m] = w
      BY <1>n, <1>t, <2>1 DEF TypeOK, Backups
    <3> QED
      BY <1>n, <1>t, <1>f, <2>1, <3>1, KeptUnchanged
  <2>5. Packing'
    <3>1. CASE m # "restore"
      BY <1>g, <2>1, <2>2, <3>1
    <3>2. CASE m = "restore"
      <4>1. /\ PreRestore(made[m]) /\ Recorded(made[m]) /\ ~Record(made[m]).deleted
            /\ Data(snapshot[m]) = Data(live)
        BY <1>f, <2>1, <3>2 DEF Packing
      <4>2. PreRestore(made[m])'
        BY <1>b, <1>h, <2>1, <4>1 DEF PreRestore
      <4>3. file'[made[m]] = snapshot[m] /\ stage'[m] = "complete"
        BY <1>b, <1>t, <2>1 DEF TypeOK
      <4>4. Data(file[made[m]])' = Data(live)'
        BY <2>1, <4>1, <4>3 DEF Data
      <4>5. Recorded(made[m])' /\ ~Record(made[m])'.deleted
        BY <2>1, <4>1 DEF Recorded, Record
      <4> QED
        BY <3>2, <4>2, <4>3, <4>4, <4>5 DEF Packing
    <3> QED
      BY <3>1, <3>2
  <2> QED
    BY <1>t, <1>f, <2>1, <2>2, <2>3, <2>4, <2>5 DEF KeepInv, KeptNow
<1>10. ASSUME NEW m \in Makers, Fail(m) PROVE KeepInv'
  <2>1. /\ stage[m] # "idle" /\ stage' = [stage EXCEPT ![m] = "idle"]
        /\ made' = [made EXCEPT ![m] = 0]
        /\ snapshot' = [snapshot EXCEPT ![m] = Absent]
        /\ phase' = IF m = "restore" THEN "reopen" ELSE phase
        /\ UNCHANGED <<previous, issued, new>>
    BY <1>10 DEF Fail, Finish
  <2>2. Apart' /\ Alone'
    BY <1>f, <1>t, <2>1 DEF Apart, Alone, TypeOK, GateInv
  <2>3. \A n \in Makers : made'[n] \in {made[n], 0, issued + 1}
    BY <1>n, <2>1
  <2>4. CASE UNCHANGED <<live, file, replaced>>
    <3>1. Kept'
      BY <1>n, <1>t, <1>f, <2>3, <2>4, KeptUnchanged
    <3>2. KeptNow'
      <4> SUFFICES ASSUME phase' = "extract" PROVE (\E w \in Backups : Keeps(w, Data(live)))'
        BY DEF KeptNow
      <4>1. PICK w \in Backups : Keeps(w, Data(live))
        BY <1>f, <2>1 DEF KeptNow
      <4>2. Keeps(w, Data(live))'
        <5> DEFINE d == Data(live)
        <5>1. d = Data(live)'
          BY <2>4 DEF Data
        <5>2. \A e : e = d => Keeps(w, e)'
          BY <1>t, <1>f, <2>3, <2>4, <4>1, KeepsNext
        <5> QED
          BY <5>1, <5>2 DEF Keeps
      <4> QED
        BY <4>2
    <3>3. Packing'
      <4> SUFFICES ASSUME NEW n \in Makers, n = "restore", stage'[n] # "idle"
                   PROVE  /\ PreRestore(made[n])'
                          /\ Recorded(made[n])' /\ ~Record(made[n])'.deleted
                          /\ stage'[n] = "pack" => Data(snapshot[n])' = Data(live)'
                          /\ stage'[n] \in {"complete", "retain"} => Data(file[made[n]])' = Data(live)'
        BY DEF Packing
      <4>1. n # m /\ stage'[n] = stage[n] /\ made'[n] = made[n] /\ snapshot'[n] = snapshot[n]
        BY <1>n, <1>t, <2>1 DEF TypeOK
      <4>2. /\ PreRestore(made[n]) /\ Recorded(made[n]) /\ ~Record(made[n]).deleted
            /\ stage[n] = "pack" => Data(snapshot[n]) = Data(live)
            /\ stage[n] \in {"complete", "retain"} => Data(file[made[n]]) = Data(live)
        BY <1>f, <4>1 DEF Packing
      <4>3. PreRestore(made[n])'
        BY <1>b, <1>h, <4>1, <4>2 DEF PreRestore
      <4>4. Recorded(made[n])' /\ ~Record(made[n])'.deleted
        BY <2>4, <4>1, <4>2 DEF Recorded, Record
      <4> QED
        BY <2>4, <4>1, <4>2, <4>3, <4>4 DEF Data
    <3> QED
      BY <1>t, <1>f, <2>2, <3>1, <3>2, <3>3 DEF KeepInv
  <2>5. CASE /\ Admitted(m)
             /\ \E gone \in SUBSET Removable :
                  RemoveFiles(gone) \/ RemoveFiles(gone \cup {made[m]})
    <3>1. PICK gone \in SUBSET Removable, own \in {{}, {made[m]}} : RemoveFiles(gone \cup own)
      <4>1. \A gone : gone \cup {} = gone
        OBVIOUS
      <4> QED
        BY <2>5, <4>1
    <3>2. live["database"] # None
      BY <2>5 DEF Admitted, Writable, Served
    <3>3. Kept'
      BY <1>t, <1>f, <2>3, <3>1, <3>2, KeptRemoved
    <3>4. phase' \in {"idle", "reopen"}
      BY <2>1, <2>5 DEF Admitted, Writable, Served, GateOpen
    <3> QED
      BY <1>t, <1>f, <1>g, <2>2, <3>3, <3>4 DEF KeepInv, KeptNow
  <2> QED
    BY <1>10, <2>4, <2>5 DEF Fail
<1>11. ASSUME NEW m \in Makers, Complete(m) PROVE KeepInv'
  <2>1. /\ UNCHANGED <<made, phase, file, replaced, snapshot>>
        /\ stage[m] = "complete" /\ stage' = [stage EXCEPT ![m] = "retain"]
        /\ Recorded(made[m])
        /\ SetRecord(made[m], [Record(made[m]) EXCEPT !.completed = TRUE])
    BY <1>11 DEF Complete, SetCompleted
  <2>2. IF m = "restore" THEN phase = "backup" ELSE phase = "idle"
    BY <1>11, <1>t, <2>1 DEF Complete, Admitted, Writable, Served, GateOpen, GateInv
  <2>3. Apart' /\ Alone'
    BY <1>f, <1>t, <2>1, <2>2 DEF Apart, Alone, TypeOK
  <2>4. Kept'
    BY <1>n, <1>t, <1>f, <2>1, KeptUnchanged
  <2>5. Packing'
    <3>1. CASE m # "restore"
      BY <1>g, <2>1, <2>2, <3>1
    <3>2. CASE m = "restore"
      <4>1. /\ PreRestore(made[m]) /\ ~Record(made[m]).deleted
            /\ Data(file[made[m]]) = Data(live)
        BY <1>f, <2>1, <3>2 DEF Packing
      <4>2. PreRestore(made[m])'
        BY <1>b, <1>h, <2>1, <4>1 DEF PreRestore
      <4>3. Record(made[m]) \in Records /\ made[m] \in Backups
        BY <1>b, <1>t, <2>1, RecordType DEF TypeOK
      <4> DEFINE r == [Record(made[m]) EXCEPT !.completed = TRUE]
      <4>4. r \in Records /\ r # None /\ r.deleted = Record(made[m]).deleted
        BY <4>3, BackupAssumption DEF Records
      <4> HIDE DEF r
      <4>5. /\ live'["database"] # None /\ live'["database"].record[made[m]] = r
            /\ Data(live') = Data(live)
        BY <1>t, <2>1, <4>3, <4>4, Record_Written DEF TypeOK, Recorded, r
      <4>6. Recorded(made[m])' /\ ~Record(made[m])'.deleted
        BY <2>1, <4>1, <4>4, <4>5 DEF Recorded, Record
      <4>7. Data(file[made[m]])' = Data(live)' /\ stage'[m] = "retain"
        BY <1>t, <2>1, <4>1, <4>5 DEF Data, TypeOK
      <4> QED
        BY <3>2, <4>2, <4>6, <4>7 DEF Packing
    <3> QED
      BY <3>1, <3>2
  <2> QED
    BY <1>t, <1>f, <2>1, <2>2, <2>3, <2>4, <2>5 DEF KeepInv, KeptNow
<1>12. ASSUME NEW m \in Makers, Retain(m) PROVE KeepInv'
  <2>1. /\ stage[m] = "retain" /\ stage' = [stage EXCEPT ![m] = "idle"]
        /\ made' = [made EXCEPT ![m] = 0]
        /\ phase' = IF m = "restore" THEN "extract" ELSE phase
        /\ live["database"] # None
    BY <1>12 DEF Retain, Finish, Admitted, Writable, Served
  <2>2. IF m = "restore" THEN phase = "backup" ELSE phase = "idle"
    BY <1>12, <1>t, <2>1 DEF Retain, Admitted, Writable, Served, GateOpen, GateInv
  <2>3. PICK gone \in SUBSET Removable :
          /\ RemoveFiles(gone)
          /\ SetRecords([b \in Backups |-> IF b \in gone THEN None ELSE Record(b)])
    BY <1>12 DEF Retain
  <2>4. Apart' /\ Alone'
    BY <1>f, <1>t, <2>1, <2>2 DEF Apart, Alone, TypeOK
  <2>5. \A n \in Makers : made'[n] \in {made[n], 0, issued + 1}
    BY <1>n, <2>1
  <2>6. Kept'
    <3>1. RemoveFiles(gone \cup {})
      BY <2>3 DEF RemoveFiles
    <3> QED
      BY <1>t, <1>f, <2>1, <2>5, <3>1, KeptRemoved
  <2>7. KeptNow'
    <3>1. CASE m # "restore"
      BY <2>1, <2>2, <3>1 DEF KeptNow
    <3>2. CASE m = "restore"
      <4>0. PICK w \in Backups : w = made[m]
        BY <1>b, <2>1
      <4>1. PreRestore(w) /\ Recorded(w) /\ ~Record(w).deleted /\ Data(file[w]) = Data(live)
        BY <1>f, <2>1, <3>2, <4>0 DEF Packing
      <4>2. w \in 1..issued
        BY <1>b, <2>1, <4>0
      <4>3. w \notin Trashed /\ w \notin Automatic
        BY <4>1, OldDatabases DEF PreRestore, Trashed, Automatic, Usable, Recorded, Record
      <4>4. file'[w] = file[w]
        BY <2>3, <4>2, <4>3 DEF RemoveFiles, Removable
      <4>5. \A b \in Backups : Record(b) \in Records \cup {None}
        BY <1>t, <2>1, Get DEF TypeOK, Record, Databases
      <4>6. Data(live') = Data(live)
        BY <1>t, <2>1, <2>3, <4>5, Records_Written DEF TypeOK
      <4>7. \A n \in Makers : made'[n] # w
        BY <1>f, <1>n, <2>1, <4>0, <4>2 DEF Apart
      <4>8. w \in 1..issued'
        BY <1>n, <1>f, <4>2 DEF FlowStep
      <4>9. Data(file[w])' = Data(live)' /\ PreRestore(w)'
        BY <1>h, <4>1, <4>2, <4>4, <4>6 DEF Data
      <4>10. Keeps(w, Data(live))'
        BY <4>7, <4>8, <4>9 DEF Keeps
      <4> QED
        BY <4>10 DEF KeptNow
    <3> QED
      BY <3>1, <3>2
  <2> QED
    BY <1>t, <1>f, <1>g, <2>1, <2>2, <2>4, <2>6, <2>7 DEF KeepInv
<1>13. ASSUME NEW b \in Backups, CloseGate(b) PROVE KeepInv'
  <2>1. /\ phase = "idle" /\ phase' = "backup" /\ UNCHANGED <<file, making, replaced>>
        /\ \A m \in Makers : stage[m] \notin {"pack", "complete"}
    BY <1>13 DEF CloseGate, Served, GateOpen
  <2>2. Kept'
    BY <1>t, <1>f, <2>1, KeptUnchanged
  <2>3. \A m \in Makers : m = "restore" => stage'[m] = "idle"
    BY <1>t, <2>1 DEF GateInv
  <2> QED
    BY <1>t, <1>f, <2>1, <2>2, <2>3 DEF KeepInv, Alone, Apart, KeptNow, Packing
<1>14. CASE Extract
  <2>1. /\ phase = "extract" /\ phase' = "discard" /\ UNCHANGED <<file, making>>
        /\ replaced' = replaced \cup {Data(live)}
    BY <1>14 DEF Extract
  <2>2. Kept'
    <3> SUFFICES ASSUME NEW d \in replaced' PROVE \E w \in Backups : Keeps(w, d)'
      BY DEF Kept
    <3>1. PICK w \in Backups : Keeps(w, d)
      BY <1>f, <2>1 DEF Kept, KeptNow
    <3> QED
      BY <1>t, <1>f, <2>1, <3>1, KeepsNext
  <2> QED
    BY <1>t, <1>f, <1>g, <2>1, <2>2 DEF KeepInv, Alone, Apart, KeptNow
<1>15. ASSUME UNCHANGED <<file, making, replaced>>, phase' \notin {"backup", "extract"},
              phase' # "idle" => phase # "idle"
       PROVE  KeepInv'
  BY <1>15, <1>t, <1>f, <1>g, KeptUnchanged DEF KeepInv, Alone, Apart, KeptNow
<1>16. CASE ExtractFails
  BY <1>15, <1>16 DEF ExtractFails
<1>17. CASE Exchange
  <2>1. UNCHANGED <<file, making, replaced>> /\ phase \in Exchanging \cup Undoing
    BY <1>17
    DEF Exchange, Discard, Aside, Install, Validate, Cleanup, Raise, Erase, PutBack, UndoFails,
        Still, Exchanging, Undoing
  <2>2. phase' \in Exchanging \cup Undoing \cup {"reopen"}
    BY <1>17
    DEF Exchange, Discard, Aside, Install, Validate, Cleanup, Raise, Erase, PutBack, UndoFails,
        Advance, Exchanging, Undoing
  <2> QED
    BY <1>15, <2>1, <2>2 DEF Exchanging, Undoing
<1>18. CASE Reopen
  BY <1>15, <1>18 DEF Reopen, GateIsOpen
<1>19. CASE Restart
  <2>1. /\ UNCHANGED <<file, replaced>> /\ phase' = "idle"
        /\ \A m \in Makers : stage'[m] = "idle" /\ made'[m] = 0
    BY <1>19 DEF Restart, GateIsOpen
  <2> QED
    BY <1>t, <1>f, <1>g, <2>1, KeptUnchanged DEF KeepInv, Alone, Apart, KeptNow
<1> QED
  BY <1>3, <1>4, <1>5, <1>6, <1>7, <1>8, <1>9, <1>10, <1>11, <1>12, <1>13, <1>14, <1>16, <1>17,
     <1>18, <1>19
  DEF Next, Make

\* Whatever fails, whenever the process dies and whatever retention does, the
\* data a restore replaced are in an archive until somebody trashes that.
THEOREM ReplacedDataStay == Spec => []ReplacedDataIsKept
<1>1. KeepInv => ReplacedDataIsKept
  BY DEF KeepInv, Kept, Keeps, ReplacedDataIsKept
<1> QED
  BY KeepInit, KeepNext, <1>1, PTL DEF Spec
-----------------------------------------------------------------------------
(* Archives and served data are whole, and a restore is undone or done.     *)

\* The business data of whole items.
WholeData(d) ==
  /\ \A i \in Items : d[i] # None
  /\ d["database"] \subseteq d["attachments"]

\* While the gate is open a purge may be between its two steps, and files are
\* there before their rows.
Serving ==
  /\ \A i \in Items : Data(live)[i] # None
  /\ Data(live)["database"] \ purging \subseteq Data(live)["attachments"]
  /\ storing \subseteq Data(live)["attachments"]
  /\ storing \cap Data(live)["database"] = {}

\* The items the phase has dealt with.
Moved == {Order[j] : j \in 1..(item - 1)}

\* Where the data of before and of the archive are in each phase of the exchange.
Moving ==
  /\ phase \in {"backup", "extract", "discard"} => Data(live) = before
  /\ phase \in {"discard"} => \A i \in Moved : Data(previous)[i] = None
  /\ phase = "aside" =>
       \A i \in Items : IF i \in Moved THEN Data(previous)[i] = before[i]
                        ELSE Data(previous)[i] = None /\ Data(live)[i] = before[i]
  /\ phase \in {"install", "validate", "erase"} => Data(previous) = before
  /\ phase = "install" => \A i \in Moved : Data(live)[i] = Data(new)[i]
  /\ phase \in {"validate", "cleanup"} => Data(live) = Data(new)
  /\ phase = "putBack" =>
       \A i \in Items : IF i \in Moved THEN Data(live)[i] = before[i]
                        ELSE Data(previous)[i] = before[i]

\* The data of before and of the archive are whole, and in the end one of them
\* is served.
Restoring ==
  /\ phase # "idle" => WholeData(before) /\ before = [i \in Items |-> before[i]]
  /\ phase \in Exchanging \cup Undoing => WholeData(Data(new))
  /\ phase = "reopen" =>
       Data(live) \in {before, Data(new)} /\ WholeData(Data(live))

Archived ==
  /\ \A b \in Backups : Present(b) => WholeData(Data(file[b]))
  /\ \A m \in Makers : stage[m] = "pack" => WholeData(Data(snapshot[m]))

Sound ==
  /\ Archived /\ Moving /\ Restoring
  /\ phase = "idle" => Serving
  /\ phase # "idle" => storing = {}
  /\ phase \in {"idle", "backup", "extract", "validate"} => item = 1

\* All this as long as nothing has died or failed halfway.
WholeInv == TypeInv /\ (~exposed => Sound)

\* Items and their business data: what is missing, and what is whole.
LEMMA DataOf ==
  ASSUME NEW items, WellFormed(items)
  PROVE  /\ Whole(items) <=> WholeData(Data(items))
         /\ \A i \in Items : Data(items)[i] = None <=> items[i] = None
         /\ Data(items)["attachments"] = items["attachments"]
         /\ items["database"] # None => Data(items)["database"] = items["database"].commits
         /\ Data(items)["database"] \in (SUBSET Commits) \cup {None}
         /\ Data(items) = [i \in Items |-> Data(items)[i]]
<1>1. items["database"] # None => items["database"].commits \in SUBSET Commits
  BY Get DEF Databases
<1>2. \A s \in SUBSET Commits : s # None
  BY BackupAssumption
<1>3. \A i \in Items : Data(items)[i] = None <=> items[i] = None
  BY <1>1, <1>2 DEF Data, Datum
<1>4. Data(items)["attachments"] = items["attachments"]
  BY DEF Data, Datum, Items
<1>5. items["database"] # None => Data(items)["database"] = items["database"].commits
  BY DEF Data, Datum, Items
<1>6. items["database"] = None => Data(items)["database"] = None
  BY DEF Data, Datum, Items
<1>7. Whole(items) <=> WholeData(Data(items))
  BY <1>3, <1>4 DEF Whole, WholeData
<1> QED
  BY <1>1, <1>3, <1>4, <1>5, <1>6, <1>7 DEF Data

\* Exchanging one item exchanges its data.
LEMMA DataPut ==
  ASSUME NEW items, WellFormed(items), NEW i \in Items, NEW v
  PROVE  Data([items EXCEPT ![i] = v]) = [Data(items) EXCEPT ![i] = Datum(i, v)]
  BY DEF Data, WellFormed

LEMMA DatumIs ==
  /\ \A i \in Items : Datum(i, None) = None
  /\ \A items : \A i \in Items : Data(items)[i] = Datum(i, items[i])
  BY DEF Datum, Data

\* Nothing is made where nothing is missing.
LEMMA CreatedWhole ==
  ASSUME NEW items, WellFormed(items), \A i \in Items : Data(items)[i] # None
  PROVE  Created(items) = items
  BY DataOf DEF Created, WellFormed

\* The order of the items, and what Advance makes of it.
LEMMA Positions ==
  ASSUME item \in 1..3
  PROVE  /\ Item \in Items /\ Item \notin Moved /\ Moved \subseteq Items
         /\ item = 1 => Moved = {}
<1>1. Item \in Items /\ Item \notin Moved /\ Moved \subseteq Items
  <2>1. CASE item = 1
    BY <2>1 DEF Item, Moved, Order, Items
  <2>2. CASE item = 2
    BY <2>2 DEF Item, Moved, Order, Items
  <2>3. CASE item = 3
    BY <2>3 DEF Item, Moved, Order, Items
  <2> QED
    BY <2>1, <2>2, <2>3
<1> QED
  BY <1>1 DEF Moved

LEMMA Advanced ==
  ASSUME item \in 1..3, NEW next, Advance(next)
  PROVE  \/ phase' = phase /\ Moved' = Moved \cup {Item}
         \/ phase' = next /\ item' = 1 /\ Moved' = {} /\ Moved \cup {Item} = Items
<1>1. CASE item = 1
  BY <1>1 DEF Advance, Item, Moved, Order
<1>2. CASE item = 2
  <2>1. item' = 3 /\ phase' = phase
    BY <1>2 DEF Advance
  <2>2. 1..(item - 1) = {1} /\ 1..(item' - 1) = {1, 2}
    BY <1>2, <2>1
  <2> QED
    BY <1>2, <2>1, <2>2 DEF Item, Moved
<1>3. CASE item = 3
  <2>1. item' = 1 /\ phase' = next
    BY <1>3 DEF Advance
  <2>2. 1..(item - 1) = {1, 2} /\ 1..(item' - 1) = {}
    BY <1>3, <2>1
  <2> QED
    BY <1>3, <2>1, <2>2 DEF Item, Moved, Order, Items
<1> QED
  BY <1>1, <1>2, <1>3
LEMMA DataPrimed ==
  /\ Data(live)' = Data(live') /\ Data(previous)' = Data(previous')
  /\ Data(new)' = Data(new')
  /\ \A b \in Backups : Data(file[b])' = Data(file'[b])
  /\ \A m \in Makers : Data(snapshot[m])' = Data(snapshot'[m])
  BY DEF Data

\* While restore stays where it is, records may change.
LEMMA SoundKept ==
  ASSUME Sound, Archived', Data(live') = Data(live),
         UNCHANGED <<previous, storing, purging, phase, item, new, before>>
  PROVE  Sound'
<1>1. Data(previous') = Data(previous) /\ Data(new') = Data(new) /\ Moved' = Moved
  BY DEF Moved
<1>2. Moving'
  BY <1>1, DataPrimed DEF Sound, Moving
<1>3. Restoring'
  BY <1>1, DataPrimed DEF Sound, Restoring, WholeData
<1>4. phase' = "idle" => Serving'
  BY DataPrimed DEF Sound, Serving
<1> QED
  BY <1>2, <1>3, <1>4 DEF Sound

\* ... or archives go.
LEMMA ArchivedKept ==
  ASSUME TypeInv, Archived,
         \A b \in Backups : \/ file'[b] \in {Absent} \cup {file[a] : a \in Backups}
                            \/ \E m \in Makers : stage[m] = "pack" /\ file'[b] = snapshot[m],
         \A m \in Makers : stage'[m] = "pack" => stage[m] = "pack" /\ snapshot'[m] = snapshot[m]
  PROVE  Archived'
<1>1. ASSUME NEW b \in Backups, file'[b] # Absent PROVE WholeData(Data(file'[b]))
  BY <1>1 DEF Archived, Present
<1>2. ASSUME NEW m \in Makers, stage'[m] = "pack" PROVE WholeData(Data(snapshot'[m]))
  BY <1>2 DEF Archived
<1> QED
  BY <1>1, <1>2, DataPrimed DEF Archived, Present, WholeData

\* Where a maker may write records, the data are whole but for a purge.
LEMMA WritableIsWhole ==
  ASSUME TypeInv, Sound, NEW m \in Makers, stage[m] # "idle" \/ m # "restore" \/ phase = "backup", Admitted(m)
  PROVE  /\ WholeData(Data(live)) /\ purging = {} /\ live["database"] # None
<1>1. CASE m = "restore"
  <2>1. phase = "backup" /\ live["database"] # None
    BY <1>1 DEF TypeInv, GateInv, Admitted
  <2> QED
    BY <2>1 DEF TypeInv, GateInv, Sound, Moving, Restoring
<1>2. CASE m # "restore"
  <2>1. phase = "idle" /\ live["database"] # None /\ purging = {}
    BY <1>2 DEF Admitted, Writable, Served, GateOpen
  <2> QED
    BY <2>1 DEF Sound, Serving, WholeData
<1> QED
  BY <1>1, <1>2

LEMMA ServingIf ==
  ASSUME NEW D \in SUBSET Commits, NEW A \in SUBSET Commits,
         Data(live') = [Data(live) EXCEPT !["database"] = D, !["attachments"] = A],
         Serving, D \ purging' \subseteq A, storing' \subseteq A, storing' \cap D = {}
  PROVE  Serving'
<1>1. /\ Data(live')["database"] = D /\ Data(live')["attachments"] = A
      /\ Data(live')["archives"] = Data(live)["archives"]
  BY DEF Data, Items
<1>2. D # None /\ A # None
  BY BackupAssumption
<1> QED
  BY <1>1, <1>2, DataPrimed DEF Serving, Items

-----------------------------------------------------------------------------
(* One lemma for each part of the program.                                  *)

LEMMA WholeBusiness ==
  ASSUME TypeInv, Sound, ~exposed, NEW c \in Commits,
         Store(c) \/ Commit(c) \/ Abort(c) \/ PurgeFile(c) \/ PurgeRow
  PROVE  ~exposed' => Sound'
<1> DEFINE L == Data(live)
           D == L["database"]
           A == L["attachments"]
<1> USE DEF writing, making, restoring
<1>t. WellFormed(live) /\ A = live["attachments"] /\ purging \subseteq Commits
  BY DataOf DEF TypeInv, TypeOK
<1>a. Archived'
  <2>1. UNCHANGED <<file, stage, snapshot>>
    BY DEF Store, Commit, Abort, PurgeFile, PurgeRow
  <2> QED
    BY <2>1, ArchivedKept DEF Sound
<1>b. ASSUME phase = "idle", UNCHANGED <<phase, item>>, Serving' PROVE Sound'
  BY <1>a, <1>b DEF Sound, Moving, Restoring, Exchanging, Undoing
<1>c. ASSUME Serving
      PROVE  /\ D \in SUBSET Commits /\ A \in SUBSET Commits
             /\ live["database"] \in Databases /\ D = live["database"].commits
             /\ L = [L EXCEPT !["database"] = D, !["attachments"] = A]
             /\ Datum("database", live["database"]) = D
             /\ Created(live)["attachments"] = A
  <2>1. live["database"] # None /\ live["attachments"] # None
    BY <1>t, <1>c, DataOf DEF Serving, Items
  <2>2. D = live["database"].commits /\ live["database"] \in Databases /\ A \in SUBSET Commits
    BY <1>t, <2>1, DataOf, Get
  <2>3. L = [L EXCEPT !["database"] = D, !["attachments"] = A]
    BY DEF Data, Items
  <2>4. Created(live) = live
    BY <1>t, <1>c, CreatedWhole DEF Serving
  <2> QED
    BY <1>t, <2>1, <2>2, <2>3, <2>4 DEF Databases, Datum
<1>d. ASSUME Serving, NEW a \in SUBSET Commits, live' = [live EXCEPT !["attachments"] = a]
      PROVE  Data(live') = [L EXCEPT !["database"] = D, !["attachments"] = a]
  <2>1. Data(live') = [L EXCEPT !["attachments"] = Datum("attachments", a)]
    BY <1>t, <1>d, DataPut DEF Items
  <2>2. Datum("attachments", a) = a
    BY DEF Datum
  <2>3. [L EXCEPT !["attachments"] = a] = [L EXCEPT !["database"] = D, !["attachments"] = a]
    BY DEF Data, Items
  <2> QED
    BY ONLY <2>1, <2>2, <2>3
<1>e. ASSUME Serving, NEW d \in SUBSET Commits,
             live' = [live EXCEPT !["database"].commits = d]
      PROVE  Data(live') = [L EXCEPT !["database"] = d, !["attachments"] = A]
  <2> DEFINE e == [live["database"] EXCEPT !.commits = d]
  <2>1. live' = [live EXCEPT !["database"] = e] /\ e \in Databases /\ e.commits = d
    BY <1>c, <1>e DEF Databases
  <2>2. e # None
    BY <2>1, BackupAssumption
  <2>3. Datum("database", e) = d
    BY <2>1, <2>2 DEF Datum
  <2> HIDE DEF e
  <2>4. Data([live EXCEPT !["database"] = e]) = [L EXCEPT !["database"] = d]
    BY <1>t, <2>3, DataPut DEF Items
  <2> QED
    BY <1>c, <2>1, <2>4
<1>1. CASE Store(c)
  <2>1. phase = "idle" /\ Serving /\ UNCHANGED <<phase, item, purging>>
    BY <1>1 DEF Store, Served, GateOpen, Sound
  <2>2. /\ c \notin D /\ storing' = storing \cup {c}
        /\ live' = [live EXCEPT !["attachments"] = A \cup {c}]
    BY <1>1, <1>c, <2>1 DEF Store
  <2>3. Data(live') = [L EXCEPT !["database"] = D, !["attachments"] = A \cup {c}]
    BY <1>c, <1>d, <2>1, <2>2
  <2>4. /\ D \in SUBSET Commits /\ A \cup {c} \in SUBSET Commits
        /\ D \ purging' \subseteq A \cup {c} /\ storing' \subseteq A \cup {c}
        /\ storing' \cap D = {}
    BY <1>c, <2>1, <2>2 DEF Serving
  <2>5. Serving'
    BY <2>1, <2>3, <2>4, ServingIf
  <2> QED
    BY <1>b, <2>1, <2>5
<1>2. CASE Commit(c)
  <2>1. phase = "idle" /\ Serving /\ UNCHANGED <<phase, item, purging>> /\ purging = {}
    BY <1>2 DEF Commit, Writable, Served, GateOpen, Sound
  <2>2. /\ c \in storing /\ storing' = storing \ {c}
        /\ live' = [live EXCEPT !["database"].commits = D \cup {c}]
    BY <1>2, <1>c, <2>1 DEF Commit
  <2>3. Data(live') = [L EXCEPT !["database"] = D \cup {c}, !["attachments"] = A]
    BY <1>c, <1>e, <2>1, <2>2
  <2>4. /\ D \cup {c} \in SUBSET Commits /\ A \in SUBSET Commits
        /\ (D \cup {c}) \ purging' \subseteq A /\ storing' \subseteq A
        /\ storing' \cap (D \cup {c}) = {}
    BY <1>c, <2>1, <2>2 DEF Serving
  <2>5. Serving'
    BY <2>1, <2>3, <2>4, ServingIf
  <2> QED
    BY <1>b, <2>1, <2>5
<1>3. CASE Abort(c)
  <2>1. phase = "idle" /\ UNCHANGED <<live, phase, item, purging>> /\ storing' \subseteq storing
    BY <1>3 DEF Abort, Sound
  <2>2. Serving'
    BY <2>1, DataPrimed DEF Sound, Serving
  <2> QED
    BY <1>b, <2>1, <2>2
<1>4. CASE PurgeFile(c)
  <2>1. /\ phase = "idle" /\ Serving /\ UNCHANGED <<phase, item, storing>> /\ purging = {}
        /\ purging' = {c}
    BY <1>4 DEF PurgeFile, Writable, Served, GateOpen, Sound
  <2>2. c \in D
    BY <1>4, <1>c, <2>1 DEF PurgeFile
  <2>3. CASE UNCHANGED live
    <3>1. Serving'
      BY <2>1, <2>3, DataPrimed DEF Serving
    <3> QED
      BY <1>b, <2>1, <3>1
  <2>4. CASE live' = [live EXCEPT !["attachments"] = A \ {c}]
    <3>1. Data(live') = [L EXCEPT !["database"] = D, !["attachments"] = A \ {c}]
      BY <1>c, <1>d, <2>1, <2>4
    <3>2. /\ D \in SUBSET Commits /\ A \ {c} \in SUBSET Commits
          /\ D \ purging' \subseteq A \ {c} /\ storing' \subseteq A \ {c}
          /\ storing' \cap D = {}
      BY <1>c, <2>1, <2>2 DEF Serving
    <3>3. Serving'
      BY <2>1, <3>1, <3>2, ServingIf
    <3> QED
      BY <1>b, <2>1, <3>3
  <2>5. A # None
    BY <2>1 DEF Serving, Items
  <2> QED
    BY <1>4, <1>t, <2>3, <2>4, <2>5 DEF PurgeFile
<1>5. CASE PurgeRow
  <2>1. phase = "idle" /\ Serving /\ UNCHANGED <<phase, item, storing>> /\ purging' = {}
    BY <1>5 DEF PurgeRow, TypeInv, GateInv, Sound
  <2> SUFFICES ASSUME ~exposed' PROVE Sound'
    OBVIOUS
  <2>2. live' = [live EXCEPT !["database"].commits = D \ purging]
    BY <1>5, <1>c, <2>1 DEF PurgeRow
  <2>3. Data(live') = [L EXCEPT !["database"] = D \ purging, !["attachments"] = A]
    BY <1>c, <1>e, <2>1, <2>2
  <2>4. /\ D \ purging \in SUBSET Commits /\ A \in SUBSET Commits
        /\ (D \ purging) \ purging' \subseteq A /\ storing' \subseteq A
        /\ storing' \cap (D \ purging) = {}
    BY <1>c, <2>1 DEF Serving
  <2>5. Serving'
    BY <2>1, <2>3, <2>4, ServingIf
  <2> QED
    BY <1>b, <2>1, <2>5
<1> QED
  BY <1>1, <1>2, <1>3, <1>4, <1>5

\* Records of archives are kept, archives made and removed.
LEMMA WholeRecords ==
  ASSUME TypeInv, Sound, ~exposed,
         \/ \E b \in Backups : Trash(b) \/ Untrash(b) \/ Import(b)
         \/ \E m \in Makers : Make(m)
  PROVE  ~exposed' => Sound'
<1> USE DEF writing, making, restoring
<1>t. WellFormed(live) /\ TypeOK /\ MaxBackups \in Nat
      /\ Makers \subseteq {"request", "cycle", "restore"}
  BY BackupAssumption DEF TypeInv, TypeOK
<1>k. ASSUME live["database"] # None, NEW b \in Backups, NEW r \in Records, SetRecord(b, r)
      PROVE  Data(live') = Data(live)
  BY <1>t, <1>k, Record_Written
<1>f. ASSUME UNCHANGED <<file, stage, snapshot>> PROVE Archived'
  BY <1>f, ArchivedKept DEF Sound
<1>m. \A m \in Makers : stage[m] # "idle" => made[m] \in Backups
  BY <1>t DEF TypeOK, Backups
<1>1. ASSUME NEW b \in Backups, Trash(b) \/ Untrash(b) PROVE Sound'
  <2>1. Recorded(b) /\ live["database"] # None /\ Record(b) \in Records
    BY <1>1, <1>t, RecordType DEF Trash, Untrash, Usable, Recorded
  <2>2. \A f \in BOOLEAN : [Record(b) EXCEPT !.deleted = f] \in Records
    BY <2>1 DEF Records
  <2>3. Data(live') = Data(live)
    BY <1>1, <1>k, <2>1, <2>2 DEF Trash, Untrash
  <2> QED
    BY <1>1, <1>f, <2>3, SoundKept DEF Trash, Untrash
<1>2. ASSUME NEW b \in Backups, Import(b) PROVE Sound'
  <2>1. issued + 1 \in Backups
    BY <1>2, <1>t DEF Import, TypeOK, Backups
  <2>2. Data(live') = Data(live)
    BY <1>2, <1>k, <2>1 DEF Import, Writable, Served, Records
  <2>3. \A a \in Backups : file'[a] \in {file[e] : e \in Backups}
    BY <1>2, <1>t, <2>1 DEF Import, TypeOK
  <2>4. Archived'
    BY <1>2, <2>3, ArchivedKept DEF Import, Sound
  <2> QED
    BY <1>2, <2>2, <2>4, SoundKept DEF Import
<1>3. ASSUME NEW m \in Makers, Begin(m) PROVE Sound'
  <2>1. issued + 1 \in Backups
    BY <1>3, <1>t DEF Begin, TypeOK, Backups
  <2>2. [kind |-> Kind(m), completed |-> FALSE, deleted |-> FALSE] \in Records
    BY <1>t DEF Kind, Records
  <2>3. Data(live') = Data(live)
    BY <1>3, <1>k, <2>1, <2>2 DEF Begin, Admitted, Writable, Served
  <2>4. \A n \in Makers : stage'[n] = "pack" => stage[n] = "pack" /\ snapshot'[n] = snapshot[n]
    BY <1>3, <1>t DEF Begin, TypeOK
  <2>5. Archived'
    BY <1>3, <2>4, ArchivedKept DEF Begin, Sound
  <2> QED
    BY <1>3, <2>3, <2>5, SoundKept DEF Begin
<1>4. ASSUME NEW m \in Makers, Snapshot(m) PROVE Sound'
  <2>1. WholeData(Data(live))
    BY <1>4, WritableIsWhole DEF Snapshot
  <2>2. Created(live) = live
    BY <1>t, <2>1, CreatedWhole DEF WholeData
  <2>3. Archived'
    <3>1. /\ UNCHANGED file
          /\ \A n \in Makers : stage'[n] = "pack" => \/ stage[n] = "pack" /\ snapshot'[n] = snapshot[n]
                                                    \/ snapshot'[n] = live
      BY <1>4, <1>t, <2>2 DEF Snapshot, TypeOK
    <3> QED
      BY <2>1, <3>1, DataPrimed DEF Sound, Archived, Present, WholeData
  <2>4. Data(live') = Data(live)
    BY <1>4, <2>2 DEF Snapshot
  <2> QED
    BY <1>4, <2>3, <2>4, SoundKept DEF Snapshot
<1>5. ASSUME NEW m \in Makers, Pack(m) PROVE Sound'
  <2>1. /\ \A b \in Backups : file'[b] \in {file[b], snapshot[m]}
        /\ \A n \in Makers : stage'[n] = "pack" => stage[n] = "pack" /\ snapshot'[n] = snapshot[n]
    BY <1>5, <1>t, <1>m DEF Pack, TypeOK
  <2>2. Archived'
    BY <1>5, <2>1, ArchivedKept DEF Pack, Sound
  <2> QED
    BY <1>5, <2>2, SoundKept DEF Pack
<1>6. ASSUME NEW m \in Makers, Complete(m) PROVE Sound'
  <2>1. made[m] \in Backups /\ Recorded(made[m])
    BY <1>6, <1>m DEF Complete
  <2>2. Record(made[m]) \in Records /\ live["database"] # None
    BY <1>t, <2>1, RecordType DEF Recorded
  <2>3. [Record(made[m]) EXCEPT !.completed = TRUE] \in Records
    BY <2>2 DEF Records
  <2>4. Data(live') = Data(live)
    BY <1>6, <1>k, <2>1, <2>2, <2>3 DEF Complete, SetCompleted
  <2>5. \A n \in Makers : stage'[n] = "pack" => stage[n] = "pack" /\ snapshot'[n] = snapshot[n]
    BY <1>6, <1>t DEF Complete, TypeOK
  <2>6. Archived'
    BY <1>6, <2>5, ArchivedKept DEF Complete, Sound
  <2> QED
    BY <1>6, <2>4, <2>6, SoundKept DEF Complete
<1>7. ASSUME NEW m \in Makers, NEW point \in {"reopen", "extract"}, stage[m] # "idle",
             Finish(m, point), Archived', Data(live') = Data(live),
             UNCHANGED <<previous, storing, purging>>
      PROVE  Sound'
  <2>1. CASE m # "restore"
    BY <1>7, <2>1, SoundKept DEF Finish
  <2>2. CASE m = "restore"
    <3>1. phase = "backup" /\ phase' = point /\ UNCHANGED <<item, new, before>>
      BY <1>7, <2>2 DEF Finish, TypeInv, GateInv
    <3>2. /\ Data(live) = before /\ WholeData(before) /\ storing' = {} /\ item' = 1
          /\ before = [i \in Items |-> before[i]]
      BY <1>7, <3>1 DEF Sound, Moving, Restoring
    <3>3. Moving'
      BY <1>7, <3>1, <3>2, DataPrimed DEF Moving
    <3>4. Restoring'
      BY <1>7, <3>1, <3>2, DataPrimed DEF Restoring, Exchanging, Undoing, WholeData
    <3> QED
      BY <1>7, <3>1, <3>2, <3>3, <3>4 DEF Sound
  <2> QED
    BY <2>1, <2>2
<1>8. ASSUME NEW m \in Makers, Finish(m, "reopen") \/ Finish(m, "extract"),
             \/ UNCHANGED file
             \/ \E gone : RemoveFiles(gone)
      PROVE  Archived'
  <2>1. /\ \A b \in Backups : file'[b] \in {Absent, file[b]}
        /\ \A n \in Makers : stage'[n] = "pack" => stage[n] = "pack" /\ snapshot'[n] = snapshot[n]
    BY <1>8, <1>t DEF Finish, RemoveFiles, TypeOK
  <2> QED
    BY <2>1, ArchivedKept DEF Sound
<1>9. ASSUME NEW m \in Makers, Fail(m) PROVE Sound'
  <2>1. made[m] \in Backups /\ stage[m] # "idle" /\ Finish(m, "reopen")
    BY <1>9, <1>m DEF Fail
  <2>2. Data(live') = Data(live)
    <3>1. CASE UNCHANGED live
      BY <3>1
    <3>2. CASE Recorded(made[m]) /\ \E struck : Failed(m, struck)
      BY <1>t, <2>1, <3>2, Failed_Written
    <3> QED
      BY <1>9, <3>1, <3>2 DEF Fail
  <2>3. Archived'
    BY <1>8, <1>9, <2>1 DEF Fail
  <2> QED
    BY <1>7, <1>9, <2>1, <2>2, <2>3 DEF Fail
<1>10. ASSUME NEW m \in Makers, Retain(m) PROVE Sound'
  <2>1. live["database"] # None /\ Finish(m, "extract") /\ stage[m] # "idle"
    BY <1>10 DEF Retain, Admitted, Writable, Served
  <2>2. \A b \in Backups : Record(b) \in Records \cup {None}
    BY <1>t, <2>1, Get DEF Record, Databases
  <2>3. PICK gone \in SUBSET Removable :
          /\ RemoveFiles(gone)
          /\ SetRecords([b \in Backups |-> IF b \in gone THEN None ELSE Record(b)])
    BY <1>10 DEF Retain
  <2>4. Data(live') = Data(live)
    BY <1>t, <2>1, <2>2, <2>3, Records_Written
  <2>5. Archived'
    BY <1>8, <2>1, <2>3
  <2> QED
    BY <1>7, <1>10, <2>1, <2>4, <2>5 DEF Retain
<1> QED
  BY <1>1, <1>2, <1>3, <1>4, <1>5, <1>6, <1>9, <1>10 DEF Make

\* The gate is closed and opened, and the archive unpacked.
LEMMA WholeGate ==
  ASSUME TypeInv, Sound, ~exposed,
         \/ \E b \in Backups : CloseGate(b)
         \/ Extract \/ ExtractFails \/ Reopen \/ Restart
  PROVE  ~exposed' => Sound'
<1> USE DEF writing, making, restoring
<1>t. WellFormed(live) /\ WellFormed(new) /\ TypeOK /\ \A b \in Backups : WellFormed(file[b])
  BY DEF TypeInv, TypeOK
<1>f. ASSUME UNCHANGED <<file, stage, snapshot>> PROVE Archived'
  BY <1>f, ArchivedKept DEF Sound
<1>l. Data(live) = [i \in Items |-> Data(live)[i]]
  BY <1>t, DataOf
<1>1. ASSUME NEW b \in Backups, CloseGate(b) PROVE Sound'
  <2>1. /\ phase = "idle" /\ phase' = "backup" /\ purging = {} /\ storing' = {}
        /\ UNCHANGED <<live, previous, item, new>> /\ before' = Data(live)
        /\ UNCHANGED <<file, stage, snapshot>>
    BY <1>1 DEF CloseGate, Served, GateOpen
  <2>2. WholeData(Data(live)) /\ item' = 1
    BY <2>1 DEF Sound, Serving, WholeData
  <2>3. Moving'
    BY <2>1, DataPrimed DEF Moving
  <2>4. Restoring'
    BY <1>l, <2>1, <2>2 DEF Restoring, Exchanging, Undoing, WholeData
  <2> QED
    BY <1>f, <2>1, <2>2, <2>3, <2>4 DEF Sound
<1>2. CASE Extract
  <2>1. /\ phase = "extract" /\ phase' = "discard" /\ new' = file[source]
        /\ UNCHANGED <<live, previous, item, before, storing>>
        /\ UNCHANGED <<file, stage, snapshot>> /\ source \in Backups /\ Present(source)
    BY <1>2, <1>t DEF Extract, TypeOK
  <2>2. WholeData(Data(new')) /\ item = 1 /\ Moved' = {}
    BY <2>1 DEF Sound, Archived, Moved
  <2>3. Moving'
    BY <2>1, <2>2, DataPrimed DEF Sound, Moving
  <2>4. Restoring'
    BY <2>1, <2>2, DataPrimed DEF Sound, Restoring, WholeData
  <2> QED
    BY <1>f, <2>1, <2>2, <2>3, <2>4 DEF Sound
<1>3. CASE ExtractFails
  <2>1. /\ phase = "extract" /\ phase' = "reopen"
        /\ UNCHANGED <<live, previous, item, new, before, storing>>
        /\ UNCHANGED <<file, stage, snapshot>>
    BY <1>3 DEF ExtractFails
  <2>2. Moving'
    BY <2>1, DataPrimed DEF Sound, Moving
  <2>3. Restoring'
    BY <2>1, DataPrimed DEF Sound, Moving, Restoring, Exchanging, Undoing, WholeData
  <2> QED
    BY <1>f, <2>1, <2>2, <2>3 DEF Sound
<1>4. ASSUME WholeData(Data(live)), UNCHANGED live, purging' = {}, storing' = {}, GateIsOpen, Archived'
      PROVE  Sound'
  <2>1. Serving'
    BY <1>4, DataPrimed DEF Serving, WholeData
  <2> QED
    BY <1>4, <2>1 DEF Sound, GateIsOpen, Moving, Restoring, Exchanging, Undoing
<1>5. CASE Reopen
  <2>1. phase = "reopen" /\ UNCHANGED <<live, purging, storing, file, stage, snapshot>>
    BY <1>5 DEF Reopen
  <2>2. WholeData(Data(live)) /\ purging = {} /\ storing = {}
    BY <2>1 DEF Sound, Restoring, TypeInv, GateInv
  <2> QED
    BY <1>4, <1>5, <1>f, <2>1, <2>2 DEF Reopen
<1>6. CASE Restart
  <2> SUFFICES ASSUME ~exposed' PROVE Sound'
    OBVIOUS
  <2>1. purging = {} /\ phase \in {"idle", "backup", "extract", "reopen"}
    BY <1>6, <1>t DEF Restart, TypeOK
  <2>2. WholeData(Data(live))
    BY <2>1 DEF Sound, Serving, Moving, Restoring, WholeData
  <2>3. UNCHANGED live
    BY <1>6, <1>t, <2>2, CreatedWhole DEF Restart, WholeData
  <2>4. Archived'
    <3>1. UNCHANGED file /\ \A m \in Makers : stage'[m] = "idle"
      BY <1>6 DEF Restart
    <3> QED
      BY <3>1, ArchivedKept DEF Sound
  <2> QED
    BY <1>4, <1>6, <2>2, <2>3, <2>4 DEF Restart
<1> QED
  BY <1>1, <1>2, <1>3, <1>5, <1>6

\* The items move.
LEMMA WholeExchange ==
  ASSUME TypeInv, Sound, ~exposed, Exchange
  PROVE  ~exposed' => Sound'
<1> SUFFICES ASSUME ~exposed' PROVE Sound'
  OBVIOUS
<1> DEFINE L == Data(live)
           P == Data(previous)
           N == Data(new)
<1> USE DEF writing, making, restoring, Exchanging, Undoing
<1>t. /\ WellFormed(live) /\ WellFormed(previous) /\ item \in 1..3
      /\ L = [i \in Items |-> L[i]] /\ P = [i \in Items |-> P[i]] /\ N = [i \in Items |-> N[i]]
  BY DataOf DEF TypeInv, TypeOK
<1>p. phase \in Exchanging \cup Undoing
  BY DEF Exchange, Discard, Aside, Install, Validate, Cleanup, Raise, Erase, PutBack, UndoFails
<1>s. /\ UNCHANGED <<file, stage, snapshot, storing, new, before>> /\ storing = {}
      /\ phase' # "idle" /\ phase' \notin {"backup", "extract"}
      /\ WholeData(before) /\ before = [i \in Items |-> before[i]] /\ WholeData(N)
  <2>1. UNCHANGED <<file, stage, snapshot, storing, new, before>>
    BY DEF Exchange, Discard, Aside, Install, Validate, Cleanup, Raise, Erase, PutBack, UndoFails,
           Still
  <2>2. phase' # "idle" /\ phase' \notin {"backup", "extract"}
    BY <1>p DEF Exchange, Discard, Aside, Install, Validate, Cleanup, Raise, Erase, PutBack,
                UndoFails, Advance
  <2> QED
    BY <1>p, <2>1, <2>2 DEF Sound, Restoring
<1>i. Item \in Items /\ Item \notin Moved /\ Moved \subseteq Items
  BY <1>t, Positions
<1>a. Archived'
  BY <1>s, ArchivedKept DEF Sound
<1>r. ASSUME Moving', phase' = "validate" => item' = 1,
             phase' = "reopen" => Data(live') \in {before, N}
      PROVE  Sound'
  <2>1. Restoring'
    BY <1>r, <1>s, DataPrimed DEF Restoring, WholeData
  <2> QED
    BY <1>a, <1>r, <1>s, <2>1 DEF Sound
<1>n. ASSUME NEW items, WellFormed(items), NEW v
      PROVE  Data([items EXCEPT ![Item] = v])
               = [i \in Items |-> IF i = Item THEN Datum(Item, v) ELSE Data(items)[i]]
  BY <1>i, <1>n DEF WellFormed, Data
<1>d. /\ Datum(Item, None) = None /\ Datum(Item, live[Item]) = L[Item]
      /\ Datum(Item, previous[Item]) = P[Item] /\ Datum(Item, new[Item]) = N[Item]
  BY <1>i, DatumIs
<1>m. Moving
  BY DEF Sound
<1>1. CASE Discard
  <2>1. /\ phase = "discard" /\ Advance("aside") /\ UNCHANGED live
        /\ Data(previous') = [i \in Items |-> IF i = Item THEN None ELSE P[i]]
    <3>1. Data([previous EXCEPT ![Item] = None])
            = [i \in Items |-> IF i = Item THEN Datum(Item, None) ELSE P[i]]
      BY <1>n, <1>t
    <3> QED
      BY <1>1, <1>d, <3>1 DEF Discard
  <2>2. L = before /\ \A i \in Moved \cup {Item} : Data(previous')[i] = None
    BY <1>i, <1>m, <2>1 DEF Moving
  <2>3. CASE phase' = phase /\ Moved' = Moved \cup {Item}
    <3>1. Moving'
      BY <1>s, <2>1, <2>2, <2>3, DataPrimed DEF Moving
    <3> QED
      BY <1>r, <2>1, <2>3, <3>1
  <2>4. CASE phase' = "aside" /\ item' = 1 /\ Moved' = {} /\ Moved \cup {Item} = Items
    <3>1. Moving'
      BY <1>s, <2>1, <2>2, <2>4, DataPrimed DEF Moving
    <3> QED
      BY <1>r, <2>4, <3>1
  <2> QED
    BY <1>t, <2>1, <2>3, <2>4, Advanced
<1>2. CASE Aside
  <2>1. /\ phase = "aside" /\ Advance("install")
        /\ L[Item] = before[Item] /\ before[Item] # None /\ live[Item] # None
    BY <1>2, <1>i, <1>m, <1>s, <1>t, DataOf DEF Aside, Moving, WholeData
  <2>2. /\ Data(live') = [i \in Items |-> IF i = Item THEN None ELSE L[i]]
        /\ Data(previous') = [i \in Items |-> IF i = Item THEN L[Item] ELSE P[i]]
    <3>1. /\ live' = [live EXCEPT ![Item] = None]
          /\ previous' = [previous EXCEPT ![Item] = live[Item]]
      BY <1>2, <2>1 DEF Aside
    <3>2. Data([live EXCEPT ![Item] = None])
            = [i \in Items |-> IF i = Item THEN Datum(Item, None) ELSE L[i]]
      BY <1>n, <1>t
    <3>3. Data([previous EXCEPT ![Item] = live[Item]])
            = [i \in Items |-> IF i = Item THEN Datum(Item, live[Item]) ELSE P[i]]
      BY <1>n, <1>t
    <3> QED
      BY <1>d, <3>1, <3>2, <3>3
  <2>3. CASE phase' = phase /\ Moved' = Moved \cup {Item}
    <3>1. Moving'
      BY <1>i, <1>m, <1>s, <2>1, <2>2, <2>3, DataPrimed DEF Moving
    <3> QED
      BY <1>r, <2>1, <2>3, <3>1
  <2>4. CASE phase' = "install" /\ item' = 1 /\ Moved' = {} /\ Moved \cup {Item} = Items
    <3>1. \A i \in Items : Data(previous')[i] = before[i]
      BY <1>i, <1>m, <2>1, <2>2, <2>4 DEF Moving
    <3>2. Data(previous') = before
      BY <1>s, <2>2, <3>1
    <3>3. Moving'
      BY <1>s, <2>4, <3>2, DataPrimed DEF Moving
    <3> QED
      BY <1>r, <2>4, <3>3
  <2> QED
    BY <1>t, <2>1, <2>3, <2>4, Advanced
<1>3. CASE Install
  <2>1. /\ phase = "install" /\ Advance("validate") /\ UNCHANGED previous /\ P = before
        /\ Data(live') = [i \in Items |-> IF i = Item THEN N[Item] ELSE L[i]]
    <3>1. Data([live EXCEPT ![Item] = new[Item]])
            = [i \in Items |-> IF i = Item THEN Datum(Item, new[Item]) ELSE L[i]]
      BY <1>n, <1>t
    <3>2. phase = "install" /\ Advance("validate") /\ UNCHANGED previous /\ P = before
      BY <1>3, <1>m DEF Install, Moving
    <3> QED
      BY <1>3, <1>d, <3>1, <3>2 DEF Install
  <2>2. \A i \in Moved \cup {Item} : Data(live')[i] = N[i]
    BY <1>i, <1>m, <2>1 DEF Moving
  <2>3. CASE phase' = phase /\ Moved' = Moved \cup {Item}
    <3>1. Moving'
      BY <1>s, <2>1, <2>2, <2>3, DataPrimed DEF Moving
    <3> QED
      BY <1>r, <2>1, <2>3, <3>1
  <2>4. CASE phase' = "validate" /\ item' = 1 /\ Moved' = {} /\ Moved \cup {Item} = Items
    <3>1. Data(live') = N
      BY <1>t, <2>1, <2>2, <2>4
    <3>2. Moving'
      BY <1>s, <2>1, <2>4, <3>1, DataPrimed DEF Moving
    <3> QED
      BY <1>r, <2>4, <3>2
  <2> QED
    BY <1>t, <2>1, <2>3, <2>4, Advanced
<1>4. CASE Validate
  <2>1. phase = "validate" /\ phase' = "cleanup" /\ UNCHANGED <<live, previous, item>> /\ L = N
    BY <1>4, <1>m DEF Validate, Moving
  <2>2. Moving'
    BY <1>s, <2>1, DataPrimed DEF Moving
  <2> QED
    BY <1>r, <2>1, <2>2
<1>5. CASE Cleanup
  <2>1. /\ phase = "cleanup" /\ phase' \in {"cleanup", "reopen"} /\ UNCHANGED live /\ L = N
    BY <1>5, <1>m DEF Cleanup, Moving, Advance
  <2>2. Moving'
    BY <1>s, <2>1, DataPrimed DEF Moving
  <2> QED
    BY <1>r, <2>1, <2>2
<1>6. CASE Raise
  <2>1. phase \in {"install", "validate"} /\ phase' = "erase" /\ UNCHANGED <<live, previous>>
    BY <1>6 DEF Raise
  <2>2. P = before
    BY <1>m, <2>1 DEF Moving
  <2>3. Moving'
    BY <1>s, <2>1, <2>2, DataPrimed DEF Moving
  <2> QED
    BY <1>r, <2>1, <2>3
<1>7. CASE Erase
  <2>1. phase = "erase" /\ Advance("putBack") /\ UNCHANGED previous /\ P = before
    BY <1>7, <1>m DEF Erase, Moving
  <2>2. CASE phase' = phase
    <3>1. Moving'
      BY <1>s, <2>1, <2>2, DataPrimed DEF Moving
    <3> QED
      BY <1>r, <2>1, <2>2, <3>1
  <2>3. CASE phase' = "putBack" /\ Moved' = {}
    <3>1. Moving'
      BY <1>s, <2>1, <2>3, DataPrimed DEF Moving
    <3> QED
      BY <1>r, <2>3, <3>1
  <2> QED
    BY <1>t, <2>1, <2>2, <2>3, Advanced
<1>8. CASE PutBack
  <2>1. /\ phase = "putBack" /\ Advance("reopen") /\ P[Item] = before[Item]
        /\ before[Item] # None /\ previous[Item] # None
    BY <1>8, <1>i, <1>m, <1>s, <1>t, DataOf DEF PutBack, Moving, WholeData
  <2>2. /\ Data(live') = [i \in Items |-> IF i = Item THEN before[Item] ELSE L[i]]
        /\ Data(previous') = [i \in Items |-> IF i = Item THEN None ELSE P[i]]
    <3>1. /\ live' = [live EXCEPT ![Item] = previous[Item]]
          /\ previous' = [previous EXCEPT ![Item] = None]
      BY <1>8, <2>1 DEF PutBack
    <3>2. Data([live EXCEPT ![Item] = previous[Item]])
            = [i \in Items |-> IF i = Item THEN Datum(Item, previous[Item]) ELSE L[i]]
      BY <1>n, <1>t
    <3>3. Data([previous EXCEPT ![Item] = None])
            = [i \in Items |-> IF i = Item THEN Datum(Item, None) ELSE P[i]]
      BY <1>n, <1>t
    <3> QED
      BY <1>d, <2>1, <3>1, <3>2, <3>3
  <2>3. CASE phase' = phase /\ Moved' = Moved \cup {Item}
    <3>1. Moving'
      BY <1>i, <1>m, <1>s, <2>1, <2>2, <2>3, DataPrimed DEF Moving
    <3> QED
      BY <1>r, <2>1, <2>3, <3>1
  <2>4. CASE phase' = "reopen" /\ Moved \cup {Item} = Items
    <3>1. \A i \in Items : Data(live')[i] = before[i]
      BY <1>i, <1>m, <2>1, <2>2, <2>4 DEF Moving
    <3>2. Data(live') = before
      BY <1>s, <2>2, <3>1
    <3>3. Moving'
      BY <2>4 DEF Moving
    <3> QED
      BY <1>r, <2>4, <3>2, <3>3
  <2> QED
    BY <1>t, <2>1, <2>3, <2>4, Advanced
<1>9. ~UndoFails
  BY DEF UndoFails
<1> QED
  BY <1>1, <1>2, <1>3, <1>4, <1>5, <1>6, <1>7, <1>8, <1>9 DEF Exchange

LEMMA WholeInit == Init => WholeInv
<1> SUFFICES ASSUME Init PROVE WholeInv
  OBVIOUS
<1>1. /\ live["database"] = NewDatabase /\ live["attachments"] = {} /\ live["archives"] = {}
      /\ WellFormed(live)
  BY TypeInit DEF Init, Created, Absent, Items, TypeInv, TypeOK
<1>2. /\ NewDatabase # None /\ {} # None
      /\ NewDatabase.commits = {}
  BY NewDatabaseType, BackupAssumption DEF NewDatabase
<1>3. Data(live)["database"] = {} /\ \A i \in Items : Data(live)[i] # None
  BY <1>1, <1>2, DataOf DEF Items
<1>4. Serving
  BY <1>3 DEF Init, Serving
<1>5. Archived
  BY DEF Init, Archived, Present
<1> QED
  BY <1>4, <1>5, TypeInit DEF Init, WholeInv, Sound, Moving, Restoring, Exchanging, Undoing

LEMMA WholeNext == WholeInv /\ [Next]_vars => WholeInv'
<1> SUFFICES ASSUME WholeInv, [Next]_vars, ~exposed' PROVE Sound'
  BY TypeNext DEF WholeInv
<1>0. ~exposed /\ TypeInv
  <2>1. exposed => exposed' \/ UNCHANGED vars
    BY DEF Next, Make, Exchange, Still, vars, Store, Commit, Abort, PurgeFile, PurgeRow, Trash,
           Untrash, Import, CloseGate, Begin, Snapshot, Pack, Fail, Complete, Retain, Extract,
           ExtractFails, Discard, Aside, Install, Validate, Cleanup, Raise, Erase, PutBack,
           UndoFails, Reopen, Restart
  <2> QED
    BY <2>1 DEF WholeInv, vars
<1>1. Sound
  BY <1>0 DEF WholeInv
<1>2. CASE UNCHANGED vars
  <2>1. Data(live') = Data(live)
    BY <1>2 DEF vars
  <2>2. Archived'
    BY <1>0, <1>1, <1>2, ArchivedKept DEF vars, making, Sound
  <2> QED
    BY <1>1, <1>2, <2>1, <2>2, SoundKept DEF vars, writing, restoring
<1>3. CASE \E c \in Commits : Store(c) \/ Commit(c) \/ Abort(c) \/ PurgeFile(c)
  BY <1>0, <1>1, <1>3, WholeBusiness
<1>4. CASE PurgeRow
  <2>1. \E c : c \in Commits
    BY <1>0, <1>4 DEF PurgeRow, TypeInv, TypeOK
  <2> QED
    BY <1>0, <1>1, <1>4, <2>1, WholeBusiness
<1>5. CASE \/ \E b \in Backups : Trash(b) \/ Untrash(b) \/ Import(b)
           \/ \E m \in Makers : Make(m)
  BY <1>0, <1>1, <1>5, WholeRecords
<1>6. CASE \/ \E b \in Backups : CloseGate(b)
           \/ Extract \/ ExtractFails \/ Reopen \/ Restart
  BY <1>0, <1>1, <1>6, WholeGate
<1>7. CASE Exchange
  BY <1>0, <1>1, <1>7, WholeExchange
<1> QED
  BY <1>2, <1>3, <1>4, <1>5, <1>6, <1>7 DEF Next

\* What the invariant says of the items themselves.
LEMMA WholeMeans ==
  WholeInv => ArchivesAreWhole /\ ServedDataIsWhole /\ UndoneOrDone
<1> SUFFICES ASSUME WholeInv, ~exposed
             PROVE  /\ \A b \in Backups : Present(b) => Whole(file[b])
                    /\ GateOpen /\ purging = {} => Whole(live)
                    /\ RestoreIsAllOrNothing
  BY DEF ArchivesAreWhole, ServedDataIsWhole, UndoneOrDone
<1>1. Sound /\ WellFormed(live) /\ \A b \in Backups : WellFormed(file[b])
  BY DEF WholeInv, TypeInv, TypeOK
<1>2. GateOpen /\ purging = {} => WholeData(Data(live))
  BY <1>1 DEF GateOpen, Sound, Serving, WholeData
<1> QED
  BY <1>1, <1>2, DataOf DEF Sound, Archived, Restoring, RestoreIsAllOrNothing

\* No archive lacks a file its database refers to, whatever uploads, purges,
\* retention and restores met while it was packed, unless a purge or an exchange
\* died halfway before.
THEOREM ArchivesStayWhole == Spec => []ArchivesAreWhole
  BY WholeInit, WholeNext, WholeMeans, PTL DEF Spec

\* Requests never see rows whose files belong to another state: while the gate
\* is open and no purge is halfway, the database and both trees fit together.
THEOREM ServedDataStayWhole == Spec => []ServedDataIsWhole
  BY WholeInit, WholeNext, WholeMeans, PTL DEF Spec

\* A restore leaves the data it found or those of its archive, wherever it fails
\* short of the named exposures.
THEOREM RestoreUndoneOrDone == Spec => []UndoneOrDone
  BY WholeInit, WholeNext, WholeMeans, PTL DEF Spec

\* From the first move to the last, each part of what a restore replaces is at its
\* place or at its restore-previous name.
OldIsAtHand ==
  ~exposed /\ phase \in (Exchanging \ {"cleanup"}) \cup Undoing =>
    \A i \in Items : before[i] \in {Data(live)[i], Data(previous)[i]}

\* Until the new parts are validated nothing of the old ones is gone, so whichever
\* move, copy or removal fails, all of them can be put back (restore_backup).
THEOREM OldStaysAtHand == Spec => []OldIsAtHand
<1>1. ASSUME WholeInv, ~exposed, phase \in (Exchanging \ {"cleanup"}) \cup Undoing,
             NEW i \in Items
      PROVE  before[i] \in {Data(live)[i], Data(previous)[i]}
  <2>1. Moving
    BY <1>1 DEF WholeInv, Sound
  <2>2. CASE phase = "discard"
    BY <2>1, <2>2 DEF Moving
  <2>3. CASE phase = "aside"
    BY <2>1, <2>3 DEF Moving
  <2>4. CASE phase \in {"install", "validate", "erase"}
    BY <2>1, <2>4 DEF Moving
  <2>5. CASE phase = "putBack"
    BY <2>1, <2>5 DEF Moving
  <2> QED
    BY <1>1, <2>2, <2>3, <2>4, <2>5 DEF Exchanging, Undoing
<1>2. WholeInv => OldIsAtHand
  BY <1>1 DEF OldIsAtHand
<1> QED
  BY WholeInit, WholeNext, <1>2, PTL DEF Spec

=============================================================================
