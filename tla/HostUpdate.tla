----------------------------- MODULE HostUpdate -----------------------------
(***************************************************************************)
(* The update of the host's program (update_executor.py): administrators    *)
(* queue runs, the supervisor starts an executor for a queued run, and the  *)
(* executor takes a lock file, makes a snapshot, installs, tries the new    *)
(* program and, when that fails, puts program and data back.  Executors die *)
(* at any step, calls to the operating system fail, the power goes.         *)
(*                                                                          *)
(* Three platforms differ in where the installer to go back to comes from:  *)
(* a Debian package is rebuilt from what is installed, an RPM is kept in a  *)
(* cache, and so is a Windows installer, whose copy for the rollback lies   *)
(* outside the transaction's directory.  The run's row is in the database   *)
(* that a rollback puts back.                                               *)
(***************************************************************************)
EXTENDS Integers, FiniteSets

CONSTANTS
  Executors,  \* slots for executor processes
  Platforms,  \* which of "deb", "rpm", "windows" the host may be
  MaxRuns,    \* bound on update runs; run r installs version r + 1
  MaxItems,   \* bound on the users' writes
  MaxTroubles,\* bound on failing calls, crashes and power cuts together
  None        \* no file, no directory, no lock

ASSUME BoundsAssumption ==
  /\ MaxRuns \in Nat /\ MaxItems \in Nat /\ MaxTroubles \in Nat
  /\ Platforms \subseteq {"deb", "rpm", "windows"}

Run == 1..MaxRuns
Version == 1..MaxRuns + 1
Item == 1..MaxItems

Target(r) == r + 1

\* A run's row: what its status and its message say.  "unchanged" and
\* "unrestarted": failed before the program was touched, with the service
\* running again or not; "busy": another executor is at work; "refused": the
\* package is not the one that was checked; "stopped": failed for good.
Outcome == {"none", "applying", "completed", "rolled_back", "unchanged",
            "unrestarted", "busy", "refused", "stopped"}

Database == [stage : Version, data : SUBSET Item, runs : [Run -> Outcome],
             done : SUBSET Run]
Directory == [pkg : Version \cup {0}, db : Database \cup {None},
              trees : SUBSET Item]

ASSUME NoneAssumption ==
  /\ None \notin Database /\ None \notin Directory /\ None \notin Executors
  /\ "off" \notin Executors /\ None # "off"

VARIABLES
  platform, \* of this host
  updater,  \* the version of the updater's program that Windows runs: its file is
            \* in use, and replaced when the machine comes up again
  program,  \* the installed program: its version, and whether it is complete
  service,  \* the version the running service has, 0 when it is down
  db,       \* the database file
  trees,    \* attachments and archives: the items whose files are there
  attached, \* the running service has the present database file open
  cache,    \* version of the verified installer in the cache, 0: none valid
  spare,    \* the same for the installer set aside on Windows
  dirs,     \* transaction directory of each run
  lock,     \* who made the lock file: an executor, or "off" from before a crash
  super,    \* the supervisor: "idle", about to remove a lock it found stale, or
            \* "off" with the updater's unit stopped
  ex,       \* the executors
  acked,    \* number of writes acknowledged to users
  settled,  \* history: the writes acknowledged outside a trial, or by its end
  troubles,
  exposed   \* history: two executors may have been at work at once, an update
            \* was rolled back after it was reported complete, or the service
            \* could not be stopped before everything was put back

machine == <<program, service, db, trees, attached, cache, spare>>
files == <<dirs, lock>>
history == <<acked, settled>>
vars ==
  <<platform, updater, machine, files, super, ex, history, troubles, exposed>>

Trouble == troubles < MaxTroubles /\ troubles' = troubles + 1
Quiet == UNCHANGED troubles

\* What comes after an exposure is not followed: two executors overwrite each
\* other's snapshot, program and data, and no promise is left to check.
Followed == ~exposed

Idle == [pc |-> "idle", run |-> 0, prev |-> 1, stopped |-> FALSE,
         own |-> FALSE, good |-> FALSE, held |-> None]

\* Where the program has been touched and the outcome is open.
Mutated == {"install", "configure", "recache", "startNew", "trial", "commit",
            "stopNew", "reinstall", "dbAway", "dbPut", "wipe", "copy",
            "startOld", "trialOld", "stopOld", "report"}
Locked == Mutated \cup {"check", "mkdir", "stop", "snap", "undo", "say",
                        "clean", "discard", "release"}
Before == {"idle", "zombie", "start", "lock", "look", "steal", "lock2", "look2",
           "steal2", "busy"}

Init ==
  /\ platform \in Platforms
  /\ updater = 1
  /\ program = [v |-> 1, ok |-> TRUE]
  /\ service = 1
  /\ db = [stage |-> 1, data |-> {}, runs |-> [r \in Run |-> "none"], done |-> {}]
  /\ trees = {}
  /\ attached = TRUE
  /\ cache = IF platform = "deb" THEN 0 ELSE 1
  /\ spare = 0
  /\ dirs = [r \in Run |-> None]
  /\ lock = None
  /\ super = "idle"
  /\ ex = [e \in Executors |-> Idle]
  /\ acked = 0
  /\ settled = {}
  /\ troubles = 0
  /\ exposed = FALSE

-----------------------------------------------------------------------------
(* The database's rows and the service.                                     *)

Status(r) == IF db = None THEN "none" ELSE db.runs[r]
Done(r) == db # None /\ r \in db.done

\* _set_run: a row that is not there is passed over.
Told(r, o) ==
  IF db = None \/ Status(r) = "none" THEN db ELSE [db EXCEPT !.runs[r] = o]

\* An index allows one applying host run: a second one raises.
MayApply(r) == \A s \in Run \ {r} : Status(s) # "applying"

\* The program finds a database it can serve: none, or one of its own schema
\* or an older one, which it migrates.
CanServe == program.ok /\ (db = None \/ db.stage <= program.v)

Fresh == [stage |-> program.v, data |-> {}, runs |-> [r \in Run |-> "none"],
          done |-> {}]

Served == IF db = None THEN Fresh ELSE [db EXCEPT !.stage = program.v]

\* The service was down: it comes up and migrates the database.
Start ==
  /\ CanServe
  /\ service' = program.v
  /\ db' = Served
  /\ attached' = TRUE

\* The call says that it came up, but it is gone again, its migration done or not.
Expire ==
  /\ service' = 0
  /\ db' \in {db, IF CanServe THEN Served ELSE db}
  /\ UNCHANGED attached

-----------------------------------------------------------------------------
(* Users and administrators, while the service runs.                        *)

InTrial == \E e \in Executors : ex[e].pc \in Mutated

Write ==
  /\ Followed
  /\ service # 0 /\ db # None /\ acked < MaxItems
  /\ acked' = acked + 1
  /\ trees' = trees \cup {acked + 1}
  /\ db' = IF attached THEN [db EXCEPT !.data = @ \cup {acked + 1}] ELSE db
  /\ settled' = IF InTrial THEN settled ELSE settled \cup {acked + 1}
  /\ UNCHANGED <<platform, updater, program, service, attached, cache, spare,
                 files, super, ex, troubles, exposed>>

\* apply_update: a package that was checked, and no active run.
Apply(r) ==
  /\ Followed
  /\ service # 0 /\ attached /\ db # None
  /\ db.runs[r] = "none"
  /\ \A s \in Run : db.runs[s] # "applying"
  /\ db' = [db EXCEPT !.runs[r] = "applying"]
  /\ UNCHANGED <<platform, updater, program, service, trees, attached, cache,
                 spare, files, super, ex, history, troubles, exposed>>

-----------------------------------------------------------------------------
(* The supervisor, every three seconds.                                     *)

\* A lock that is there is taken for a stale one.
FaultyStale(l) == TRUE

\* Stale: gone by now, made before the last boot, or by a process that is gone.
\* A child that died answers to its number until its parent, the supervisor,
\* asks, which it does when it starts the next child.
Stale(l) == l \in {None, "off"}

Pending == {r \in Run : Status(r) = "applying"}

FreeSlots ==
  IF platform = "windows" /\ \E e \in Executors : ex[e].pc # "idle" THEN {}
  ELSE {e \in Executors : ex[e].pc = "idle"}

\* The version to come back to is the one the executor's own program has.
Spawn ==
  \E r \in Pending, e \in FreeSlots :
    ex' = [ex EXCEPT ![e] =
             [Idle EXCEPT !.pc = "start", !.run = r,
                          !.prev = IF platform = "windows" THEN updater
                                   ELSE program.v]]

\* On Windows a service does the work itself, and leaves the lock to it.
Supervise ==
  /\ Followed /\ super = "idle" /\ Pending # {}
  /\ \/ (lock = None \/ platform = "windows")
        /\ Spawn /\ UNCHANGED super
     \/ lock # None /\ platform # "windows"
        /\ super' = "look" /\ UNCHANGED ex
  /\ UNCHANGED <<platform, updater, machine, files, history, troubles, exposed>>

SuperviseLook ==
  /\ Followed /\ super = "look"
  /\ super' = IF Stale(lock) THEN "unlink" ELSE "idle"
  /\ UNCHANGED <<platform, updater, machine, files, ex, history, troubles,
                 exposed>>

\* The lock that is removed need not be the one that was looked at.
Unlink == lock' = None /\ exposed' = (exposed \/ ~Stale(lock))

SuperviseUnlink ==
  /\ Followed /\ super = "unlink" /\ FreeSlots # {}
  /\ super' = "idle"
  /\ Unlink
  /\ IF Pending # {} THEN Spawn ELSE UNCHANGED ex
  /\ UNCHANGED <<platform, updater, machine, dirs, history, troubles>>

-----------------------------------------------------------------------------
(* An executor.  Go moves it on; Fail sends it to the handler for a program *)
(* that is untouched, or for one that is not.                               *)

At(e, pc) == Followed /\ ex[e].pc = pc
Go(e, pc) == ex' = [ex EXCEPT ![e].pc = pc]
Fail(e) == Go(e, IF ex[e].pc \in Mutated THEN "stopNew" ELSE "undo")
Exit(e) == ex' = [ex EXCEPT ![e] = Idle]

\* The package must be waiting to be applied; the run's status is not asked.
Begin(e) ==
  LET r == ex[e].run IN
  /\ At(e, "start")
  /\ \/ (Status(r) = "none" \/ Done(r)) /\ Exit(e) /\ Quiet /\ UNCHANGED db
     \/ ~(Status(r) = "none" \/ Done(r)) /\ Go(e, "lock") /\ Quiet /\ UNCHANGED db
     \/ ~(Status(r) = "none" \/ Done(r)) /\ Trouble
        /\ db' = Told(r, "refused") /\ Exit(e)
  /\ UNCHANGED <<platform, updater, program, service, trees, attached, cache,
                 spare, files, super, history, exposed>>

\* Past everything that is checked before the lock: take it, or look at it.
\* There are two attempts.
TakeLock(e) ==
  /\ At(e, "lock") \/ At(e, "lock2")
  /\ IF lock = None
     THEN lock' = e /\ Go(e, "check")
     ELSE Go(e, IF At(e, "lock") THEN "look" ELSE "look2") /\ UNCHANGED lock
  /\ UNCHANGED <<platform, updater, machine, dirs, super, history, troubles,
                 exposed>>

LookAtLock(e) ==
  /\ At(e, "look") \/ At(e, "look2")
  /\ Go(e, IF ~Stale(lock) THEN "busy"
           ELSE IF At(e, "look") THEN "steal" ELSE "steal2")
  /\ UNCHANGED <<platform, updater, machine, files, super, history, troubles,
                 exposed>>

StealLock(e) ==
  /\ At(e, "steal") \/ At(e, "steal2")
  /\ Unlink
  /\ Go(e, IF At(e, "steal") THEN "lock2" ELSE "busy")
  /\ UNCHANGED <<platform, updater, machine, dirs, super, history, troubles>>

GiveUp(e) ==
  /\ At(e, "busy")
  /\ db' = Told(ex[e].run, "busy")
  /\ Exit(e)
  /\ UNCHANGED <<platform, updater, program, service, trees, attached, cache,
                 spare, files, super, history, troubles, exposed>>

\* Progress is written to the run's row, whatever that says by now.
Progress(e, next) ==
  \/ /\ MayApply(ex[e].run) /\ db' = Told(ex[e].run, "applying")
     /\ next /\ Quiet
  \/ /\ ~MayApply(ex[e].run)
     /\ Fail(e) /\ Quiet /\ UNCHANGED db
  \/ Trouble /\ Fail(e) /\ UNCHANGED db

\* A half-configured Debian package is configured; the others want a cache
\* that verifies, to be able to go back.
Check(e) ==
  /\ At(e, "check")
  /\ \/ /\ platform = "deb"
        /\ Progress(e, Go(e, "mkdir"))
        /\ program' = [program EXCEPT !.ok = TRUE]
     \/ /\ platform # "deb" /\ cache # 0
        /\ Progress(e, Go(e, "mkdir"))
        /\ UNCHANGED program
     \/ /\ platform # "deb" /\ cache = 0
        /\ Fail(e) /\ Quiet
        /\ UNCHANGED <<db, program>>
  /\ UNCHANGED <<platform, updater, service, trees, attached, cache, spare,
                 files, super, history, exposed>>

\* A directory left by an attempt that was cut off is used again.
FaultyVacant(r) == TRUE

\* The directory of an attempt that was cut off is not used again.
Vacant(r) == dirs[r] = None

\* The directory, the installer to go back to, the new one, the space: every
\* part may raise, and a directory that was made is the handler's to remove.
Prepare(e) ==
  LET r == ex[e].run
      made == [pkg |-> IF platform = "deb" THEN program.v
                       ELSE IF platform = "rpm" THEN cache ELSE 0,
               db |-> None, trees |-> {}]
  IN
  /\ At(e, "mkdir")
  /\ \/ ~Vacant(r) /\ Fail(e) /\ Quiet /\ UNCHANGED <<dirs, spare>>
     \/ /\ Vacant(r) /\ Target(r) >= ex[e].prev /\ Quiet
        /\ dirs' = [dirs EXCEPT ![r] = made]
        /\ spare' = IF platform = "windows" THEN cache ELSE spare
        /\ ex' = [ex EXCEPT ![e].pc = "stop", ![e].own = TRUE]
     \/ /\ Vacant(r) /\ ((Target(r) < ex[e].prev /\ Quiet) \/ Trouble)
        /\ dirs' = [dirs EXCEPT ![r] = [made EXCEPT !.pkg = 0]]
        /\ ex' = [ex EXCEPT ![e].pc = "undo", ![e].own = TRUE]
        /\ UNCHANGED spare
  /\ UNCHANGED <<platform, updater, program, service, db, trees, attached,
                 cache, lock, super, history, exposed>>

\* The service is told to stop.  A call that failed or took too long may have
\* stopped it all the same; on Windows one that took too long, or found it down,
\* says so.
StopService(e) ==
  LET stopped(b, pc) == ex' = [ex EXCEPT ![e].pc = pc, ![e].stopped = b] IN
  /\ At(e, "stop")
  /\ \/ /\ Progress(e, stopped(platform # "windows" \/ service # 0, "snap"))
        /\ service' = IF ex'[e].pc = "snap" THEN 0 ELSE service
     \/ /\ Trouble
        /\ \/ Fail(e) /\ service' \in {0, service}
           \/ platform = "windows" /\ stopped(TRUE, "undo") /\ service' = 0
        /\ UNCHANGED db
  /\ UNCHANGED <<platform, updater, program, trees, attached, cache, spare,
                 files, super, history, exposed>>

\* Database and trees, to the transaction's directory.
Snapshot(e) ==
  LET r == ex[e].run IN
  /\ At(e, "snap")
  /\ dirs' = [dirs EXCEPT ![r] = [@ EXCEPT !.db = db, !.trees = trees]]
  /\ Progress(e, Go(e, "install"))
  /\ UNCHANGED <<platform, updater, program, service, trees, attached, cache,
                 spare, lock, super, history, exposed>>

\* The installer is run.  When it fails the program may be what it was, or
\* incomplete.
Install(e) ==
  LET v == Target(ex[e].run) IN
  /\ At(e, "install")
  /\ \/ /\ Quiet
        /\ program' = [v |-> v, ok |-> platform # "deb"]
        /\ cache' = IF platform = "windows" THEN v ELSE cache
        /\ Go(e, IF platform = "deb" THEN "configure"
                 ELSE IF platform = "rpm" THEN "recache" ELSE "startNew")
     \/ /\ Trouble /\ Fail(e)
        /\ program' \in {program, [v |-> v, ok |-> FALSE]}
        /\ cache' \in {cache, IF platform = "windows" THEN v ELSE cache}
  /\ UNCHANGED <<platform, updater, service, db, trees, attached, spare, files,
                 super, history, exposed>>

Configure(e) ==
  /\ At(e, "configure")
  /\ \/ program' = [program EXCEPT !.ok = TRUE] /\ Go(e, "startNew") /\ Quiet
     \/ Trouble /\ Fail(e) /\ UNCHANGED program
  /\ UNCHANGED <<platform, updater, service, db, trees, attached, cache, spare,
                 files, super, history, exposed>>

\* The RPM that was installed becomes the one to go back to: the file and its
\* hash are replaced one after the other.
Recache(e) ==
  /\ At(e, "recache")
  /\ \/ cache' = Target(ex[e].run) /\ Go(e, "startNew") /\ Quiet
     \/ Trouble /\ Fail(e) /\ cache' \in {cache, 0}
  /\ UNCHANGED <<platform, updater, program, service, db, trees, attached,
                 spare, files, super, history, exposed>>

StartNew(e) ==
  /\ At(e, "startNew")
  /\ \/ Start /\ Go(e, "trial") /\ Quiet
     \/ Trouble /\ Expire /\ Go(e, "trial")
     \/ ((~CanServe /\ Quiet) \/ Trouble) /\ Fail(e)
        /\ UNCHANGED <<service, db, attached>>
  /\ UNCHANGED <<platform, updater, program, trees, cache, spare, files, super,
                 history, exposed>>

\* What is installed is asked for its version.
FaultyHealthy(v) == program.v = v

\* The health check wants the version that was installed.
Healthy(v) == service = v

Trial(e) ==
  /\ At(e, "trial")
  /\ \/ Healthy(Target(ex[e].run)) /\ Progress(e, Go(e, "commit"))
     \/ ~Healthy(Target(ex[e].run)) /\ Fail(e) /\ Quiet /\ UNCHANGED db
  /\ UNCHANGED <<platform, updater, program, service, trees, attached, cache,
                 spare, files, super, history, exposed>>

Commit(e) ==
  LET r == ex[e].run IN
  /\ At(e, "commit")
  /\ \/ /\ Quiet
        /\ db' = IF Status(r) = "none" THEN db
                 ELSE [Told(r, "completed") EXCEPT !.done = @ \cup {r}]
        /\ settled' = settled \cup (IF db = None THEN {} ELSE db.data \cap trees)
        /\ Go(e, "clean")
     \/ Trouble /\ Fail(e) /\ UNCHANGED <<db, settled>>
  /\ UNCHANGED <<platform, updater, program, service, trees, attached, cache,
                 spare, files, super, acked, exposed>>

\* On Windows the installer that was set aside is removed first; should that
\* raise, the handler takes the update for a failed one.
Clean(e) ==
  LET r == ex[e].run IN
  /\ At(e, "clean")
  /\ \/ /\ dirs' = [dirs EXCEPT ![r] = None]
        /\ spare' = IF platform = "windows" THEN 0 ELSE spare
        /\ Go(e, "release") /\ Quiet /\ UNCHANGED exposed
     \/ /\ Trouble /\ platform # "windows"
        /\ Go(e, "release") /\ UNCHANGED <<dirs, spare, exposed>>
     \/ /\ Trouble /\ platform = "windows"
        /\ Go(e, "stopNew") /\ exposed' = TRUE /\ UNCHANGED <<dirs, spare>>
  /\ UNCHANGED <<platform, updater, program, service, db, trees, attached,
                 cache, lock, super, history>>

\* The last act of every executor.  The lock it removes is its own by intent.
Release(e) ==
  /\ At(e, "release")
  /\ lock' = None
  /\ Exit(e)
  /\ exposed' = (exposed \/ lock \notin {e, None})
  /\ UNCHANGED <<platform, updater, machine, dirs, super, history, troubles>>

-----------------------------------------------------------------------------
(* Failed before the program was touched.                                   *)

\* The service that was stopped is started; the directory goes, if it is this
\* executor's.
Undo(e) ==
  LET r == ex[e].run
      end(ok) == ex' = [ex EXCEPT ![e].pc = "say", ![e].good = ok]
  IN
  /\ At(e, "undo")
  /\ \/ ~ex[e].stopped /\ end(TRUE) /\ Quiet /\ UNCHANGED <<service, db, attached>>
     \/ ex[e].stopped /\ Start /\ end(TRUE) /\ Quiet
     \/ ex[e].stopped /\ ((~CanServe /\ Quiet) \/ Trouble) /\ end(FALSE)
        /\ UNCHANGED <<service, db, attached>>
  /\ dirs' = IF ex[e].own THEN [dirs EXCEPT ![r] = None] ELSE dirs
  /\ spare' = IF platform = "windows" THEN 0 ELSE spare
  /\ UNCHANGED <<platform, updater, program, trees, cache, lock, super, history,
                 exposed>>

\* The outcome is only logged.
FaultySay(e) ==
  /\ At(e, "say")
  /\ Go(e, "release") /\ Quiet
  /\ UNCHANGED <<platform, updater, machine, files, super, history, exposed>>

Say(e) ==
  /\ At(e, "say")
  /\ Go(e, "release")
  /\ \/ Quiet /\ db' = Told(ex[e].run, IF ex[e].good THEN "unchanged"
                                       ELSE "unrestarted")
     \/ Trouble /\ UNCHANGED db
  /\ UNCHANGED <<platform, updater, program, service, trees, attached, cache,
                 spare, files, super, history, exposed>>

-----------------------------------------------------------------------------
(* Failed with the program touched: everything is put back.                 *)

\* What stopping returns is not looked at; should it raise, nothing more is done.
StopNew(e) ==
  /\ At(e, "stopNew")
  /\ \/ service' = 0 /\ Go(e, "reinstall") /\ Quiet
     \/ Trouble /\ Go(e, "reinstall") /\ UNCHANGED service
     \/ Trouble /\ Go(e, "release") /\ service' \in {0, service}
  /\ exposed' = (exposed \/ (ex'[e].pc = "reinstall" /\ service' # 0))
  /\ UNCHANGED <<platform, updater, program, db, trees, attached, cache, spare,
                 files, super, history>>

\* An exception while things are put back.
Abandon(e) == ex' = [ex EXCEPT ![e].pc = "report", ![e].good = FALSE]

Former(e) == IF platform = "windows" THEN spare
             ELSE dirs[ex[e].run].pkg

\* When the old installer fails, the data is put back all the same; when the
\* call raises, it is not.
Reinstall(e) ==
  LET put(ok) == ex' = [ex EXCEPT ![e].pc = "dbAway", ![e].good = ok] IN
  /\ At(e, "reinstall")
  /\ \/ /\ Quiet /\ put(TRUE)
        /\ program' = [v |-> Former(e), ok |-> TRUE]
     \/ /\ Trouble /\ (put(FALSE) \/ Abandon(e))
        /\ program' \in {program, [v |-> Former(e), ok |-> FALSE]}
  /\ UNCHANGED <<platform, updater, service, db, trees, attached, cache, spare,
                 files, super, history, exposed>>

\* The database file is moved aside, the snapshot takes its place; when that
\* fails the file comes back.
DbAway(e) ==
  /\ At(e, "dbAway")
  /\ \/ /\ Quiet
        /\ ex' = [ex EXCEPT ![e].pc = "dbPut", ![e].held = db]
        /\ db' = None /\ attached' = FALSE
     \/ Trouble /\ Abandon(e) /\ UNCHANGED <<db, attached>>
  /\ UNCHANGED <<platform, updater, program, service, trees, cache, spare,
                 files, super, history, exposed>>

DbPut(e) ==
  /\ At(e, "dbPut")
  /\ \/ /\ db' = dirs[ex[e].run].db /\ Quiet
        /\ ex' = [ex EXCEPT ![e].pc = "wipe", ![e].held = None]
     \/ /\ db' = ex[e].held /\ Trouble
        /\ ex' = [ex EXCEPT ![e].pc = "report", ![e].good = FALSE, ![e].held = None]
  /\ UNCHANGED <<platform, updater, program, service, trees, attached, cache,
                 spare, files, super, history, exposed>>

\* The trees are removed, then copied.
Wipe(e) ==
  /\ At(e, "wipe")
  /\ \/ trees' = {} /\ Go(e, "copy") /\ Quiet
     \/ Trouble /\ Abandon(e) /\ trees' \in {trees, {}}
  /\ UNCHANGED <<platform, updater, program, service, db, attached, cache,
                 spare, files, super, history, exposed>>

Copy(e) ==
  /\ At(e, "copy")
  /\ \/ trees' = dirs[ex[e].run].trees /\ Go(e, "startOld") /\ Quiet
     \/ Trouble /\ Abandon(e) /\ UNCHANGED trees
  /\ UNCHANGED <<platform, updater, program, service, db, attached, cache,
                 spare, files, super, history, exposed>>

StartOld(e) ==
  /\ At(e, "startOld")
  /\ \/ /\ ex[e].good /\ Quiet
        /\ Start
        /\ cache' = IF platform = "deb" THEN cache ELSE Former(e)
        /\ Go(e, "trialOld")
     \/ /\ ex[e].good /\ Trouble
        /\ Expire
        /\ cache' = IF platform = "deb" THEN cache ELSE Former(e)
        /\ Go(e, "trialOld")
     \/ /\ ex[e].good /\ ((~CanServe /\ Quiet) \/ Trouble)
        /\ Go(e, "stopOld")
        /\ cache' = IF platform = "deb" THEN cache ELSE Former(e)
        /\ UNCHANGED <<service, db, attached>>
     \/ /\ ex[e].good /\ Trouble /\ platform # "deb"
        /\ cache' \in {cache, 0}
        /\ Abandon(e)
        /\ UNCHANGED <<service, db, attached>>
     \/ /\ ~ex[e].good /\ Quiet
        /\ Go(e, "report")
        /\ UNCHANGED <<cache, service, db, attached>>
  /\ UNCHANGED <<platform, updater, program, trees, spare, files, super,
                 history, exposed>>

\* The health check wants the version this executor came with.
TrialOld(e) ==
  /\ At(e, "trialOld")
  /\ \/ Healthy(ex[e].prev) /\ Quiet /\ Go(e, "report")
     \/ ((~Healthy(ex[e].prev) /\ Quiet) \/ Trouble) /\ Go(e, "stopOld")
  /\ UNCHANGED <<platform, updater, machine, files, super, history, exposed>>

StopOld(e) ==
  /\ At(e, "stopOld")
  /\ Abandon(e)
  /\ \/ service' = 0 /\ Quiet
     \/ Trouble /\ UNCHANGED service
  /\ UNCHANGED <<platform, updater, program, db, trees, attached, cache, spare,
                 files, super, history, exposed>>

Report(e) ==
  /\ At(e, "report")
  /\ \/ Quiet /\ db' = Told(ex[e].run, IF ex[e].good THEN "rolled_back" ELSE "stopped")
        /\ Go(e, IF ex[e].good THEN "discard" ELSE "release")
     \/ Trouble /\ UNCHANGED db /\ Go(e, "release")
  /\ UNCHANGED <<platform, updater, program, service, trees, attached, cache,
                 spare, files, super, history, exposed>>

Discard(e) ==
  /\ At(e, "discard")
  /\ Go(e, "release")
  /\ \/ dirs' = [dirs EXCEPT ![ex[e].run] = None] /\ Quiet
     \/ Trouble /\ UNCHANGED dirs
  /\ spare' = IF platform = "windows" THEN 0 ELSE spare
  /\ UNCHANGED <<platform, updater, program, service, db, trees, attached,
                 cache, lock, super, history, exposed>>

-----------------------------------------------------------------------------
(* Crashes.                                                                 *)

\* One executor dies.
Crash(e) ==
  /\ Followed /\ ex[e].pc \notin {"idle", "zombie"} /\ Trouble
  /\ IF lock = e /\ platform # "windows"
     THEN Go(e, "zombie") /\ UNCHANGED lock
     ELSE Exit(e) /\ lock' = IF lock = e THEN "off" ELSE lock
  /\ UNCHANGED <<platform, updater, machine, dirs, super, history, exposed>>

\* The supervisor is gone, and its children with it.
AllGone(s) ==
  /\ ex' = [e \in Executors |-> Idle]
  /\ super' = s
  /\ lock' = IF lock = None THEN None ELSE "off"

\* Everything dies, and the machine comes up with both units enabled.
PowerCut ==
  /\ Followed /\ Trouble
  /\ super = "off" \/ \E e \in Executors : ex[e].pc # "idle"
  /\ AllGone("idle")
  /\ service' = IF CanServe THEN program.v ELSE 0
  /\ db' = IF CanServe THEN Served ELSE db
  /\ attached' = TRUE
  /\ updater' = IF platform = "windows" /\ program.ok THEN program.v ELSE updater
  /\ UNCHANGED <<platform, program, trees, cache, spare, dirs, history,
                 exposed>>

\* Before a Debian package is replaced its own script stops both units, whoever
\* replaces it: executor and dpkg are in the updater's unit, and nothing is
\* unpacked yet.
PackageStopsUnit(e) ==
  /\ At(e, "install") \/ At(e, "reinstall")
  /\ platform = "deb"
  /\ AllGone("off")
  /\ service' = 0
  /\ UNCHANGED <<platform, updater, program, db, trees, attached, cache, spare,
                 dirs, history, troubles, exposed>>

\* The installer that e runs loses its parent: it stops somewhere, or runs to its
\* end.
Orphan(e) ==
  LET new == ex[e].pc = "install"
      v == IF new THEN Target(ex[e].run) ELSE Former(e)
  IN
  /\ ex[e].pc \in {"install", "reinstall"}
  /\ program' \in [v : {v}, ok : BOOLEAN]
  /\ cache' \in {cache, IF platform = "windows" /\ new THEN v ELSE cache}

\* The supervisor fails, or somebody stops its unit: everything in it dies.
UnitStops ==
  /\ Followed /\ Trouble
  /\ super # "off"
  /\ AllGone("off")
  /\ UNCHANGED <<program, cache>> \/ \E e \in Executors : Orphan(e)
  /\ UNCHANGED <<platform, updater, service, db, trees, attached, spare, dirs,
                 history, exposed>>

\* A unit that failed is restarted, three times in five minutes; one that was
\* stopped waits for a person, or for a package's script.
UnitStarts ==
  /\ Followed /\ super = "off"
  /\ super' = "idle"
  /\ UNCHANGED <<platform, updater, machine, files, ex, history, troubles,
                 exposed>>

-----------------------------------------------------------------------------

Work(e) ==
  \/ Begin(e) \/ TakeLock(e) \/ LookAtLock(e) \/ StealLock(e) \/ GiveUp(e)
  \/ Check(e) \/ Prepare(e) \/ StopService(e) \/ Snapshot(e)
  \/ Install(e) \/ Configure(e) \/ Recache(e) \/ StartNew(e) \/ Trial(e)
  \/ Commit(e) \/ Clean(e) \/ Undo(e) \/ Say(e)
  \/ StopNew(e) \/ Reinstall(e) \/ DbAway(e) \/ DbPut(e) \/ Wipe(e) \/ Copy(e)
  \/ StartOld(e) \/ TrialOld(e) \/ StopOld(e) \/ Report(e) \/ Discard(e)
  \/ Release(e)

Next ==
  \/ Write
  \/ \E r \in Run : Apply(r)
  \/ Supervise \/ SuperviseLook \/ SuperviseUnlink
  \/ \E e \in Executors : Work(e) \/ Crash(e) \/ PackageStopsUnit(e)
  \/ PowerCut \/ UnitStops \/ UnitStarts

\* As long as the unit is up its supervisor looks every three seconds, and an
\* executor that lives goes on.  A unit that stopped need not come back; users
\* and failures owe nothing.
Fairness ==
  /\ WF_vars(Supervise) /\ WF_vars(SuperviseLook) /\ WF_vars(SuperviseUnlink)
  /\ \A e \in Executors : WF_vars(Work(e))

Spec == Init /\ [][Next]_vars /\ Fairness

-----------------------------------------------------------------------------
(* Properties.                                                              *)

\* Every variable has its type.
TypeOK ==
  /\ platform \in Platforms /\ updater \in Version
  /\ program \in [v : Version, ok : BOOLEAN]
  /\ service \in Version \cup {0}
  /\ db \in Database \cup {None}
  /\ trees \subseteq Item
  /\ attached \in BOOLEAN
  /\ cache \in Version \cup {0} /\ spare \in Version \cup {0}
  /\ dirs \in [Run -> Directory \cup {None}]
  /\ lock \in Executors \cup {None, "off"}
  /\ super \in {"idle", "look", "unlink", "off"}
  /\ acked \in 0..MaxItems /\ settled \subseteq Item
  /\ troubles \in 0..MaxTroubles /\ exposed \in BOOLEAN
  /\ ex \in [Executors ->
             [pc : Before \cup Locked, run : Run \cup {0}, prev : Version,
              stopped : BOOLEAN, own : BOOLEAN, good : BOOLEAN,
              held : Database \cup {None}]]

Live(i) == db # None /\ i \in db.data /\ i \in trees
KeptIn(i, r) == /\ dirs[r] # None /\ dirs[r].db # None
                /\ i \in dirs[r].db.data /\ i \in dirs[r].trees

\* What users were told is saved, other than while a new program was on trial,
\* stays saved through updates that fail, are cut off or are tried again: it is
\* live, row and file, or whole in one snapshot an update left behind.  A second
\* attempt that wrote its snapshot over the first one's would lose it, as would
\* a directory removed before its contents are back (_secure_update_backup_root,
\* _restore_database_snapshot, _restore_managed_tree).
SettledDataIsKept ==
  \A i \in settled : Live(i) \/ \E r \in Run : KeptIn(i, r)

\* Of the executors that were started for a run, by a supervisor that starts one
\* more every three seconds for as long as it sees no lock, at most one is past
\* the lock (_acquire_update_lock, run_supervisor).
OneAtATime ==
  \A e, f \in Executors : ex[e].pc \in Locked /\ ex[f].pc \in Locked => e = f

Becomes(r, o) == db # None /\ Status(r) # o /\ Status(r)' = o

\* What a run's row says in the end is so: "completed" is written with the new
\* program whole and serving, "rolled_back" with a whole program serving on
\* everything the snapshot holds, whichever calls failed in between
\* (execute_host_update and its two siblings).
EndsAre ==
  [][~exposed' => \A r \in Run :
       /\ Becomes(r, "completed") =>
            service = Target(r) /\ program = [v |-> Target(r), ok |-> TRUE]
       /\ Becomes(r, "rolled_back") =>
            /\ service # 0 /\ program = [v |-> service, ok |-> TRUE]
            /\ dirs[r].db # None => dirs[r].db.data \subseteq db.data
            /\ dirs[r].trees \subseteq trees]_vars

\* A run that is being applied ends as long as the updater's unit is up, however
\* often calls fail, executors die and the power goes: also one whose unit was
\* stopped under it ends once the unit is up again, lock and directory of the
\* attempt before notwithstanding.  Not so while the unit is off; once an executor
\* died with the lock and answers to its number for good; nor for a run that had
\* completed and was taken up again by a second executor that asked for the
\* package's status before that and for the lock after it.
RunsEnd ==
  \A r \in Run :
    Status(r) = "applying" /\ ~Done(r) ~>
      \/ Status(r) # "applying" \/ exposed \/ super = "off"
      \/ \E e \in Executors : ex[e].pc = "zombie"

=============================================================================
