-------------------------- MODULE HostUpdateProofs --------------------------
(***************************************************************************)
(* Proofs about the update of the host's program: types, one executor past  *)
(* the lock at a time, settled data are kept, and ends are what rows say.   *)
(*                                                                          *)
(* The lock's content names the executor that is past it, so that all that  *)
(* is said of an update under way is said of one executor; the others are   *)
(* before the lock and touch rows only.  Once an exposure is met no action  *)
(* is taken, and nothing has to be said of what follows.                    *)
(***************************************************************************)
EXTENDS HostUpdate, TLAPS

ExecutorRow ==
  [pc : Before \cup Locked, run : Run \cup {0}, prev : Version,
   stopped : BOOLEAN, own : BOOLEAN, good : BOOLEAN, held : Database \cup {None}]

\* The steps before which no directory of its own was made, those at which the
\* service is down, and those from which the way back may have to be gone.
Starting == (Before \ {"zombie"}) \cup {"check", "mkdir"}
Stopped == {"snap", "install", "configure", "recache", "startNew", "reinstall",
            "dbAway", "dbPut", "wipe", "copy", "startOld"}
Holding == {"stop", "snap"} \cup Mutated

\* The steps at which the live database, and the live trees, hold all that the
\* snapshot holds; on the way back only as long as nothing failed.
DataKept == {"install", "configure", "recache", "startNew", "trial", "commit",
             "clean", "stopNew", "reinstall", "dbAway", "wipe", "copy", "discard"}
TreesKept == (DataKept \ {"wipe", "copy"}) \cup {"dbPut"}
Back == {"startOld", "trialOld", "report"}

DataBack(r) ==
  dirs[r] # None /\ dirs[r].db # None => db # None /\ dirs[r].db.data \subseteq db.data
TreesBack(r) == dirs[r] # None => dirs[r].trees \subseteq trees
KeptSomewhere(i) == \E r \in Run : KeptIn(i, r)

Placed(e) ==
  /\ ex[e].pc # "idle" => ex[e].run \in Run
  /\ ex[e].pc \in Starting => ~ex[e].own

Serves == service # 0 => attached /\ service = program.v

\* The way back is open as long as it may be needed.
Ready(e) ==
  /\ ex[e].pc = "mkdir" /\ platform # "deb" => cache # 0
  /\ ex[e].pc \in Holding => dirs[ex[e].run] # None /\ Former(e) \in Version
  /\ ex[e].pc \in {"stop", "snap"} =>
       dirs[ex[e].run].db = None /\ dirs[ex[e].run].trees = {}
  /\ ex[e].pc = "dbPut" => db = None
  /\ ex[e].pc \in Stopped => service = 0

Returned(e) ==
  (ex[e].pc = "undo" /\ ex[e].own) \/ (ex[e].pc \in Back /\ ex[e].good)

\* What was settled is in a snapshot before anything is taken away, and what the
\* snapshot holds is back before the snapshot goes.
Covered(e) ==
  /\ ex[e].pc \in DataKept \/ Returned(e) => DataBack(ex[e].run)
  /\ ex[e].pc \in TreesKept \/ Returned(e) => TreesBack(ex[e].run)
  /\ ex[e].pc \in Mutated => \A i \in settled : KeptSomewhere(i)

\* The installed program is whole where a row is about to say so.
Programmed(e) ==
  /\ ex[e].pc \in {"configure", "recache", "startNew", "trial", "commit"} =>
       program.v = Target(ex[e].run)
  /\ ex[e].pc \in {"recache", "startNew", "trial", "commit"} => program.ok
  /\ ex[e].pc = "commit" => service # 0
  /\ ex[e].good /\ ex[e].pc \in {"dbAway", "dbPut", "wipe", "copy"} \cup Back =>
       program.ok
  /\ ex[e].good /\ ex[e].pc = "report" => service # 0
  /\ ex[e].pc = "trialOld" => ex[e].good

Works(e) == Ready(e) /\ Covered(e) /\ Programmed(e)

Deep ==
  /\ Serves
  /\ \A e \in Executors : Placed(e)
  /\ \A e \in Executors : ex[e].pc \in Locked => lock = e /\ Works(e)

IInv == TypeOK /\ OneAtATime /\ SettledDataIsKept /\ (~exposed => Deep)

----------------------------------------------------------------------------
(* What becomes of an executor, and of the database.                        *)

\* e moves on, and the others do not.
Steps(e, pc, own, good) ==
  /\ ex' \in [Executors -> ExecutorRow]
  /\ ex'[e].pc = pc /\ ex'[e].own = own /\ ex'[e].good = good
  /\ ex'[e].run = ex[e].run /\ ex'[e].prev = ex[e].prev
  /\ \A f \in Executors \ {e} : ex'[f] = ex[f]

LEMMA Going ==
  ASSUME TypeOK, NEW e \in Executors, NEW pc \in Before \cup Locked, Go(e, pc)
  PROVE  Steps(e, pc, ex[e].own, ex[e].good)
<1>1. ex \in [Executors -> ExecutorRow]
  BY DEF TypeOK, ExecutorRow
<1>2. [ex[e] EXCEPT !.pc = pc] \in ExecutorRow
  BY <1>1 DEF ExecutorRow
<1>3. ex' = [ex EXCEPT ![e] = [ex[e] EXCEPT !.pc = pc]]
  BY DEF Go
<1>4. ex'[e] = [ex[e] EXCEPT !.pc = pc] /\ \A f \in Executors \ {e} : ex'[f] = ex[f]
  BY <1>1, <1>3
<1>5. ex' \in [Executors -> ExecutorRow]
  BY <1>1, <1>2, <1>3
<1>6. ex[e] \in ExecutorRow
  BY <1>1
<1> QED BY <1>4, <1>5, <1>6 DEF Steps, ExecutorRow

LEMMA Abandoning ==
  ASSUME TypeOK, NEW e \in Executors, NEW pc \in Before \cup Locked,
         NEW good \in BOOLEAN, ex' = [ex EXCEPT ![e].pc = pc, ![e].good = good]
  PROVE  Steps(e, pc, ex[e].own, good)
<1>1. ex \in [Executors -> ExecutorRow]
  BY DEF TypeOK, ExecutorRow
<1>2. [ex[e] EXCEPT !.pc = pc, !.good = good] \in ExecutorRow
  BY <1>1 DEF ExecutorRow
<1>3. ex' = [ex EXCEPT ![e] = [ex[e] EXCEPT !.pc = pc, !.good = good]]
  BY <1>1 DEF ExecutorRow
<1>4. ex'[e] = [ex[e] EXCEPT !.pc = pc, !.good = good]
      /\ \A f \in Executors \ {e} : ex'[f] = ex[f]
  BY <1>1, <1>3
<1>5. ex' \in [Executors -> ExecutorRow]
  BY <1>1, <1>2, <1>3
<1>6. ex[e] \in ExecutorRow
  BY <1>1
<1> QED BY <1>4, <1>5, <1>6 DEF Steps, ExecutorRow

\* The database keeps its data, and is not lost.
Grows ==
  /\ db' \in Database \cup {None}
  /\ db # None => db' # None /\ db.data \subseteq db'.data
\* Of the rows only that of r changes, to o.
Tells(r, o) ==
  db # None /\ db' # None =>
    \A q \in Run : db'.runs[q] = db.runs[q] \/ (q = r /\ db'.runs[q] = o)
Empty == db = None => db' = None

LEMMA Telling ==
  ASSUME TypeOK, NEW r \in Run, NEW o \in Outcome, db' = Told(r, o)
  PROVE  Grows /\ Tells(r, o) /\ Empty
<1>1. CASE db = None
  BY <1>1 DEF Told, Grows, Tells, Empty
<1>2. CASE db # None
  <2>1. db \in Database
    BY <1>2 DEF TypeOK
  <2>2. [db EXCEPT !.runs[r] = o] \in Database
    BY <2>1 DEF Database
  <2>3. /\ [db EXCEPT !.runs[r] = o].data = db.data
        /\ \A q \in Run : [db EXCEPT !.runs[r] = o].runs[q] = IF q = r THEN o ELSE db.runs[q]
    BY <2>1 DEF Database
  <2>4. db' \in {db, [db EXCEPT !.runs[r] = o]}
    BY <1>2 DEF Told
  <2>5. None \notin Database
    BY NoneAssumption
  <2>6. CASE db' = db
    BY <1>2, <2>1, <2>5, <2>6 DEF Grows, Tells, Empty
  <2>7. CASE db' = [db EXCEPT !.runs[r] = o]
    <3>1. db' \in Database /\ db'.data = db.data /\ db' # None
      BY <2>2, <2>3, <2>5, <2>7
    <3>2. \A q \in Run : db'.runs[q] = IF q = r THEN o ELSE db.runs[q]
      BY <2>3, <2>7
    <3> QED BY <1>2, <3>1, <3>2 DEF Grows, Tells, Empty
  <2> QED BY <2>4, <2>6, <2>7
<1> QED BY <1>1, <1>2

LEMMA Unchanging ==
  ASSUME TypeOK, db' = db, NEW r, NEW o
  PROVE  Grows /\ Tells(r, o) /\ Empty
BY DEF TypeOK, Grows, Tells, Empty

LEMMA Serving ==
  ASSUME TypeOK, db' = Served, NEW r, NEW o
  PROVE  Grows /\ Tells(r, o) /\ db' # None
<1>1. CASE db = None
  <2>1. program.v \in Version
    BY DEF TypeOK
  <2>2. Fresh \in Database
    BY <2>1 DEF Fresh, Database, Outcome
  <2>3. None \notin Database
    BY NoneAssumption
  <2> QED BY <1>1, <2>2, <2>3 DEF Served, Grows, Tells
<1>2. CASE db # None
  <2>1. db \in Database /\ program.v \in Version
    BY <1>2 DEF TypeOK
  <2>2. [db EXCEPT !.stage = program.v] \in Database
    BY <2>1 DEF Database
  <2>3. /\ [db EXCEPT !.stage = program.v].data = db.data
        /\ [db EXCEPT !.stage = program.v].runs = db.runs
    BY <2>1 DEF Database
  <2>4. None \notin Database
    BY NoneAssumption
  <2> QED BY <1>2, <2>1, <2>2, <2>3, <2>4 DEF Served, Grows, Tells
<1> QED BY <1>1, <1>2

\* What is live stays live, and what was settled is kept.
LEMMA Keeping ==
  ASSUME TypeOK, SettledDataIsKept, Grows, trees \subseteq trees',
         UNCHANGED <<dirs, settled>>
  PROVE  SettledDataIsKept'
BY DEF SettledDataIsKept, Live, KeptIn, Grows

----------------------------------------------------------------------------
(* Assembling the invariant after a step.                                   *)

\* The executor that is past the lock goes on.
LEMMA Working ==
  ASSUME IInv, ~exposed, NEW e \in Executors, ex[e].pc \in Locked,
         NEW pc \in Locked, NEW own, NEW good, Steps(e, pc, own, good),
         pc \in {"check", "mkdir"} => ~own,
         TypeOK', SettledDataIsKept', lock' = lock,
         ~exposed' => Serves' /\ Works(e)'
  PROVE  IInv'
<1>1. \A f \in Executors \ {e} : ex[f].pc \notin Locked
  BY DEF IInv, OneAtATime
<1>2. ex'[e].pc = pc /\ \A f \in Executors \ {e} : ex'[f] = ex[f]
  BY DEF Steps
<1>3. OneAtATime'
  BY <1>1, <1>2 DEF OneAtATime
<1>4. ASSUME NEW f \in Executors PROVE Placed(f)'
  <2>1. CASE f = e
    BY <2>1, NoneAssumption DEF Steps, Placed, IInv, Deep, Locked, Mutated, Starting, Before
  <2>2. CASE f # e
    BY <1>2, <2>2 DEF Placed, IInv, Deep
  <2> QED BY <2>1, <2>2
<1>5. lock = e
  BY DEF IInv, Deep
<1> QED BY <1>1, <1>2, <1>3, <1>4, <1>5 DEF IInv, Deep

\* It leaves.
LEMMA Leaving ==
  ASSUME IInv, ~exposed, NEW e \in Executors, ex[e].pc \in Locked,
         ex' \in [Executors -> ExecutorRow],
         ex'[e].pc \in {"idle", "zombie"}, ex'[e].pc = "idle" => ~ex'[e].own,
         ex'[e].pc = "zombie" => ex'[e].run = ex[e].run,
         \A f \in Executors \ {e} : ex'[f] = ex[f],
         TypeOK', SettledDataIsKept', ~exposed' => Serves'
  PROVE  IInv'
<1>1. \A f \in Executors \ {e} : ex[f].pc \notin Locked
  BY DEF IInv, OneAtATime
<1>2. ex'[e].pc \notin Locked
  BY DEF Locked, Mutated
<1>3. OneAtATime'
  BY <1>1, <1>2 DEF OneAtATime
<1>4. ASSUME NEW f \in Executors PROVE Placed(f)'
  <2>1. CASE f = e
    BY <2>1 DEF Placed, IInv, Deep, Locked, Mutated, Starting, Before
  <2>2. CASE f # e
    BY <2>2 DEF Placed, IInv, Deep
  <2> QED BY <2>1, <2>2
<1> QED BY <1>1, <1>2, <1>3, <1>4 DEF IInv, Deep

\* What others do to rows and what users write disturbs no update under way.
LEMMA Bystanding ==
  ASSUME IInv, NEW f \in Executors, ex'[f] = ex[f], Works(f), Grows, Empty,
         trees \subseteq trees', UNCHANGED <<platform, program, service, dirs, spare>>,
         cache' = cache, settled' = settled \/ ex[f].pc \notin Mutated
  PROVE  Works(f)'
<1>1. Ready(f)'
  BY DEF Works, Ready, Former, Empty
<1>2. ASSUME NEW i, KeptSomewhere(i) PROVE KeptSomewhere(i)'
  BY <1>2 DEF KeptSomewhere, KeptIn
<1>3. ASSUME DataBack(ex[f].run) PROVE DataBack(ex[f].run)'
  BY <1>3 DEF DataBack, Grows
<1>4. ASSUME TreesBack(ex[f].run) PROVE TreesBack(ex[f].run)'
  BY <1>4 DEF TreesBack
<1>5. Returned(f)' <=> Returned(f)
  BY DEF Returned
<1>6. Covered(f)'
  BY <1>2, <1>3, <1>4, <1>5 DEF Works, Covered
<1>7. Programmed(f)'
  BY DEF Works, Programmed
<1> QED BY <1>1, <1>6, <1>7 DEF Works

\* Whoever moves is before the lock, or nobody moves.
LEMMA Standing ==
  ASSUME IInv, ~exposed, TypeOK', Grows, Empty,
         UNCHANGED <<platform, program, service, attached, trees, dirs, cache, spare,
                     settled>>,
         \A f \in Executors :
           \/ ex'[f] = ex[f]
           \/ ex[f].pc \notin Locked /\ ex'[f].pc \notin Locked /\ Placed(f)',
         ~exposed' => lock' = lock \/ \A f \in Executors : ex[f].pc \notin Locked
  PROVE  IInv'
<1>1. SettledDataIsKept'
  BY Keeping DEF IInv
<1>2. OneAtATime'
  BY DEF IInv, OneAtATime
<1>3. Serves'
  BY DEF IInv, Deep, Serves
<1>4. ASSUME NEW f \in Executors PROVE Placed(f)'
  BY DEF IInv, Deep, Placed
<1>5. ASSUME NEW f \in Executors, ex'[f].pc \in Locked, ~exposed' PROVE lock' = f /\ Works(f)'
  <2>1. ex'[f] = ex[f] /\ lock' = lock /\ lock = f /\ Works(f)
    BY <1>5 DEF IInv, Deep
  <2>2. Works(f)'
    BY <2>1, Bystanding
  <2> QED BY <2>1, <2>2
<1> QED BY <1>1, <1>2, <1>3, <1>4, <1>5 DEF IInv, Deep

LEMMA Unexposed ==
  ASSUME IInv, ~exposed
  PROVE  /\ TypeOK /\ OneAtATime /\ SettledDataIsKept /\ Serves
         /\ \A f \in Executors : Placed(f)
         /\ \A f \in Executors : ex[f].pc \in Locked => lock = f /\ Works(f)
BY DEF IInv, Deep

----------------------------------------------------------------------------
(* Users and the supervisor.                                                *)

LEMMA WriteInv ==
  ASSUME IInv, Write
  PROVE  IInv'
<1>1. ~exposed /\ Deep
  BY DEF Write, Followed, IInv
<1>2. attached /\ db # None /\ service # 0
  BY <1>1 DEF Write, Deep, Serves
<1>3. db \in Database /\ acked + 1 \in Item
  BY <1>2, BoundsAssumption DEF IInv, TypeOK, Write, Item
<1>4. /\ [db EXCEPT !.data = @ \cup {acked + 1}] \in Database
      /\ [db EXCEPT !.data = @ \cup {acked + 1}].data = db.data \cup {acked + 1}
  BY <1>3 DEF Database
<1>5. db' \in Database /\ db'.data = db.data \cup {acked + 1} /\ db' # None
  BY <1>2, <1>4, NoneAssumption DEF Write
<1>6. Grows /\ Empty /\ trees \subseteq trees' /\ acked + 1 \in trees'
  BY <1>2, <1>5 DEF Grows, Empty, Write
<1>7. TypeOK'
  BY <1>3, <1>5, BoundsAssumption DEF IInv, TypeOK, Write, files, Item
<1>8. SettledDataIsKept'
  <2>1. ASSUME NEW i \in settled' PROVE Live(i)' \/ KeptSomewhere(i)'
    <3>1. CASE i = acked + 1
      BY <3>1, <1>5, <1>6 DEF Live
    <3>2. CASE i # acked + 1
      <4>1. i \in settled
        BY <3>2 DEF Write
      <4>2. Live(i) \/ KeptSomewhere(i)
        BY <4>1 DEF IInv, SettledDataIsKept, KeptSomewhere
      <4>3. dirs' = dirs
        BY DEF Write, files
      <4> QED BY <4>2, <4>3, <1>6 DEF Live, KeptSomewhere, KeptIn, Grows
    <3> QED BY <3>1, <3>2
  <2> QED BY <2>1 DEF SettledDataIsKept, KeptSomewhere
<1>9. ASSUME NEW f \in Executors, Works(f) PROVE Works(f)'
  <2>1. settled' = settled \/ ex[f].pc \notin Mutated
    BY DEF Write, InTrial
  <2>2. ex'[f] = ex[f] /\ UNCHANGED <<platform, program, service, dirs, spare, cache>>
    BY DEF Write, files
  <2> QED BY <1>6, <1>9, <2>1, <2>2, Bystanding
<1> QED
  <2>1. UNCHANGED <<ex, lock, exposed, service, attached, program>>
    BY DEF Write, files
  <2> QED BY <1>1, <1>7, <1>8, <1>9, <2>1 DEF IInv, Deep, OneAtATime, Serves, Placed

LEMMA ApplyInv ==
  ASSUME IInv, NEW r \in Run, Apply(r)
  PROVE  IInv'
<1>1. ~exposed /\ TypeOK /\ db # None
  BY DEF Apply, Followed, IInv
<1>2. db \in Database
  BY <1>1 DEF TypeOK
<1>3. [db EXCEPT !.runs[r] = "applying"] \in Database
      /\ [db EXCEPT !.runs[r] = "applying"].data = db.data
  BY <1>2 DEF Database, Outcome
<1>4. Grows /\ Empty
  BY <1>1, <1>2, <1>3, NoneAssumption DEF Grows, Empty, Apply
<1>5. TypeOK'
  BY <1>1, <1>4 DEF TypeOK, Apply, files, history, Grows
<1> QED BY <1>1, <1>4, <1>5, Standing DEF Apply, files, history

LEMMA Spawning ==
  ASSUME IInv, ~exposed, Spawn
  PROVE  /\ ex' \in [Executors -> ExecutorRow]
         /\ \A f \in Executors :
              \/ ex'[f] = ex[f]
              \/ ex[f].pc \notin Locked /\ ex'[f].pc \notin Locked /\ Placed(f)'
<1> DEFINE own == IF platform = "windows" THEN updater ELSE program.v
<1>1. ex \in [Executors -> ExecutorRow] /\ own \in Version
  BY DEF IInv, TypeOK, ExecutorRow
<1>2. PICK r \in Pending, e \in FreeSlots :
        ex' = [ex EXCEPT ![e] = [Idle EXCEPT !.pc = "start", !.run = r, !.prev = own]]
  BY DEF Spawn
<1> HIDE DEF own
<1>3. r \in Run /\ e \in Executors /\ ex[e].pc = "idle"
  BY <1>2 DEF Pending, FreeSlots
<1>4. 1 \in Version
  BY BoundsAssumption DEF Version
<1> DEFINE x == [Idle EXCEPT !.pc = "start", !.run = r, !.prev = own]
<1>5. x \in ExecutorRow /\ x.pc = "start" /\ x.run = r /\ ~x.own
  BY <1>1, <1>3, <1>4 DEF Idle, ExecutorRow, Before
<1>6. ex' = [ex EXCEPT ![e] = x]
  BY <1>2
<1> HIDE DEF x
<1>7. ex' \in [Executors -> ExecutorRow] /\ ex'[e] = x
      /\ \A f \in Executors \ {e} : ex'[f] = ex[f]
  BY <1>1, <1>3, <1>5, <1>6
<1>8. "start" \notin Locked /\ "idle" \notin Locked
  BY DEF Locked, Mutated
<1> QED BY <1>3, <1>5, <1>7, <1>8 DEF Placed

LEMMA SupervisorInv ==
  ASSUME IInv, Supervise \/ SuperviseLook \/ SuperviseUnlink
  PROVE  IInv'
<1>1. ~exposed /\ TypeOK
  BY DEF Supervise, SuperviseLook, SuperviseUnlink, Followed, IInv
<1>2. /\ Grows /\ Empty
      /\ UNCHANGED <<machine, dirs, settled, acked, platform, updater, troubles>>
  BY <1>1 DEF Supervise, SuperviseLook, SuperviseUnlink, machine, files, history,
     Grows, Empty, TypeOK
<1>3. /\ ex' \in [Executors -> ExecutorRow]
      /\ \A f \in Executors :
              \/ ex'[f] = ex[f]
              \/ ex[f].pc \notin Locked /\ ex'[f].pc \notin Locked /\ Placed(f)'
  <2>1. Spawn \/ UNCHANGED ex
    BY DEF Supervise, SuperviseLook, SuperviseUnlink
  <2>2. CASE UNCHANGED ex
    BY <1>1, <2>2 DEF TypeOK, ExecutorRow
  <2> QED BY <1>1, <2>1, <2>2, Spawning
<1>4. lock' \in {lock, None} /\ exposed' \in BOOLEAN /\ super' \in {"idle", "look", "unlink", "off"}
  BY <1>1 DEF Supervise, SuperviseLook, SuperviseUnlink, files, Unlink, TypeOK
<1>5. TypeOK'
  BY <1>1, <1>2, <1>3, <1>4 DEF TypeOK, machine, ExecutorRow
<1>6. ~exposed' => lock' = lock \/ \A f \in Executors : ex[f].pc \notin Locked
  <2>1. ASSUME NEW f \in Executors, ex[f].pc \in Locked PROVE ~Stale(lock)
    BY <1>1, <2>1, Unexposed, NoneAssumption DEF Stale
  <2> QED BY <2>1 DEF Supervise, SuperviseLook, SuperviseUnlink, files, Unlink
<1> QED BY <1>1, <1>2, <1>3, <1>5, <1>6, Standing DEF machine

----------------------------------------------------------------------------
(* Executors before the lock.                                               *)

LEMMA Exiting ==
  ASSUME TypeOK, NEW e \in Executors, Exit(e)
  PROVE  /\ ex' \in [Executors -> ExecutorRow]
         /\ ex'[e].pc = "idle" /\ ~ex'[e].own
         /\ \A f \in Executors \ {e} : ex'[f] = ex[f]
<1>1. ex \in [Executors -> ExecutorRow]
  BY DEF TypeOK, ExecutorRow
<1>2. 1 \in Version
  BY BoundsAssumption DEF Version
<1>3. Idle \in ExecutorRow
  BY <1>2 DEF Idle, ExecutorRow, Before
<1>4. ex' = [ex EXCEPT ![e] = Idle]
  BY DEF Exit
<1>5. Idle.pc = "idle" /\ ~Idle.own
  BY DEF Idle
<1> QED BY <1>1, <1>3, <1>4, <1>5

\* An executor before the lock goes to where it need not hold it, or exits.
LEMMA Approaching ==
  ASSUME IInv, ~exposed, NEW e \in Executors, ex[e].pc \in Before \ {"idle", "zombie"},
         NEW pc \in Before \ {"idle"}, Go(e, pc) \/ Exit(e)
  PROVE  /\ ex' \in [Executors -> ExecutorRow]
         /\ \A f \in Executors :
              \/ ex'[f] = ex[f]
              \/ ex[f].pc \notin Locked /\ ex'[f].pc \notin Locked /\ Placed(f)'
<1>1. TypeOK /\ Placed(e)
  BY Unexposed
<1>2. \A b \in Before : b \notin Locked
  BY DEF Before, Locked, Mutated
<1>3. CASE Go(e, pc)
  <2>1. Steps(e, pc, ex[e].own, ex[e].good)
    BY <1>1, <1>3, Going
  <2>2. Placed(e)'
    BY <1>1, <2>1 DEF Steps, Placed, Starting
  <2> QED BY <1>2, <2>1, <2>2 DEF Steps
<1>4. CASE Exit(e)
  <2>1. /\ ex' \in [Executors -> ExecutorRow]
        /\ ex'[e].pc = "idle" /\ ~ex'[e].own
        /\ \A f \in Executors \ {e} : ex'[f] = ex[f]
    BY <1>1, <1>4, Exiting
  <2>2. Placed(e)' /\ "idle" \in Before
    BY <2>1 DEF Placed, Before
  <2> QED BY <1>2, <2>1, <2>2
<1> QED BY <1>3, <1>4

LEMMA BeginInv ==
  ASSUME IInv, NEW e \in Executors, Begin(e)
  PROVE  IInv'
<1>1. ~exposed /\ TypeOK /\ ex[e].pc = "start" /\ ex[e].run \in Run
  BY Unexposed DEF Begin, At, Followed, Placed
<1>2. Go(e, "lock") \/ Exit(e)
  BY DEF Begin
<1>3. /\ ex' \in [Executors -> ExecutorRow]
      /\ \A f \in Executors :
              \/ ex'[f] = ex[f]
              \/ ex[f].pc \notin Locked /\ ex'[f].pc \notin Locked /\ Placed(f)'
  BY <1>1, <1>2, Approaching DEF Before
<1>4. Grows /\ Empty
  <2>1. db' = db \/ db' = Told(ex[e].run, "refused")
    BY DEF Begin
  <2> QED BY <1>1, <2>1, Telling, Unchanging DEF Outcome
<1>5. troubles' \in 0..MaxTroubles
  BY <1>1, BoundsAssumption DEF Begin, Quiet, Trouble, TypeOK
<1>6. TypeOK'
  BY <1>1, <1>3, <1>4, <1>5 DEF Begin, TypeOK, files, history, ExecutorRow, Grows
<1> QED BY <1>1, <1>3, <1>4, <1>6, Standing DEF Begin, files, history

LEMMA TakeLockInv ==
  ASSUME IInv, NEW e \in Executors, TakeLock(e)
  PROVE  IInv'
<1>1. ~exposed /\ TypeOK /\ ex[e].pc \in {"lock", "lock2"} /\ Placed(e)
  BY Unexposed DEF TakeLock, At, Followed
<1>2. Grows /\ Empty
  BY <1>1, Unchanging DEF TakeLock, machine
<1>3. CASE lock = None
  <2>1. Steps(e, "check", ex[e].own, ex[e].good) /\ lock' = e
    BY <1>1, <1>3, Going DEF TakeLock, Locked
  <2>2. ex[e].run \in Run /\ ~ex[e].own
    BY <1>1 DEF Placed, Starting, Before
  <2>3. \A f \in Executors : ex[f].pc \notin Locked
    BY <1>1, <1>3, Unexposed, NoneAssumption
  <2>4. TypeOK'
    BY <1>1, <1>2, <2>1 DEF TakeLock, TypeOK, machine, history, Steps, ExecutorRow
  <2>5. SettledDataIsKept'
    BY <1>1, <1>2, Unexposed, Keeping DEF TakeLock, machine, history
  <2>6. \A f \in Executors : ex'[f].pc \in Locked => f = e
    BY <2>1, <2>3 DEF Steps
  <2>7. OneAtATime'
    BY <2>6 DEF OneAtATime
  <2>8. Serves' /\ \A f \in Executors : Placed(f)'
    BY <1>1, Unexposed, <2>1, <2>2 DEF TakeLock, machine, Serves, Placed, Steps
  <2>9. Works(e)'
    BY <2>1 DEF Steps, Works, Ready, Covered, Programmed, Returned, Holding, Stopped,
       Mutated, DataKept, TreesKept, Back
  <2> QED BY <2>1, <2>4, <2>5, <2>6, <2>7, <2>8, <2>9 DEF IInv, Deep
<1>4. CASE lock # None
  <2>1. Go(e, "look") \/ Go(e, "look2")
    BY <1>4 DEF TakeLock
  <2>2. /\ ex' \in [Executors -> ExecutorRow]
        /\ \A f \in Executors :
              \/ ex'[f] = ex[f]
              \/ ex[f].pc \notin Locked /\ ex'[f].pc \notin Locked /\ Placed(f)'
    BY <1>1, <2>1, Approaching DEF Before
  <2>3. TypeOK' /\ lock' = lock
    BY <1>1, <1>2, <1>4, <2>2 DEF TakeLock, TypeOK, machine, history, ExecutorRow
  <2> QED BY <1>1, <1>2, <2>2, <2>3, Standing DEF TakeLock, machine, history
<1> QED BY <1>3, <1>4

LEMMA LookAtLockInv ==
  ASSUME IInv, NEW e \in Executors, LookAtLock(e)
  PROVE  IInv'
<1>1. ~exposed /\ TypeOK /\ ex[e].pc \in {"look", "look2"}
  BY Unexposed DEF LookAtLock, At, Followed
<1>2. Go(e, "busy") \/ Go(e, "steal") \/ Go(e, "steal2")
  BY DEF LookAtLock
<1>3. /\ ex' \in [Executors -> ExecutorRow]
      /\ \A f \in Executors :
              \/ ex'[f] = ex[f]
              \/ ex[f].pc \notin Locked /\ ex'[f].pc \notin Locked /\ Placed(f)'
  BY <1>1, <1>2, Approaching DEF Before
<1>4. Grows /\ Empty
  BY <1>1, Unchanging DEF LookAtLock, machine
<1>5. TypeOK'
  BY <1>1, <1>3, <1>4 DEF LookAtLock, TypeOK, machine, files, history, ExecutorRow
<1> QED BY <1>1, <1>3, <1>4, <1>5, Standing DEF LookAtLock, machine, files, history

LEMMA StealLockInv ==
  ASSUME IInv, NEW e \in Executors, StealLock(e)
  PROVE  IInv'
<1>1. ~exposed /\ TypeOK /\ ex[e].pc \in {"steal", "steal2"}
  BY Unexposed DEF StealLock, At, Followed
<1>2. Go(e, "busy") \/ Go(e, "lock2")
  BY DEF StealLock
<1>3. /\ ex' \in [Executors -> ExecutorRow]
      /\ \A f \in Executors :
              \/ ex'[f] = ex[f]
              \/ ex[f].pc \notin Locked /\ ex'[f].pc \notin Locked /\ Placed(f)'
  BY <1>1, <1>2, Approaching DEF Before
<1>4. Grows /\ Empty
  BY <1>1, Unchanging DEF StealLock, machine
<1>5. TypeOK'
  BY <1>1, <1>3, <1>4 DEF StealLock, Unlink, TypeOK, machine, files, history, ExecutorRow
<1>6. ~exposed' => \A f \in Executors : ex[f].pc \notin Locked
  <2>1. ASSUME NEW f \in Executors, ex[f].pc \in Locked PROVE ~Stale(lock)
    BY <1>1, <2>1, Unexposed, NoneAssumption DEF Stale
  <2> QED BY <2>1 DEF StealLock, Unlink
<1> QED BY <1>1, <1>3, <1>4, <1>5, <1>6, Standing DEF StealLock, machine, files, history

LEMMA GiveUpInv ==
  ASSUME IInv, NEW e \in Executors, GiveUp(e)
  PROVE  IInv'
<1>1. ~exposed /\ TypeOK /\ ex[e].pc = "busy" /\ ex[e].run \in Run
  BY Unexposed DEF GiveUp, At, Followed, Placed
<1>2. Exit(e)
  BY DEF GiveUp
<1>3. /\ ex' \in [Executors -> ExecutorRow]
      /\ \A f \in Executors :
              \/ ex'[f] = ex[f]
              \/ ex[f].pc \notin Locked /\ ex'[f].pc \notin Locked /\ Placed(f)'
  BY <1>1, <1>2, Approaching DEF Before
<1>4. Grows /\ Empty
  BY <1>1, Telling DEF GiveUp, Outcome
<1>5. TypeOK'
  BY <1>1, <1>3, <1>4 DEF GiveUp, TypeOK, files, history, ExecutorRow, Grows
<1> QED BY <1>1, <1>3, <1>4, <1>5, Standing DEF GiveUp, files, history

----------------------------------------------------------------------------
(* The executor past the lock: up to the installation.                      *)

LEMMA AtWork ==
  ASSUME IInv, NEW e \in Executors, NEW pc \in Locked, At(e, pc)
  PROVE  /\ ~exposed /\ TypeOK /\ SettledDataIsKept /\ Serves
         /\ ex[e].pc = pc /\ ex[e] \in ExecutorRow /\ ex[e].run \in Run
         /\ lock = e /\ Works(e)
         /\ pc \in {"check", "mkdir"} => ~ex[e].own
<1>1. ~exposed /\ ex[e].pc = pc
  BY DEF At, Followed
<1>2. /\ TypeOK /\ SettledDataIsKept /\ Serves /\ Placed(e) /\ lock = e /\ Works(e)
  BY <1>1, Unexposed
<1>3. ex[e] \in ExecutorRow
  BY <1>2 DEF TypeOK, ExecutorRow
<1>4. pc # "idle"
  BY DEF Locked, Mutated
<1> QED BY <1>1, <1>2, <1>3, <1>4 DEF Placed, Starting

LEMMA Failing ==
  ASSUME TypeOK, NEW e \in Executors, Fail(e)
  PROVE  Steps(e, IF ex[e].pc \in Mutated THEN "stopNew" ELSE "undo",
               ex[e].own, ex[e].good)
<1>1. CASE ex[e].pc \in Mutated
  BY <1>1, Going DEF Fail, Locked, Mutated
<1>2. CASE ex[e].pc \notin Mutated
  BY <1>2, Going DEF Fail, Locked
<1> QED BY <1>1, <1>2

LEMMA Troubles ==
  ASSUME TypeOK, Quiet \/ Trouble
  PROVE  troubles' \in 0..MaxTroubles
BY BoundsAssumption DEF TypeOK, Quiet, Trouble

\* What is kept, and what is back, stays so while data only grow.
LEMMA Covering ==
  ASSUME NEW e \in Executors, NEW pc, NEW own, NEW good, Steps(e, pc, own, good),
         Covered(e), Grows, trees \subseteq trees', UNCHANGED dirs,
         settled' = settled \/ pc \notin Mutated,
         pc \in DataKept \/ Returned(e)' => ex[e].pc \in DataKept \/ Returned(e),
         pc \in TreesKept \/ Returned(e)' => ex[e].pc \in TreesKept \/ Returned(e),
         pc \in Mutated => ex[e].pc \in Mutated
  PROVE  Covered(e)'
<1>1. ex'[e].pc = pc /\ ex'[e].run = ex[e].run
  BY DEF Steps
<1>2. ASSUME NEW i, KeptSomewhere(i) PROVE KeptSomewhere(i)'
  BY <1>2 DEF KeptSomewhere, KeptIn
<1>3. ASSUME DataBack(ex[e].run) PROVE DataBack(ex[e].run)'
  BY <1>1, <1>3 DEF DataBack, Grows
<1>4. ASSUME TreesBack(ex[e].run) PROVE TreesBack(ex[e].run)'
  BY <1>1, <1>4 DEF TreesBack
<1> QED BY <1>1, <1>2, <1>3, <1>4 DEF Covered

LEMMA CheckInv ==
  ASSUME IInv, NEW e \in Executors, Check(e)
  PROVE  IInv'
<1>1. /\ ~exposed /\ TypeOK /\ SettledDataIsKept /\ Serves
      /\ ex[e].pc = "check" /\ ex[e] \in ExecutorRow /\ ex[e].run \in Run
      /\ lock = e /\ Works(e) /\ ~ex[e].own
  BY AtWork DEF Check, Locked
<1>2. PICK pc \in {"mkdir", "undo"} :
        /\ Steps(e, pc, ex[e].own, ex[e].good)
        /\ pc = "mkdir" /\ platform # "deb" => cache # 0
  <2>1. CASE Go(e, "mkdir") /\ (platform # "deb" => cache # 0)
    BY <1>1, <2>1, Going DEF Locked
  <2>2. CASE Fail(e)
    BY <1>1, <2>2, Failing DEF Mutated
  <2> QED BY <2>1, <2>2 DEF Check, Progress
<1>3. Grows
  BY <1>1, Telling, Unchanging DEF Check, Progress, Outcome
<1>4. TypeOK'
  <2>1. program' \in [v : Version, ok : BOOLEAN]
    BY <1>1 DEF Check, TypeOK
  <2>2. troubles' \in 0..MaxTroubles
    BY <1>1, Troubles DEF Check, Progress
  <2> QED BY <1>1, <1>2, <1>3, <2>1, <2>2 DEF Check, TypeOK, files, history, Grows, Steps,
             ExecutorRow
<1>5. SettledDataIsKept'
  BY <1>1, <1>3, Keeping DEF Check, files, history
<1>6. Serves'
  BY <1>1 DEF Check, Serves, TypeOK
<1>7. Works(e)'
  BY <1>1, <1>2 DEF Check, Steps, Works, Ready, Covered, Programmed, Returned, Holding, Stopped,
       Mutated, DataKept, TreesKept, Back
<1> QED BY <1>1, <1>2, <1>4, <1>5, <1>6, <1>7, Working DEF Check, files, Locked

LEMMA PrepareInv ==
  ASSUME IInv, NEW e \in Executors, Prepare(e)
  PROVE  IInv'
<1> DEFINE r == ex[e].run
           made == [pkg |-> IF platform = "deb" THEN program.v
                            ELSE IF platform = "rpm" THEN cache ELSE 0,
                    db |-> None, trees |-> {}]
<1>1. /\ ~exposed /\ TypeOK /\ SettledDataIsKept /\ Serves
      /\ ex[e].pc = "mkdir" /\ ex[e] \in ExecutorRow /\ r \in Run
      /\ lock = e /\ Works(e) /\ ~ex[e].own
  BY AtWork DEF Prepare, Locked
<1>2. /\ program.v \in Version /\ cache \in Version \cup {0}
      /\ platform # "deb" => cache \in Version
      /\ dirs \in [Run -> Directory \cup {None}] /\ spare \in Version \cup {0}
      /\ platform \in {"deb", "rpm", "windows"}
  BY <1>1, BoundsAssumption DEF TypeOK, Works, Ready
<1>3. made \in Directory /\ [made EXCEPT !.pkg = 0] \in Directory
      /\ made # None /\ made.db = None /\ made.trees = {}
      /\ [made EXCEPT !.pkg = 0].db = None /\ [made EXCEPT !.pkg = 0].trees = {}
  BY <1>2, NoneAssumption DEF Directory
<1>4. Grows
  BY <1>1, Unchanging DEF Prepare
<1>5. troubles' \in 0..MaxTroubles
  BY <1>1, Troubles DEF Prepare
<1>6. CASE ~Vacant(r) /\ Fail(e) /\ UNCHANGED <<dirs, spare>>
  <2>1. Steps(e, "undo", ex[e].own, ex[e].good)
    BY <1>1, <1>6, Failing DEF Mutated
  <2>2. TypeOK'
    BY <1>1, <1>4, <1>5, <1>6, <2>1 DEF Prepare, TypeOK, history, Steps, ExecutorRow, Grows
  <2>3. SettledDataIsKept'
    BY <1>1, <1>4, <1>6, Keeping DEF Prepare, history
  <2>4. Serves'
    BY <1>1 DEF Prepare, Serves
  <2>5. Works(e)'
    BY <1>1, <2>1 DEF Steps, Works, Ready, Covered, Programmed, Returned, Holding, Stopped,
       Mutated, DataKept, TreesKept, Back
  <2> QED BY <1>1, <2>1, <2>2, <2>3, <2>4, <2>5, Working DEF Prepare, Locked
<1>7. CASE /\ Vacant(r)
           /\ \/ /\ dirs' = [dirs EXCEPT ![r] = made]
                 /\ spare' = IF platform = "windows" THEN cache ELSE spare
                 /\ ex' = [ex EXCEPT ![e].pc = "stop", ![e].own = TRUE]
              \/ /\ dirs' = [dirs EXCEPT ![r] = [made EXCEPT !.pkg = 0]]
                 /\ ex' = [ex EXCEPT ![e].pc = "undo", ![e].own = TRUE]
                 /\ UNCHANGED spare
  <2>1. PICK pc \in {"stop", "undo"}, d \in Directory :
          /\ ex' = [ex EXCEPT ![e].pc = pc, ![e].own = TRUE]
          /\ dirs' = [dirs EXCEPT ![r] = d] /\ d.db = None /\ d.trees = {}
          /\ pc = "stop" => d = made /\ spare' = IF platform = "windows" THEN cache ELSE spare
          /\ spare' \in {cache, spare}
    BY <1>3, <1>7
  <2>2. Steps(e, pc, TRUE, ex[e].good)
    <3>1. ex \in [Executors -> ExecutorRow] /\ pc \in Before \cup Locked
      BY <1>1 DEF TypeOK, ExecutorRow, Locked
    <3>2. [ex[e] EXCEPT !.pc = pc, !.own = TRUE] \in ExecutorRow
      BY <3>1 DEF ExecutorRow
    <3>3. ex' = [ex EXCEPT ![e] = [ex[e] EXCEPT !.pc = pc, !.own = TRUE]]
      BY <2>1, <3>1 DEF ExecutorRow
    <3>4. ex'[e] = [ex[e] EXCEPT !.pc = pc, !.own = TRUE]
          /\ \A f \in Executors \ {e} : ex'[f] = ex[f]
      BY <3>1, <3>3
    <3>5. ex' \in [Executors -> ExecutorRow]
      BY <3>1, <3>2, <3>3
    <3> QED BY <1>1, <3>4, <3>5 DEF Steps, ExecutorRow
  <2>3. /\ dirs'[r] = d /\ \A q \in Run \ {r} : dirs'[q] = dirs[q]
        /\ dirs' \in [Run -> Directory \cup {None}]
    BY <1>1, <1>2, <2>1
  <2>4. TypeOK'
    BY <1>1, <1>2, <1>4, <1>5, <2>1, <2>2, <2>3
       DEF Prepare, TypeOK, history, Steps, ExecutorRow, Grows
  <2>5. SettledDataIsKept'
    <3>1. ASSUME NEW i \in settled PROVE Live(i)' \/ \E q \in Run : KeptIn(i, q)'
      <4>1. CASE Live(i)
        BY <4>1 DEF Live, Prepare
      <4>2. ASSUME NEW q \in Run, KeptIn(i, q) PROVE KeptIn(i, q)'
        <5>1. q # r
          BY <1>7, <4>2 DEF Vacant, KeptIn
        <5> QED BY <2>3, <4>2, <5>1 DEF KeptIn
      <4> QED BY <1>1, <4>1, <4>2 DEF SettledDataIsKept
    <3> QED BY <3>1 DEF SettledDataIsKept, Prepare, history
  <2>6. Serves'
    BY <1>1 DEF Prepare, Serves
  <2>7. Former(e)' \in Version \/ pc # "stop"
    BY <1>2, <2>1, <2>2, <2>3 DEF Former, Steps, Prepare
  <2>8. Works(e)'
    BY <2>1, <2>2, <2>3, <2>7, NoneAssumption DEF Steps, Works, Ready, Covered, Programmed, Returned, Holding, Stopped,
       Mutated, DataKept, TreesKept, Back, DataBack, TreesBack
  <2> QED BY <1>1, <2>2, <2>4, <2>5, <2>6, <2>8, Working DEF Prepare, Locked
<1> QED BY <1>6, <1>7 DEF Prepare

LEMMA Stopping ==
  ASSUME TypeOK, NEW e \in Executors, NEW pc \in Before \cup Locked,
         NEW b \in BOOLEAN, ex' = [ex EXCEPT ![e].pc = pc, ![e].stopped = b]
  PROVE  Steps(e, pc, ex[e].own, ex[e].good)
<1>1. ex \in [Executors -> ExecutorRow]
  BY DEF TypeOK, ExecutorRow
<1>2. [ex[e] EXCEPT !.pc = pc, !.stopped = b] \in ExecutorRow
  BY <1>1 DEF ExecutorRow
<1>3. ex' = [ex EXCEPT ![e] = [ex[e] EXCEPT !.pc = pc, !.stopped = b]]
  BY <1>1 DEF ExecutorRow
<1>4. ex'[e] = [ex[e] EXCEPT !.pc = pc, !.stopped = b]
      /\ \A f \in Executors \ {e} : ex'[f] = ex[f]
  BY <1>1, <1>3
<1>5. ex' \in [Executors -> ExecutorRow]
  BY <1>1, <1>2, <1>3
<1>6. ex[e] \in ExecutorRow
  BY <1>1
<1> QED BY <1>4, <1>5, <1>6 DEF Steps, ExecutorRow

LEMMA StopServiceInv ==
  ASSUME IInv, NEW e \in Executors, StopService(e)
  PROVE  IInv'
<1>1. /\ ~exposed /\ TypeOK /\ SettledDataIsKept /\ Serves
      /\ ex[e].pc = "stop" /\ ex[e] \in ExecutorRow /\ ex[e].run \in Run
      /\ lock = e /\ Works(e)
  BY AtWork DEF StopService, Locked
<1>2. PICK pc \in {"snap", "undo"} : Steps(e, pc, ex[e].own, ex[e].good)
  <2>1. ASSUME NEW b \in BOOLEAN, NEW pc \in {"snap", "undo"},
               ex' = [ex EXCEPT ![e].pc = pc, ![e].stopped = b]
        PROVE  Steps(e, pc, ex[e].own, ex[e].good)
    BY <1>1, <2>1, Stopping DEF Locked
  <2>2. Fail(e) => Steps(e, "undo", ex[e].own, ex[e].good)
    BY <1>1, Failing DEF Mutated
  <2> QED BY <2>1, <2>2 DEF StopService, Progress
<1>3. service' \in {0, service} /\ (pc = "snap" => service' = 0)
  <2>1. ex'[e].pc = pc
    BY <1>2 DEF Steps
  <2>2. CASE Trouble /\ Fail(e) /\ service' \in {0, service}
    <3>1. Steps(e, "undo", ex[e].own, ex[e].good)
      BY <1>1, <2>2, Failing DEF Mutated
    <3> QED BY <2>1, <2>2, <3>1 DEF Steps
  <2>3. CASE service' = 0
    BY <2>3
  <2>4. CASE service' = IF ex'[e].pc = "snap" THEN 0 ELSE service
    BY <2>1, <2>4
  <2> QED BY <2>2, <2>3, <2>4 DEF StopService
<1>4. Grows
  BY <1>1, Telling, Unchanging DEF StopService, Progress, Outcome
<1>5. TypeOK'
  <2>1. troubles' \in 0..MaxTroubles
    BY <1>1, Troubles DEF StopService, Progress
  <2> QED BY <1>1, <1>2, <1>3, <1>4, <2>1 DEF StopService, TypeOK, files, history, Grows,
             Steps, ExecutorRow
<1>6. SettledDataIsKept'
  BY <1>1, <1>4, Keeping DEF StopService, files, history
<1>7. Serves'
  BY <1>1, <1>3 DEF StopService, Serves
<1>8. Ready(e)'
  BY <1>1, <1>2, <1>3 DEF StopService, files, Steps, Works, Ready, Former, Holding, Stopped, Mutated
<1>9. Covered(e)'
  BY <1>1, <1>2 DEF StopService, files, Steps, Works, Ready, Covered, Returned, DataKept, TreesKept,
     Mutated, Back, DataBack, TreesBack
<1>10. Programmed(e)'
  BY <1>2 DEF Steps, Programmed, Back
<1> QED BY <1>1, <1>2, <1>5, <1>6, <1>7, <1>8, <1>9, <1>10, Working
        DEF StopService, files, Locked, Works

LEMMA SnapshotInv ==
  ASSUME IInv, NEW e \in Executors, Snapshot(e)
  PROVE  IInv'
<1> DEFINE r == ex[e].run
           d == [dirs[r] EXCEPT !.db = db, !.trees = trees]
<1>1. /\ ~exposed /\ TypeOK /\ SettledDataIsKept /\ Serves
      /\ ex[e].pc = "snap" /\ ex[e] \in ExecutorRow /\ r \in Run
      /\ lock = e /\ Works(e)
  BY AtWork DEF Snapshot, Locked
<1>2. PICK pc \in {"install", "undo"} : Steps(e, pc, ex[e].own, ex[e].good)
  <2>1. Go(e, "install") => Steps(e, "install", ex[e].own, ex[e].good)
    BY <1>1, Going DEF Locked, Mutated
  <2>2. Fail(e) => Steps(e, "undo", ex[e].own, ex[e].good)
    BY <1>1, Failing DEF Mutated
  <2> QED BY <2>1, <2>2 DEF Snapshot, Progress
<1>3. Grows
  BY <1>1, Telling, Unchanging DEF Snapshot, Progress, Outcome
<1>4. /\ dirs \in [Run -> Directory \cup {None}] /\ dirs[r] # None
      /\ dirs[r].db = None /\ dirs[r].trees = {} /\ Former(e) \in Version
      /\ db \in Database \cup {None} /\ trees \subseteq Item
  BY <1>1 DEF TypeOK, Works, Ready, Holding
<1>5. d \in Directory /\ d.db = db /\ d.trees = trees /\ d.pkg = dirs[r].pkg /\ d # None
  BY <1>1, <1>4, NoneAssumption DEF Directory
<1>6. /\ dirs' \in [Run -> Directory \cup {None}] /\ dirs'[r] = d
      /\ \A q \in Run \ {r} : dirs'[q] = dirs[q]
  <2>1. dirs' = [dirs EXCEPT ![r] = d]
    BY <1>4 DEF Snapshot
  <2> QED BY <1>1, <1>4, <1>5, <2>1
<1>7. TypeOK'
  <2>1. troubles' \in 0..MaxTroubles
    BY <1>1, Troubles DEF Snapshot, Progress
  <2> QED BY <1>1, <1>2, <1>3, <1>6, <2>1 DEF Snapshot, TypeOK, history, Grows, Steps, ExecutorRow
<1>8. \A i \in settled : KeptSomewhere(i)'
  <2>1. ASSUME NEW i \in settled PROVE \E q \in Run : KeptIn(i, q)'
    <3>1. CASE Live(i)
      <4>1. ASSUME NEW q \in Run, q = r PROVE KeptIn(i, q)'
        BY <1>5, <1>6, <3>1, <4>1 DEF Live, KeptIn
      <4> QED BY <1>1, <4>1
    <3>2. ASSUME NEW q \in Run, KeptIn(i, q) PROVE KeptIn(i, q)'
      <4>1. q # r
        BY <1>4, <3>2 DEF KeptIn
      <4> QED BY <1>6, <3>2, <4>1 DEF KeptIn
    <3> QED BY <1>1, <3>1, <3>2 DEF SettledDataIsKept
  <2> QED BY <2>1 DEF KeptSomewhere
<1>9. SettledDataIsKept' /\ settled' = settled
  BY <1>8 DEF Snapshot, history, SettledDataIsKept, KeptSomewhere
<1>10. Serves'
  BY <1>1 DEF Snapshot, Serves
<1>11. DataBack(r)' /\ TreesBack(r)' /\ ex'[e].run = r
  BY <1>2, <1>3, <1>5, <1>6 DEF DataBack, TreesBack, Grows, Snapshot, Steps
<1>12. Ready(e)'
  <2>1. Former(e)' \in Version /\ dirs'[r] # None
    BY <1>4, <1>5, <1>6, <1>11 DEF Former, Snapshot
  <2>2. service' = 0
    BY <1>1 DEF Snapshot, Works, Ready, Stopped
  <2> QED BY <1>2, <1>11, <2>1, <2>2 DEF Steps, Ready
<1>13. Covered(e)'
  BY <1>8, <1>9, <1>11 DEF Covered
<1>14. Programmed(e)'
  BY <1>2 DEF Steps, Programmed, Back
<1> QED BY <1>1, <1>2, <1>7, <1>9, <1>10, <1>12, <1>13, <1>14, Working
        DEF Snapshot, Locked, Works, Mutated

----------------------------------------------------------------------------
(* Installing, trying and committing.                                       *)

\* The service is started, or seems to have been.
LEMMA Restarting ==
  ASSUME TypeOK, Start \/ Expire, NEW r, NEW o
  PROVE  /\ Grows /\ Tells(r, o)
         /\ service' \in {0, program.v} /\ attached' \in BOOLEAN
         /\ service' # 0 => attached'
         /\ Start => service' # 0
<1>1. program.v # 0
  BY DEF TypeOK, Version
<1>2. CASE Start
  BY <1>1, <1>2, Serving DEF Start
<1>3. CASE Expire
  <2>1. db' = db \/ db' = Served
    BY <1>3 DEF Expire
  <2>2. Grows /\ Tells(r, o)
    BY <2>1, Serving, Unchanging
  <2>3. service' = 0 /\ attached' = attached
    BY <1>3 DEF Expire
  <2>4. ~Start
    BY <1>1, <2>3 DEF Start
  <2> QED BY <2>2, <2>3, <2>4 DEF TypeOK
<1> QED BY <1>2, <1>3

LEMMA Programs ==
  ASSUME NEW v \in Version, NEW b \in BOOLEAN
  PROVE  /\ [v |-> v, ok |-> b] \in [v : Version, ok : BOOLEAN]
         /\ [v |-> v, ok |-> b].v = v /\ [v |-> v, ok |-> b].ok = b
OBVIOUS

LEMMA InstallInv ==
  ASSUME IInv, NEW e \in Executors, Install(e)
  PROVE  IInv'
<1>1. /\ ~exposed /\ TypeOK /\ SettledDataIsKept /\ Serves
      /\ ex[e].pc = "install" /\ ex[e] \in ExecutorRow /\ ex[e].run \in Run
      /\ lock = e /\ Works(e)
  BY AtWork DEF Install, Locked, Mutated
<1>2. Target(ex[e].run) \in Version
  BY <1>1, BoundsAssumption DEF Target, Run, Version
<1>3. PICK pc \in {"configure", "recache", "startNew", "stopNew"} :
        /\ Steps(e, pc, ex[e].own, ex[e].good)
        /\ pc # "stopNew" => program' = [v |-> Target(ex[e].run), ok |-> platform # "deb"]
        /\ pc \in {"recache", "startNew"} => platform # "deb"
  <2>1. Fail(e) => Steps(e, "stopNew", ex[e].own, ex[e].good)
    BY <1>1, Failing DEF Mutated
  <2>2. CASE Fail(e)
    BY <2>1, <2>2
  <2>3. CASE Go(e, IF platform = "deb" THEN "configure"
                   ELSE IF platform = "rpm" THEN "recache" ELSE "startNew")
             /\ program' = [v |-> Target(ex[e].run), ok |-> platform # "deb"]
    <3>1. PICK pc \in {"configure", "recache", "startNew"} :
            Go(e, pc) /\ (pc \in {"recache", "startNew"} => platform # "deb")
      BY <2>3
    <3>2. Steps(e, pc, ex[e].own, ex[e].good)
      BY <1>1, <3>1, Going DEF Locked, Mutated
    <3> QED BY <2>3, <3>1, <3>2
  <2> QED BY <2>2, <2>3 DEF Install
<1>4. Grows
  BY <1>1, Unchanging DEF Install
<1>5. TypeOK'
  <2>1. troubles' \in 0..MaxTroubles
    BY <1>1, Troubles DEF Install
  <2>2. PICK b \in BOOLEAN : program' = program \/ program' = [v |-> Target(ex[e].run), ok |-> b]
    <3>1. (platform # "deb") \in BOOLEAN
      OBVIOUS
    <3> QED BY <3>1 DEF Install
  <2>3. program' \in [v : Version, ok : BOOLEAN]
    BY <1>1, <1>2, <2>2, Programs DEF TypeOK
  <2>4. cache' \in Version \cup {0}
    BY <1>1, <1>2 DEF Install, TypeOK
  <2> QED BY <1>1, <1>3, <1>4, <2>1, <2>3, <2>4 DEF Install, TypeOK, files, history, Grows, Steps, ExecutorRow
<1>6. SettledDataIsKept'
  BY <1>1, <1>4, Keeping DEF Install, files, history
<1>7. service = 0
  BY <1>1 DEF Works, Ready, Stopped
<1>8. Serves'
  BY <1>7 DEF Install, Serves
<1>9. Ready(e)'
  BY <1>1, <1>3, <1>7 DEF Install, files, Steps, Works, Ready, Former, Holding, Mutated
<1>10. Covered(e)'
  BY <1>1, <1>3, <1>4, Covering DEF Install, files, history, Works, Returned, DataKept, TreesKept, Mutated, Back, Steps
<1>11. Programmed(e)'
  <2>1. ASSUME pc # "stopNew" PROVE program'.v = Target(ex[e].run)
    BY <1>3, <2>1
  <2>2. ASSUME pc \in {"recache", "startNew"} PROVE program'.ok
    <3>1. program' = [v |-> Target(ex[e].run), ok |-> TRUE]
      BY <1>3, <2>2
    <3> QED BY <3>1
  <2> QED BY <1>3, <2>1, <2>2 DEF Steps, Programmed, Back, Target
<1> QED BY <1>1, <1>3, <1>5, <1>6, <1>8, <1>9, <1>10, <1>11, Working
        DEF Install, files, Locked, Mutated, Works

LEMMA ConfigureInv ==
  ASSUME IInv, NEW e \in Executors, Configure(e)
  PROVE  IInv'
<1>1. /\ ~exposed /\ TypeOK /\ SettledDataIsKept /\ Serves
      /\ ex[e].pc = "configure" /\ ex[e] \in ExecutorRow /\ ex[e].run \in Run
      /\ lock = e /\ Works(e)
  BY AtWork DEF Configure, Locked, Mutated
<1>2. PICK pc \in {"startNew", "stopNew"} :
        /\ Steps(e, pc, ex[e].own, ex[e].good)
        /\ pc = "startNew" => program' = [program EXCEPT !.ok = TRUE]
        /\ program' \in {program, [program EXCEPT !.ok = TRUE]}
  <2>1. Fail(e) => Steps(e, "stopNew", ex[e].own, ex[e].good)
    BY <1>1, Failing DEF Mutated
  <2>2. Go(e, "startNew") => Steps(e, "startNew", ex[e].own, ex[e].good)
    BY <1>1, Going DEF Locked, Mutated
  <2> QED BY <2>1, <2>2 DEF Configure
<1>3. Grows
  BY <1>1, Unchanging DEF Configure
<1>4. program \in [v : Version, ok : BOOLEAN] /\ program' \in [v : Version, ok : BOOLEAN]
      /\ program'.v = program.v /\ (pc = "startNew" => program'.ok)
  BY <1>1, <1>2 DEF TypeOK
<1>5. TypeOK'
  <2>1. troubles' \in 0..MaxTroubles
    BY <1>1, Troubles DEF Configure
  <2> QED BY <1>1, <1>2, <1>3, <1>4, <2>1 DEF Configure, TypeOK, files, history, Grows, Steps, ExecutorRow
<1>6. SettledDataIsKept'
  BY <1>1, <1>3, Keeping DEF Configure, files, history
<1>7. Serves'
  BY <1>1, <1>4 DEF Configure, Serves
<1>8. Ready(e)'
  BY <1>1, <1>2 DEF Configure, files, Steps, Works, Ready, Former, Holding, Stopped, Mutated
<1>9. Covered(e)'
  BY <1>1, <1>2, <1>3, Covering DEF Configure, files, history, Works, Returned, DataKept, TreesKept, Mutated, Back, Steps
<1>10. Programmed(e)'
  BY <1>1, <1>2, <1>4 DEF Steps, Works, Programmed, Back, Target
<1> QED BY <1>1, <1>2, <1>5, <1>6, <1>7, <1>8, <1>9, <1>10, Working
        DEF Configure, files, Locked, Mutated, Works

LEMMA RecacheInv ==
  ASSUME IInv, NEW e \in Executors, Recache(e)
  PROVE  IInv'
<1>1. /\ ~exposed /\ TypeOK /\ SettledDataIsKept /\ Serves
      /\ ex[e].pc = "recache" /\ ex[e] \in ExecutorRow /\ ex[e].run \in Run
      /\ lock = e /\ Works(e)
  BY AtWork DEF Recache, Locked, Mutated
<1>2. PICK pc \in {"startNew", "stopNew"} : Steps(e, pc, ex[e].own, ex[e].good)
  <2>1. Fail(e) => Steps(e, "stopNew", ex[e].own, ex[e].good)
    BY <1>1, Failing DEF Mutated
  <2>2. Go(e, "startNew") => Steps(e, "startNew", ex[e].own, ex[e].good)
    BY <1>1, Going DEF Locked, Mutated
  <2> QED BY <2>1, <2>2 DEF Recache
<1>3. Grows
  BY <1>1, Unchanging DEF Recache
<1>4. cache' \in Version \cup {0}
  BY <1>1, BoundsAssumption DEF Recache, TypeOK, Target, Run, Version
<1>5. TypeOK'
  <2>1. troubles' \in 0..MaxTroubles
    BY <1>1, Troubles DEF Recache
  <2> QED BY <1>1, <1>2, <1>3, <1>4, <2>1 DEF Recache, TypeOK, files, history, Grows, Steps, ExecutorRow
<1>6. SettledDataIsKept'
  BY <1>1, <1>3, Keeping DEF Recache, files, history
<1>7. Serves'
  BY <1>1 DEF Recache, Serves
<1>8. Ready(e)'
  BY <1>1, <1>2 DEF Recache, files, Steps, Works, Ready, Former, Holding, Stopped, Mutated
<1>9. Covered(e)'
  BY <1>1, <1>2, <1>3, Covering DEF Recache, files, history, Works, Returned, DataKept, TreesKept, Mutated, Back, Steps
<1>10. Programmed(e)'
  BY <1>1, <1>2 DEF Recache, Steps, Works, Programmed, Back, Target
<1> QED BY <1>1, <1>2, <1>5, <1>6, <1>7, <1>8, <1>9, <1>10, Working
        DEF Recache, files, Locked, Mutated, Works

LEMMA StartNewInv ==
  ASSUME IInv, NEW e \in Executors, StartNew(e)
  PROVE  IInv'
<1>1. /\ ~exposed /\ TypeOK /\ SettledDataIsKept /\ Serves
      /\ ex[e].pc = "startNew" /\ ex[e] \in ExecutorRow /\ ex[e].run \in Run
      /\ lock = e /\ Works(e)
  BY AtWork DEF StartNew, Locked, Mutated
<1>2. PICK pc \in {"trial", "stopNew"} : Steps(e, pc, ex[e].own, ex[e].good)
  <2>1. Fail(e) => Steps(e, "stopNew", ex[e].own, ex[e].good)
    BY <1>1, Failing DEF Mutated
  <2>2. Go(e, "trial") => Steps(e, "trial", ex[e].own, ex[e].good)
    BY <1>1, Going DEF Locked, Mutated
  <2> QED BY <2>1, <2>2 DEF StartNew
<1>3. /\ Grows /\ service' \in Version \cup {0} /\ attached' \in BOOLEAN
      /\ Serves'
  <2>1. CASE Start \/ Expire
    <3>1. /\ Grows /\ service' \in {0, program.v} /\ attached' \in BOOLEAN
          /\ service' # 0 => attached'
      BY <1>1, <2>1, Restarting
    <3> QED BY <1>1, <3>1 DEF StartNew, Serves, TypeOK
  <2>2. CASE UNCHANGED <<service, db, attached>>
    BY <1>1, <2>2, Unchanging DEF StartNew, Serves, TypeOK
  <2> QED BY <2>1, <2>2 DEF StartNew
<1>4. TypeOK'
  <2>1. troubles' \in 0..MaxTroubles
    BY <1>1, Troubles DEF StartNew
  <2> QED BY <1>1, <1>2, <1>3, <2>1 DEF StartNew, TypeOK, files, history, Grows, Steps, ExecutorRow
<1>5. SettledDataIsKept'
  BY <1>1, <1>3, Keeping DEF StartNew, files, history
<1>6. Ready(e)'
  BY <1>1, <1>2 DEF StartNew, files, Steps, Works, Ready, Former, Holding, Stopped, Mutated
<1>7. Covered(e)'
  BY <1>1, <1>2, <1>3, Covering DEF StartNew, files, history, Works, Returned, DataKept, TreesKept, Mutated, Back, Steps
<1>8. Programmed(e)'
  BY <1>1, <1>2 DEF StartNew, Steps, Works, Programmed, Back, Target
<1> QED BY <1>1, <1>2, <1>3, <1>4, <1>5, <1>6, <1>7, <1>8, Working
        DEF StartNew, files, Locked, Mutated, Works

LEMMA TrialInv ==
  ASSUME IInv, NEW e \in Executors, Trial(e)
  PROVE  IInv'
<1>1. /\ ~exposed /\ TypeOK /\ SettledDataIsKept /\ Serves
      /\ ex[e].pc = "trial" /\ ex[e] \in ExecutorRow /\ ex[e].run \in Run
      /\ lock = e /\ Works(e)
  BY AtWork DEF Trial, Locked, Mutated
<1>2. PICK pc \in {"commit", "stopNew"} :
        /\ Steps(e, pc, ex[e].own, ex[e].good)
        /\ pc = "commit" => service # 0
  <2>1. Fail(e) => Steps(e, "stopNew", ex[e].own, ex[e].good)
    BY <1>1, Failing DEF Mutated
  <2>2. Go(e, "commit") => Steps(e, "commit", ex[e].own, ex[e].good)
    BY <1>1, Going DEF Locked, Mutated
  <2>3. Healthy(Target(ex[e].run)) => service # 0
    BY <1>1 DEF Healthy, Target, Run
  <2> QED BY <2>1, <2>2, <2>3 DEF Trial, Progress
<1>3. Grows
  BY <1>1, Telling, Unchanging DEF Trial, Progress, Outcome
<1>4. TypeOK'
  <2>1. troubles' \in 0..MaxTroubles
    BY <1>1, Troubles DEF Trial, Progress
  <2> QED BY <1>1, <1>2, <1>3, <2>1 DEF Trial, TypeOK, files, history, Grows, Steps, ExecutorRow
<1>5. SettledDataIsKept'
  BY <1>1, <1>3, Keeping DEF Trial, files, history
<1>6. Serves'
  BY <1>1 DEF Trial, Serves
<1>7. Ready(e)'
  BY <1>1, <1>2 DEF Trial, files, Steps, Works, Ready, Former, Holding, Stopped, Mutated
<1>8. Covered(e)'
  BY <1>1, <1>2, <1>3, Covering DEF Trial, files, history, Works, Returned, DataKept, TreesKept, Mutated, Back, Steps
<1>9. Programmed(e)'
  BY <1>1, <1>2 DEF Trial, Steps, Works, Programmed, Back, Target
<1> QED BY <1>1, <1>2, <1>4, <1>5, <1>6, <1>7, <1>8, <1>9, Working
        DEF Trial, files, Locked, Mutated, Works

LEMMA Completing ==
  ASSUME TypeOK, NEW r \in Run,
         db' = IF Status(r) = "none" THEN db
               ELSE [Told(r, "completed") EXCEPT !.done = @ \cup {r}]
  PROVE  Grows /\ Tells(r, "completed")
<1>1. CASE Status(r) = "none"
  BY <1>1, Unchanging
<1>2. CASE Status(r) # "none"
  <2>1. db # None /\ db \in Database
    BY <1>2 DEF Status, TypeOK
  <2> DEFINE t == [db EXCEPT !.runs[r] = "completed"]
             u == [t EXCEPT !.done = @ \cup {r}]
  <2>2. /\ t \in Database /\ t.data = db.data
        /\ \A q \in Run : t.runs[q] = IF q = r THEN "completed" ELSE db.runs[q]
    BY <2>1 DEF Database, Outcome
  <2> HIDE DEF t
  <2>3. u \in Database /\ u.data = t.data /\ u.runs = t.runs
    BY <2>2 DEF Database
  <2>4. db' = u
    BY <1>2, <2>1 DEF Told, t
  <2> HIDE DEF u
  <2> QED BY <2>1, <2>2, <2>3, <2>4, NoneAssumption DEF Grows, Tells
<1> QED BY <1>1, <1>2

LEMMA CommitInv ==
  ASSUME IInv, NEW e \in Executors, Commit(e)
  PROVE  IInv'
<1>1. /\ ~exposed /\ TypeOK /\ SettledDataIsKept /\ Serves
      /\ ex[e].pc = "commit" /\ ex[e] \in ExecutorRow /\ ex[e].run \in Run
      /\ lock = e /\ Works(e)
  BY AtWork DEF Commit, Locked, Mutated
<1>2. PICK pc \in {"clean", "stopNew"} :
        /\ Steps(e, pc, ex[e].own, ex[e].good)
        /\ settled' = settled \/ pc \notin Mutated
  <2>1. Fail(e) => Steps(e, "stopNew", ex[e].own, ex[e].good)
    BY <1>1, Failing DEF Mutated
  <2>2. Go(e, "clean") => Steps(e, "clean", ex[e].own, ex[e].good)
    BY <1>1, Going DEF Locked, Mutated
  <2> QED BY <2>1, <2>2 DEF Commit, Mutated
<1>3. Grows
  BY <1>1, Completing, Unchanging DEF Commit
<1>4. /\ settled' \subseteq Item
      /\ \A i \in settled' : i \in settled \/ Live(i)
  BY <1>1 DEF Commit, TypeOK, Live
<1>5. TypeOK'
  <2>1. troubles' \in 0..MaxTroubles
    BY <1>1, Troubles DEF Commit
  <2> QED BY <1>1, <1>2, <1>3, <1>4, <2>1 DEF Commit, TypeOK, files, Grows, Steps, ExecutorRow
<1>6. SettledDataIsKept'
  <2>1. ASSUME NEW i \in settled' PROVE Live(i) \/ \E q \in Run : KeptIn(i, q)
    BY <1>1, <1>4 DEF SettledDataIsKept
  <2> QED BY <1>3, <2>1 DEF Commit, files, SettledDataIsKept, Live, KeptIn, Grows
<1>7. Serves'
  BY <1>1 DEF Commit, Serves
<1>8. Ready(e)'
  BY <1>1, <1>2 DEF Commit, files, Steps, Works, Ready, Former, Holding, Stopped, Mutated
<1>9. Covered(e)'
  BY <1>1, <1>2, <1>3, Covering DEF Commit, files, Works, Returned, DataKept, TreesKept, Mutated, Back, Steps
<1>10. Programmed(e)'
  BY <1>1, <1>2 DEF Commit, Steps, Works, Programmed, Back, Target
<1> QED BY <1>1, <1>2, <1>5, <1>6, <1>7, <1>8, <1>9, <1>10, Working
        DEF Commit, files, Locked, Mutated, Works

\* A snapshot whose contents are back may go.
LEMMA Removing ==
  ASSUME TypeOK, SettledDataIsKept, Grows, trees \subseteq trees', settled' = settled,
         NEW r \in Run, dirs' = [dirs EXCEPT ![r] = None],
         DataBack(r), TreesBack(r)
  PROVE  SettledDataIsKept'
<1>1. ASSUME NEW i, KeptIn(i, r) PROVE Live(i)
  BY <1>1 DEF KeptIn, DataBack, TreesBack, Live
<1>2. ASSUME NEW i, Live(i) PROVE Live(i)'
  BY <1>2 DEF Live, Grows
<1>3. ASSUME NEW i, NEW q \in Run \ {r}, KeptIn(i, q) PROVE KeptIn(i, q)'
  <2>1. dirs'[q] = dirs[q]
    BY DEF TypeOK
  <2> QED BY <1>3, <2>1 DEF KeptIn
<1>4. ASSUME NEW i \in settled PROVE Live(i)' \/ \E q \in Run : KeptIn(i, q)'
  <2>1. Live(i) \/ \E q \in Run : KeptIn(i, q)
    BY DEF SettledDataIsKept
  <2>2. Live(i) \/ \E q \in Run \ {r} : KeptIn(i, q)
    BY <1>1, <2>1
  <2> QED BY <1>2, <1>3, <2>2
<1> QED BY <1>4 DEF SettledDataIsKept

LEMMA CleanInv ==
  ASSUME IInv, NEW e \in Executors, Clean(e)
  PROVE  IInv'
<1>1. /\ ~exposed /\ TypeOK /\ SettledDataIsKept /\ Serves
      /\ ex[e].pc = "clean" /\ ex[e] \in ExecutorRow /\ ex[e].run \in Run
      /\ lock = e /\ Works(e)
  BY AtWork DEF Clean, Locked, Mutated
<1>2. PICK pc \in {"release", "stopNew"} :
        /\ Steps(e, pc, ex[e].own, ex[e].good)
        /\ pc = "stopNew" => exposed'
  <2>1. Go(e, "release") => Steps(e, "release", ex[e].own, ex[e].good)
    BY <1>1, Going DEF Locked
  <2>2. Go(e, "stopNew") => Steps(e, "stopNew", ex[e].own, ex[e].good)
    BY <1>1, Going DEF Locked, Mutated
  <2> QED BY <2>1, <2>2 DEF Clean
<1>3. Grows
  BY <1>1, Unchanging DEF Clean
<1>4. DataBack(ex[e].run) /\ TreesBack(ex[e].run)
  BY <1>1 DEF Works, Covered, DataKept, TreesKept
<1>5. dirs' = [dirs EXCEPT ![ex[e].run] = None] \/ dirs' = dirs
  BY DEF Clean
<1>6. dirs' \in [Run -> Directory \cup {None}]
  BY <1>1, <1>5 DEF TypeOK
<1>7. TypeOK'
  <2>1. troubles' \in 0..MaxTroubles
    BY <1>1, Troubles DEF Clean
  <2>2. spare' \in Version \cup {0} /\ exposed' \in BOOLEAN
    BY <1>1 DEF Clean, TypeOK
  <2>3. UNCHANGED <<platform, updater, program, service, trees, attached, cache,
                    lock, super, acked, settled>>
    BY DEF Clean, history
  <2> QED BY <1>1, <1>2, <1>3, <1>6, <2>1, <2>2, <2>3 DEF TypeOK, Grows, Steps, ExecutorRow
<1>8. SettledDataIsKept'
  <2>1. settled' = settled /\ trees' = trees
    BY DEF Clean, history
  <2> QED BY <1>1, <1>3, <1>4, <1>5, <2>1, Keeping, Removing
<1>9. Serves'
  BY <1>1 DEF Clean, Serves
<1>10. ~exposed' => Works(e)'
  BY <1>2 DEF Steps, Works, Ready, Covered, Programmed, Returned, Holding, Stopped,
       Mutated, DataKept, TreesKept, Back
<1> QED BY <1>1, <1>2, <1>7, <1>8, <1>9, <1>10, Working DEF Clean, Locked, Mutated

LEMMA ReleaseInv ==
  ASSUME IInv, NEW e \in Executors, Release(e)
  PROVE  IInv'
<1>1. /\ ~exposed /\ TypeOK /\ SettledDataIsKept /\ Serves
      /\ ex[e].pc = "release" /\ ex[e] \in ExecutorRow /\ ex[e].run \in Run
      /\ lock = e /\ Works(e)
  BY AtWork DEF Release, Locked, Mutated
<1>2. /\ ex' \in [Executors -> ExecutorRow]
      /\ ex'[e].pc = "idle" /\ ~ex'[e].own
      /\ \A f \in Executors \ {e} : ex'[f] = ex[f]
  BY <1>1, Exiting DEF Release
<1>3. Grows
  BY <1>1, Unchanging DEF Release, machine
<1>4. TypeOK'
  BY <1>1, <1>2, <1>3 DEF Release, TypeOK, machine, history, ExecutorRow
<1>5. SettledDataIsKept'
  BY <1>1, <1>3, Keeping DEF Release, machine, history
<1>6. Serves'
  BY <1>1 DEF Release, machine, Serves
<1> QED BY <1>1, <1>2, <1>4, <1>5, <1>6, Leaving DEF Locked

----------------------------------------------------------------------------
(* Failed before the program was touched.                                   *)

LEMMA UndoInv ==
  ASSUME IInv, NEW e \in Executors, Undo(e)
  PROVE  IInv'
<1>1. /\ ~exposed /\ TypeOK /\ SettledDataIsKept /\ Serves
      /\ ex[e].pc = "undo" /\ ex[e] \in ExecutorRow /\ ex[e].run \in Run
      /\ lock = e /\ Works(e)
  BY AtWork DEF Undo, Locked, Mutated
<1>2. PICK ok \in BOOLEAN : Steps(e, "say", ex[e].own, ok)
  <2>1. PICK ok \in BOOLEAN : ex' = [ex EXCEPT ![e].pc = "say", ![e].good = ok]
    BY DEF Undo
  <2> QED BY <1>1, <2>1, Abandoning DEF Locked
<1>3. /\ Grows /\ service' \in Version \cup {0} /\ attached' \in BOOLEAN
      /\ Serves'
  <2>1. CASE Start
    <3>1. /\ Grows /\ service' \in {0, program.v} /\ attached' \in BOOLEAN
          /\ service' # 0 => attached'
      BY <1>1, <2>1, Restarting
    <3> QED BY <1>1, <3>1 DEF Undo, Serves, TypeOK
  <2>2. CASE UNCHANGED <<service, db, attached>>
    BY <1>1, <2>2, Unchanging DEF Undo, Serves, TypeOK
  <2> QED BY <2>1, <2>2 DEF Undo
<1>4. (dirs' = [dirs EXCEPT ![ex[e].run] = None] /\ ex[e].own) \/ dirs' = dirs
  BY DEF Undo
<1>5. dirs' \in [Run -> Directory \cup {None}]
  BY <1>1, <1>4 DEF TypeOK
<1>6. TypeOK'
  <2>1. troubles' \in 0..MaxTroubles
    BY <1>1, Troubles DEF Undo
  <2> QED BY <1>1, <1>2, <1>3, <1>5, <2>1 DEF Undo, TypeOK, history, Grows, Steps, ExecutorRow
<1>7. SettledDataIsKept'
  <2>1. settled' = settled /\ trees' = trees
    BY DEF Undo, history
  <2>2. ex[e].own => DataBack(ex[e].run) /\ TreesBack(ex[e].run)
    BY <1>1 DEF Works, Covered, Returned
  <2> QED BY <1>1, <1>3, <1>4, <2>1, <2>2, Keeping, Removing
<1>8. Works(e)'
  BY <1>2 DEF Steps, Works, Ready, Covered, Programmed, Returned, Holding, Stopped,
       Mutated, DataKept, TreesKept, Back
<1> QED BY <1>1, <1>2, <1>3, <1>6, <1>7, <1>8, Working DEF Undo, Locked

LEMMA SayInv ==
  ASSUME IInv, NEW e \in Executors, Say(e)
  PROVE  IInv'
<1>1. /\ ~exposed /\ TypeOK /\ SettledDataIsKept /\ Serves
      /\ ex[e].pc = "say" /\ ex[e] \in ExecutorRow /\ ex[e].run \in Run
      /\ lock = e /\ Works(e)
  BY AtWork DEF Say, Locked, Mutated
<1>2. Steps(e, "release", ex[e].own, ex[e].good)
  BY <1>1, Going DEF Say, Locked
<1>3. Grows
  BY <1>1, Telling, Unchanging DEF Say, Outcome
<1>4. TypeOK'
  <2>1. troubles' \in 0..MaxTroubles
    BY <1>1, Troubles DEF Say
  <2> QED BY <1>1, <1>2, <1>3, <2>1 DEF Say, TypeOK, files, history, Grows, Steps, ExecutorRow
<1>5. SettledDataIsKept'
  BY <1>1, <1>3, Keeping DEF Say, files, history
<1>6. Serves'
  BY <1>1 DEF Say, Serves
<1>7. Works(e)'
  BY <1>2 DEF Steps, Works, Ready, Covered, Programmed, Returned, Holding, Stopped,
       Mutated, DataKept, TreesKept, Back
<1> QED BY <1>1, <1>2, <1>4, <1>5, <1>6, <1>7, Working DEF Say, files, Locked

----------------------------------------------------------------------------
(* The way back.                                                            *)

LEMMA StopNewInv ==
  ASSUME IInv, NEW e \in Executors, StopNew(e)
  PROVE  IInv'
<1>1. /\ ~exposed /\ TypeOK /\ SettledDataIsKept /\ Serves
      /\ ex[e].pc = "stopNew" /\ ex[e] \in ExecutorRow /\ ex[e].run \in Run
      /\ lock = e /\ Works(e)
  BY AtWork DEF StopNew, Locked, Mutated
<1>2. PICK pc \in {"reinstall", "release"} : Steps(e, pc, ex[e].own, ex[e].good)
  BY <1>1, Going DEF StopNew, Locked, Mutated
<1>3. service' \in {0, service} /\ ex'[e].pc = pc
  BY <1>2 DEF StopNew, Steps
<1>4. Grows
  BY <1>1, Unchanging DEF StopNew
<1>5. TypeOK'
  <2>1. troubles' \in 0..MaxTroubles
    BY <1>1, Troubles DEF StopNew
  <2>2. exposed' \in BOOLEAN
    BY DEF StopNew
  <2> QED BY <1>1, <1>2, <1>3, <1>4, <2>1, <2>2 DEF StopNew, TypeOK, files, history, Grows, Steps, ExecutorRow
<1>6. SettledDataIsKept'
  BY <1>1, <1>4, Keeping DEF StopNew, files, history
<1>7. Serves'
  BY <1>1, <1>3 DEF StopNew, Serves
<1>8. ~exposed' => Ready(e)'
  BY <1>1, <1>2, <1>3 DEF StopNew, files, Steps, Works, Ready, Former, Holding, Stopped, Mutated
<1>9. Covered(e)'
  BY <1>1, <1>2, <1>4, Covering DEF StopNew, files, history, Works, Returned, DataKept, TreesKept, Mutated, Back, Steps
<1>10. Programmed(e)'
  BY <1>1, <1>2 DEF Steps, Programmed, Back
<1> QED BY <1>1, <1>2, <1>5, <1>6, <1>7, <1>8, <1>9, <1>10, Working
        DEF StopNew, files, Locked, Mutated, Works

LEMMA ReinstallInv ==
  ASSUME IInv, NEW e \in Executors, Reinstall(e)
  PROVE  IInv'
<1>1. /\ ~exposed /\ TypeOK /\ SettledDataIsKept /\ Serves
      /\ ex[e].pc = "reinstall" /\ ex[e] \in ExecutorRow /\ ex[e].run \in Run
      /\ lock = e /\ Works(e)
  BY AtWork DEF Reinstall, Locked, Mutated
<1>2. Former(e) \in Version /\ service = 0
  BY <1>1 DEF Works, Ready, Holding, Mutated, Stopped
<1>3. PICK pc \in {"dbAway", "report"}, good \in BOOLEAN, b \in BOOLEAN :
        /\ Steps(e, pc, ex[e].own, good)
        /\ program' = program \/ program' = [v |-> Former(e), ok |-> b]
        /\ good => program' = [v |-> Former(e), ok |-> TRUE] /\ pc = "dbAway"
  <2>1. PICK pc \in {"dbAway", "report"}, good \in BOOLEAN, b \in BOOLEAN :
        /\ ex' = [ex EXCEPT ![e].pc = pc, ![e].good = good]
        /\ program' = program \/ program' = [v |-> Former(e), ok |-> b]
        /\ good => program' = [v |-> Former(e), ok |-> TRUE] /\ pc = "dbAway"
    BY DEF Reinstall, Abandon
  <2> QED BY <1>1, <2>1, Abandoning DEF Locked, Mutated
<1>4. Grows
  BY <1>1, Unchanging DEF Reinstall
<1>5. program' \in [v : Version, ok : BOOLEAN] /\ (good => program'.ok)
  BY <1>1, <1>2, <1>3, Programs DEF TypeOK
<1>6. TypeOK'
  <2>1. troubles' \in 0..MaxTroubles
    BY <1>1, Troubles DEF Reinstall
  <2> QED BY <1>1, <1>3, <1>4, <1>5, <2>1 DEF Reinstall, TypeOK, files, history, Grows, Steps, ExecutorRow
<1>7. SettledDataIsKept'
  BY <1>1, <1>4, Keeping DEF Reinstall, files, history
<1>8. Serves'
  BY <1>2 DEF Reinstall, Serves
<1>9. Ready(e)'
  BY <1>1, <1>2, <1>3 DEF Reinstall, files, Steps, Works, Ready, Former, Holding, Stopped, Mutated
<1>10. Covered(e)'
  BY <1>1, <1>3, <1>4, Covering DEF Reinstall, files, history, Works, Returned, DataKept, TreesKept, Mutated, Back, Steps
<1>11. Programmed(e)'
  BY <1>3, <1>5 DEF Steps, Programmed, Back
<1> QED BY <1>1, <1>3, <1>6, <1>7, <1>8, <1>9, <1>10, <1>11, Working
        DEF Reinstall, files, Locked, Mutated, Works

\* While the live data are away, what is settled is in snapshots.
LEMMA Sheltering ==
  ASSUME NEW e \in Executors, Covered(e), ex[e].pc \in Mutated,
         UNCHANGED <<dirs, settled>>
  PROVE  SettledDataIsKept' /\ \A i \in settled' : KeptSomewhere(i)'
BY DEF Covered, KeptSomewhere, KeptIn, SettledDataIsKept

LEMMA DbAwayInv ==
  ASSUME IInv, NEW e \in Executors, DbAway(e)
  PROVE  IInv'
<1>1. /\ ~exposed /\ TypeOK /\ SettledDataIsKept /\ Serves
      /\ ex[e].pc = "dbAway" /\ ex[e] \in ExecutorRow /\ ex[e].run \in Run
      /\ lock = e /\ Works(e)
  BY AtWork DEF DbAway, Locked, Mutated
<1>2. service = 0 /\ Covered(e) /\ TreesBack(ex[e].run)
  BY <1>1 DEF Works, Ready, Stopped, Covered, TreesKept, DataKept
<1>3. SettledDataIsKept' /\ \A i \in settled' : KeptSomewhere(i)'
  BY <1>1, <1>2, Sheltering DEF DbAway, files, history, Mutated
<1>4. CASE Quiet /\ ex' = [ex EXCEPT ![e].pc = "dbPut", ![e].held = db]
           /\ db' = None /\ attached' = FALSE
  <2>1. Steps(e, "dbPut", ex[e].own, ex[e].good)
    <3>1. ex \in [Executors -> ExecutorRow] /\ db \in Database \cup {None}
      BY <1>1 DEF TypeOK, ExecutorRow
    <3>2. [ex[e] EXCEPT !.pc = "dbPut", !.held = db] \in ExecutorRow
      <4>1. "dbPut" \in Before \cup Locked
        BY DEF Locked, Mutated
      <4> QED BY <3>1, <4>1 DEF ExecutorRow
    <3>3. ex' = [ex EXCEPT ![e] = [ex[e] EXCEPT !.pc = "dbPut", !.held = db]]
      BY <1>4, <3>1 DEF ExecutorRow
    <3>4. ex'[e] = [ex[e] EXCEPT !.pc = "dbPut", !.held = db]
          /\ \A f \in Executors \ {e} : ex'[f] = ex[f]
      BY <3>1, <3>3
    <3>5. ex' \in [Executors -> ExecutorRow]
      BY <3>1, <3>2, <3>3
    <3> QED BY <1>1, <3>4, <3>5 DEF Steps, ExecutorRow
  <2>2. TypeOK'
    BY <1>1, <1>4, <2>1 DEF DbAway, TypeOK, files, history, Steps, ExecutorRow, Quiet
  <2>3. Serves'
    BY <1>2 DEF DbAway, Serves
  <2>4. Ready(e)'
    BY <1>1, <1>4, <2>1 DEF DbAway, files, Steps, Works, Ready, Former, Holding, Stopped, Mutated
  <2>5. Covered(e)'
    BY <1>2, <1>3, <2>1 DEF DbAway, files, Steps, Covered, Returned, DataKept, TreesKept, Back, TreesBack
  <2>6. Programmed(e)'
    BY <1>1, <2>1 DEF DbAway, Steps, Works, Programmed, Back
  <2> QED BY <1>1, <1>3, <2>1, <2>2, <2>3, <2>4, <2>5, <2>6, Working
          DEF DbAway, files, Locked, Mutated, Works
<1>5. CASE Trouble /\ Abandon(e) /\ UNCHANGED <<db, attached>>
  <2>1. Steps(e, "report", ex[e].own, FALSE)
    BY <1>1, <1>5, Abandoning DEF Abandon, Locked, Mutated
  <2>2. TypeOK'
    BY <1>1, <1>5, <2>1, Troubles DEF DbAway, TypeOK, files, history, Steps, ExecutorRow
  <2>3. Serves'
    BY <1>2 DEF DbAway, Serves
  <2>4. Ready(e)'
    BY <1>1, <2>1 DEF DbAway, files, Steps, Works, Ready, Former, Holding, Stopped, Mutated
  <2>5. Covered(e)' /\ Programmed(e)'
    BY <1>3, <2>1 DEF Steps, Covered, Returned, DataKept, TreesKept, Back, Programmed
  <2> QED BY <1>1, <1>3, <2>1, <2>2, <2>3, <2>4, <2>5, Working
          DEF DbAway, files, Locked, Mutated, Works
<1> QED BY <1>4, <1>5 DEF DbAway

LEMMA DbPutInv ==
  ASSUME IInv, NEW e \in Executors, DbPut(e)
  PROVE  IInv'
<1>1. /\ ~exposed /\ TypeOK /\ SettledDataIsKept /\ Serves
      /\ ex[e].pc = "dbPut" /\ ex[e] \in ExecutorRow /\ ex[e].run \in Run
      /\ lock = e /\ Works(e)
  BY AtWork DEF DbPut, Locked, Mutated
<1>2. service = 0 /\ Covered(e) /\ dirs[ex[e].run] # None
  BY <1>1 DEF Works, Ready, Stopped, Holding, Mutated
<1>3. dirs[ex[e].run].db \in Database \cup {None}
  BY <1>1, <1>2 DEF TypeOK, Directory
<1>4. SettledDataIsKept' /\ \A i \in settled' : KeptSomewhere(i)'
  BY <1>1, <1>2, Sheltering DEF DbPut, files, history, Mutated
<1>5. ASSUME NEW pc \in {"wipe", "report"}, NEW good \in BOOLEAN,
             ex' = [ex EXCEPT ![e] = [ex[e] EXCEPT !.pc = pc, !.good = good, !.held = None]]
      PROVE  Steps(e, pc, ex[e].own, good)
  <2>1. ex \in [Executors -> ExecutorRow]
    BY <1>1 DEF TypeOK, ExecutorRow
  <2>2. [ex[e] EXCEPT !.pc = pc, !.good = good, !.held = None] \in ExecutorRow
    <3>1. pc \in Before \cup Locked
      BY DEF Locked, Mutated
    <3> QED BY <2>1, <3>1 DEF ExecutorRow
  <2>3. ex'[e] = [ex[e] EXCEPT !.pc = pc, !.good = good, !.held = None]
        /\ \A f \in Executors \ {e} : ex'[f] = ex[f]
    BY <1>5, <2>1
  <2>4. ex' \in [Executors -> ExecutorRow]
    BY <1>5, <2>1, <2>2
  <2> QED BY <1>1, <2>3, <2>4 DEF Steps, ExecutorRow
<1>6. CASE /\ db' = dirs[ex[e].run].db /\ Quiet
           /\ ex' = [ex EXCEPT ![e].pc = "wipe", ![e].held = None]
  <2>1. Steps(e, "wipe", ex[e].own, ex[e].good)
    <3>1. ex[e].good \in BOOLEAN
      BY <1>1 DEF ExecutorRow
    <3>2. ex \in [Executors -> ExecutorRow] /\ ex[e] \in ExecutorRow
      BY <1>1 DEF TypeOK, ExecutorRow
    <3>3. [ex[e] EXCEPT !.pc = "wipe", !.held = None]
            = [ex[e] EXCEPT !.pc = "wipe", !.good = ex[e].good, !.held = None]
      BY <3>2 DEF ExecutorRow
    <3>4. ex' = [ex EXCEPT ![e] = [ex[e] EXCEPT !.pc = "wipe", !.held = None]]
      BY <1>6, <3>2
    <3>5. ex' = [ex EXCEPT ![e] =
                   [ex[e] EXCEPT !.pc = "wipe", !.good = ex[e].good, !.held = None]]
      BY <3>3, <3>4
    <3> QED BY <1>5, <3>1, <3>5
  <2>2. TypeOK'
    BY <1>1, <1>3, <1>6, <2>1 DEF DbPut, TypeOK, files, history, Steps, ExecutorRow, Quiet
  <2>3. Serves'
    BY <1>2 DEF DbPut, Serves
  <2>4. Ready(e)'
    BY <1>1, <1>6, <2>1 DEF DbPut, files, Steps, Works, Ready, Former, Holding, Stopped, Mutated
  <2>5. DataBack(ex[e].run)'
    BY <1>2, <1>6, <2>1 DEF DbPut, files, Steps, DataBack
  <2>6. Covered(e)'
    BY <1>4, <2>1, <2>5 DEF Steps, Covered, Returned, TreesKept, DataKept, Back
  <2>7. Programmed(e)'
    BY <1>1, <2>1 DEF DbPut, Steps, Works, Programmed, Back
  <2> QED BY <1>1, <1>4, <2>1, <2>2, <2>3, <2>4, <2>6, <2>7, Working
          DEF DbPut, files, Locked, Mutated, Works
<1>7. CASE /\ db' = ex[e].held /\ Trouble
           /\ ex' = [ex EXCEPT ![e].pc = "report", ![e].good = FALSE, ![e].held = None]
  <2>1. Steps(e, "report", ex[e].own, FALSE)
    <3>1. ex \in [Executors -> ExecutorRow]
      BY <1>1 DEF TypeOK, ExecutorRow
    <3>2. ex' = [ex EXCEPT ![e] = [ex[e] EXCEPT !.pc = "report", !.good = FALSE, !.held = None]]
      BY <1>7, <3>1 DEF ExecutorRow
    <3> QED BY <1>5, <3>2
  <2>2. db' \in Database \cup {None}
    BY <1>1, <1>7 DEF ExecutorRow
  <2>3. TypeOK'
    BY <1>1, <1>7, <2>1, <2>2, Troubles DEF DbPut, TypeOK, files, history, Steps, ExecutorRow
  <2>4. Serves'
    BY <1>2 DEF DbPut, Serves
  <2>5. Ready(e)'
    BY <1>1, <2>1 DEF DbPut, files, Steps, Works, Ready, Former, Holding, Stopped, Mutated
  <2>6. Covered(e)' /\ Programmed(e)'
    BY <1>4, <2>1 DEF Steps, Covered, Returned, DataKept, TreesKept, Back, Programmed
  <2> QED BY <1>1, <1>4, <2>1, <2>3, <2>4, <2>5, <2>6, Working
          DEF DbPut, files, Locked, Mutated, Works
<1> QED BY <1>6, <1>7 DEF DbPut

LEMMA WipeInv ==
  ASSUME IInv, NEW e \in Executors, Wipe(e)
  PROVE  IInv'
<1>1. /\ ~exposed /\ TypeOK /\ SettledDataIsKept /\ Serves
      /\ ex[e].pc = "wipe" /\ ex[e] \in ExecutorRow /\ ex[e].run \in Run
      /\ lock = e /\ Works(e)
  BY AtWork DEF Wipe, Locked, Mutated
<1>2. service = 0 /\ Covered(e) /\ DataBack(ex[e].run)
  BY <1>1 DEF Works, Ready, Stopped, Covered, DataKept
<1>3. PICK pc \in {"copy", "report"}, good \in BOOLEAN :
        Steps(e, pc, ex[e].own, good) /\ (good => ex[e].good /\ pc = "copy")
  <2>1. Go(e, "copy") => Steps(e, "copy", ex[e].own, ex[e].good)
    BY <1>1, Going DEF Locked, Mutated
  <2>2. Abandon(e) => Steps(e, "report", ex[e].own, FALSE)
    BY <1>1, Abandoning DEF Abandon, Locked, Mutated
  <2>3. ex[e].good \in BOOLEAN
    BY <1>1 DEF ExecutorRow
  <2> QED BY <2>1, <2>2, <2>3 DEF Wipe
<1>4. SettledDataIsKept' /\ \A i \in settled' : KeptSomewhere(i)'
  BY <1>1, <1>2, Sheltering DEF Wipe, files, history, Mutated
<1>5. TypeOK'
  <2>1. troubles' \in 0..MaxTroubles /\ trees' \subseteq Item
    BY <1>1, Troubles DEF Wipe, TypeOK
  <2> QED BY <1>1, <1>3, <2>1 DEF Wipe, TypeOK, files, history, Steps, ExecutorRow
<1>6. Serves'
  BY <1>2 DEF Wipe, Serves
<1>7. Ready(e)'
  BY <1>1, <1>3 DEF Wipe, files, Steps, Works, Ready, Former, Holding, Stopped, Mutated
<1>8. DataBack(ex[e].run)'
  BY <1>2, <1>3 DEF Wipe, files, Steps, DataBack
<1>9. Covered(e)'
  BY <1>3, <1>4, <1>8 DEF Steps, Covered, Returned, TreesKept, DataKept, Back
<1>10. Programmed(e)'
  BY <1>1, <1>3 DEF Wipe, Steps, Works, Programmed, Back
<1> QED BY <1>1, <1>3, <1>4, <1>5, <1>6, <1>7, <1>9, <1>10, Working
        DEF Wipe, files, Locked, Mutated, Works

LEMMA CopyInv ==
  ASSUME IInv, NEW e \in Executors, Copy(e)
  PROVE  IInv'
<1>1. /\ ~exposed /\ TypeOK /\ SettledDataIsKept /\ Serves
      /\ ex[e].pc = "copy" /\ ex[e] \in ExecutorRow /\ ex[e].run \in Run
      /\ lock = e /\ Works(e)
  BY AtWork DEF Copy, Locked, Mutated
<1>2. /\ service = 0 /\ Covered(e) /\ DataBack(ex[e].run)
      /\ dirs[ex[e].run] # None
  BY <1>1 DEF Works, Ready, Stopped, Covered, DataKept, Holding, Mutated
<1>3. dirs[ex[e].run].trees \subseteq Item
  BY <1>1, <1>2 DEF TypeOK, Directory
<1>4. PICK pc \in {"startOld", "report"}, good \in BOOLEAN :
        /\ Steps(e, pc, ex[e].own, good)
        /\ good => ex[e].good /\ pc = "startOld" /\ trees' = dirs[ex[e].run].trees
  <2>1. Go(e, "startOld") => Steps(e, "startOld", ex[e].own, ex[e].good)
    BY <1>1, Going DEF Locked, Mutated
  <2>2. Abandon(e) => Steps(e, "report", ex[e].own, FALSE)
    BY <1>1, Abandoning DEF Abandon, Locked, Mutated
  <2>3. ex[e].good \in BOOLEAN
    BY <1>1 DEF ExecutorRow
  <2> QED BY <2>1, <2>2, <2>3 DEF Copy
<1>5. SettledDataIsKept' /\ \A i \in settled' : KeptSomewhere(i)'
  BY <1>1, <1>2, Sheltering DEF Copy, files, history, Mutated
<1>6. TypeOK'
  <2>1. troubles' \in 0..MaxTroubles /\ trees' \subseteq Item
    BY <1>1, <1>3, Troubles DEF Copy, TypeOK
  <2> QED BY <1>1, <1>4, <2>1 DEF Copy, TypeOK, files, history, Steps, ExecutorRow
<1>7. Serves'
  BY <1>2 DEF Copy, Serves
<1>8. Ready(e)'
  BY <1>1, <1>4 DEF Copy, files, Steps, Works, Ready, Former, Holding, Stopped, Mutated
<1>9. DataBack(ex[e].run)' /\ (good => TreesBack(ex[e].run)')
  BY <1>2, <1>4 DEF Copy, files, Steps, DataBack, TreesBack
<1>10. Covered(e)'
  BY <1>4, <1>5, <1>9 DEF Steps, Covered, Returned, TreesKept, DataKept, Back
<1>11. Programmed(e)'
  BY <1>1, <1>4 DEF Copy, Steps, Works, Programmed, Back
<1> QED BY <1>1, <1>4, <1>5, <1>6, <1>7, <1>8, <1>10, <1>11, Working
        DEF Copy, files, Locked, Mutated, Works

LEMMA StartOldInv ==
  ASSUME IInv, NEW e \in Executors, StartOld(e)
  PROVE  IInv'
<1>1. /\ ~exposed /\ TypeOK /\ SettledDataIsKept /\ Serves
      /\ ex[e].pc = "startOld" /\ ex[e] \in ExecutorRow /\ ex[e].run \in Run
      /\ lock = e /\ Works(e)
  BY AtWork DEF StartOld, Locked, Mutated
<1>2. PICK pc \in {"trialOld", "stopOld", "report"}, good \in BOOLEAN :
        /\ Steps(e, pc, ex[e].own, good)
        /\ good => ex[e].good /\ pc # "report"
        /\ pc = "trialOld" => good
  <2>1. Go(e, "trialOld") => Steps(e, "trialOld", ex[e].own, ex[e].good)
    BY <1>1, Going DEF Locked, Mutated
  <2>2. Go(e, "stopOld") => Steps(e, "stopOld", ex[e].own, ex[e].good)
    BY <1>1, Going DEF Locked, Mutated
  <2>3. Go(e, "report") => Steps(e, "report", ex[e].own, ex[e].good)
    BY <1>1, Going DEF Locked, Mutated
  <2>4. Abandon(e) => Steps(e, "report", ex[e].own, FALSE)
    BY <1>1, Abandoning DEF Abandon, Locked, Mutated
  <2>5. ex[e].good \in BOOLEAN
    BY <1>1 DEF ExecutorRow
  <2> QED BY <2>1, <2>2, <2>3, <2>4, <2>5 DEF StartOld
<1>3. /\ Grows /\ service' \in Version \cup {0} /\ attached' \in BOOLEAN
      /\ Serves'
  <2>1. CASE Start \/ Expire
    <3>1. /\ Grows /\ service' \in {0, program.v} /\ attached' \in BOOLEAN
          /\ service' # 0 => attached'
      BY <1>1, <2>1, Restarting
    <3> QED BY <1>1, <3>1 DEF StartOld, Serves, TypeOK
  <2>2. CASE UNCHANGED <<service, db, attached>>
    BY <1>1, <2>2, Unchanging DEF StartOld, Serves, TypeOK
  <2> QED BY <2>1, <2>2 DEF StartOld
<1>4. TypeOK'
  <2>1. troubles' \in 0..MaxTroubles
    BY <1>1, Troubles DEF StartOld
  <2>2. Former(e) \in Version
    BY <1>1 DEF Works, Ready, Holding, Mutated
  <2>3. cache' \in Version \cup {0}
    BY <1>1, <2>2 DEF StartOld, TypeOK
  <2> QED BY <1>1, <1>2, <1>3, <2>1, <2>3 DEF StartOld, TypeOK, files, history, Grows, Steps, ExecutorRow
<1>5. SettledDataIsKept'
  BY <1>1, <1>3, Keeping DEF StartOld, files, history
<1>6. Ready(e)'
  BY <1>1, <1>2 DEF StartOld, files, Steps, Works, Ready, Former, Holding, Stopped, Mutated
<1>7. Covered(e)'
  <2>1. Covered(e) /\ UNCHANGED dirs /\ trees \subseteq trees' /\ settled' = settled
    BY <1>1 DEF StartOld, files, history, Works
  <2>2. pc \notin DataKept /\ pc \notin TreesKept
    BY <1>2 DEF DataKept, TreesKept
  <2>3. Returned(e)' => Returned(e)
    BY <1>1, <1>2 DEF Steps, Returned, Back
  <2> QED BY <1>1, <1>2, <1>3, <2>1, <2>2, <2>3, Covering DEF Mutated
<1>8. Programmed(e)'
  BY <1>1, <1>2 DEF StartOld, Steps, Works, Programmed, Back
<1> QED BY <1>1, <1>2, <1>3, <1>4, <1>5, <1>6, <1>7, <1>8, Working
        DEF StartOld, files, Locked, Mutated, Works

LEMMA TrialOldInv ==
  ASSUME IInv, NEW e \in Executors, TrialOld(e)
  PROVE  IInv'
<1>1. /\ ~exposed /\ TypeOK /\ SettledDataIsKept /\ Serves
      /\ ex[e].pc = "trialOld" /\ ex[e] \in ExecutorRow /\ ex[e].run \in Run
      /\ lock = e /\ Works(e)
  BY AtWork DEF TrialOld, Locked, Mutated
<1>2. PICK pc \in {"report", "stopOld"} :
        /\ Steps(e, pc, ex[e].own, ex[e].good)
        /\ pc = "report" => service # 0
  <2>1. Go(e, "report") => Steps(e, "report", ex[e].own, ex[e].good)
    BY <1>1, Going DEF Locked, Mutated
  <2>2. Go(e, "stopOld") => Steps(e, "stopOld", ex[e].own, ex[e].good)
    BY <1>1, Going DEF Locked, Mutated
  <2>3. Healthy(ex[e].prev) => service # 0
    BY <1>1 DEF Healthy, ExecutorRow, Version
  <2> QED BY <2>1, <2>2, <2>3 DEF TrialOld
<1>3. Grows
  BY <1>1, Unchanging DEF TrialOld, machine
<1>4. TypeOK'
  <2>1. troubles' \in 0..MaxTroubles
    BY <1>1, Troubles DEF TrialOld
  <2> QED BY <1>1, <1>2, <2>1 DEF TrialOld, TypeOK, machine, files, history, Steps, ExecutorRow
<1>5. SettledDataIsKept'
  BY <1>1, <1>3, Keeping DEF TrialOld, machine, files, history
<1>6. Serves'
  BY <1>1 DEF TrialOld, machine, Serves
<1>7. Ready(e)'
  BY <1>1, <1>2 DEF TrialOld, machine, files, Steps, Works, Ready, Former, Holding, Stopped, Mutated
<1>8. Covered(e)'
  <2>1. Covered(e) /\ UNCHANGED dirs /\ trees \subseteq trees' /\ settled' = settled
    BY <1>1 DEF TrialOld, machine, files, history, Works
  <2>2. pc \notin DataKept /\ pc \notin TreesKept
    BY <1>2 DEF DataKept, TreesKept
  <2>3. Returned(e)' => Returned(e)
    BY <1>1, <1>2 DEF Steps, Returned, Back
  <2> QED BY <1>1, <1>2, <1>3, <2>1, <2>2, <2>3, Covering DEF Mutated
<1>9. Programmed(e)'
  BY <1>1, <1>2 DEF TrialOld, machine, Steps, Works, Programmed, Back
<1> QED BY <1>1, <1>2, <1>4, <1>5, <1>6, <1>7, <1>8, <1>9, Working
        DEF TrialOld, files, Locked, Mutated, Works

LEMMA StopOldInv ==
  ASSUME IInv, NEW e \in Executors, StopOld(e)
  PROVE  IInv'
<1>1. /\ ~exposed /\ TypeOK /\ SettledDataIsKept /\ Serves
      /\ ex[e].pc = "stopOld" /\ ex[e] \in ExecutorRow /\ ex[e].run \in Run
      /\ lock = e /\ Works(e)
  BY AtWork DEF StopOld, Locked, Mutated
<1>2. Steps(e, "report", ex[e].own, FALSE)
  BY <1>1, Abandoning DEF StopOld, Abandon, Locked, Mutated
<1>3. service' \in {0, service} /\ Grows
  BY <1>1, Unchanging DEF StopOld
<1>4. TypeOK'
  <2>1. troubles' \in 0..MaxTroubles
    BY <1>1, Troubles DEF StopOld
  <2> QED BY <1>1, <1>2, <1>3, <2>1 DEF StopOld, TypeOK, files, history, Grows, Steps, ExecutorRow
<1>5. SettledDataIsKept'
  BY <1>1, <1>3, Keeping DEF StopOld, files, history
<1>6. Serves'
  BY <1>1, <1>3 DEF StopOld, Serves
<1>7. Ready(e)'
  BY <1>1, <1>2 DEF StopOld, files, Steps, Works, Ready, Former, Holding, Stopped, Mutated
<1>8. Covered(e)' /\ Programmed(e)'
  <2>1. Covered(e) /\ ~Returned(e)' /\ UNCHANGED dirs /\ trees \subseteq trees' /\ settled' = settled
    BY <1>1, <1>2 DEF StopOld, files, history, Works, Steps, Returned
  <2>2. Covered(e)'
    BY <1>1, <1>2, <1>3, <2>1, Covering DEF DataKept, TreesKept, Mutated
  <2> QED BY <1>2, <2>2 DEF Steps, Programmed, Back
<1> QED BY <1>1, <1>2, <1>4, <1>5, <1>6, <1>7, <1>8, Working
        DEF StopOld, files, Locked, Mutated, Works

LEMMA ReportInv ==
  ASSUME IInv, NEW e \in Executors, Report(e)
  PROVE  IInv'
<1>1. /\ ~exposed /\ TypeOK /\ SettledDataIsKept /\ Serves
      /\ ex[e].pc = "report" /\ ex[e] \in ExecutorRow /\ ex[e].run \in Run
      /\ lock = e /\ Works(e)
  BY AtWork DEF Report, Locked, Mutated
<1>2. PICK pc \in {"discard", "release"} :
        /\ Steps(e, pc, ex[e].own, ex[e].good)
        /\ pc = "discard" => ex[e].good
  <2>1. Go(e, "discard") => Steps(e, "discard", ex[e].own, ex[e].good)
    BY <1>1, Going DEF Locked, Mutated
  <2>2. Go(e, "release") => Steps(e, "release", ex[e].own, ex[e].good)
    BY <1>1, Going DEF Locked, Mutated
  <2> QED BY <2>1, <2>2 DEF Report
<1>3. Grows
  BY <1>1, Telling, Unchanging DEF Report, Outcome
<1>4. TypeOK'
  <2>1. troubles' \in 0..MaxTroubles
    BY <1>1, Troubles DEF Report
  <2> QED BY <1>1, <1>2, <1>3, <2>1 DEF Report, TypeOK, files, history, Grows, Steps, ExecutorRow
<1>5. SettledDataIsKept'
  BY <1>1, <1>3, Keeping DEF Report, files, history
<1>6. Serves'
  BY <1>1 DEF Report, Serves
<1>7. Ready(e)' /\ Programmed(e)'
  BY <1>2 DEF Steps, Ready, Programmed, Holding, Stopped, Mutated, Back
<1>8. Covered(e)'
  <2>1. Covered(e) /\ UNCHANGED dirs /\ trees \subseteq trees' /\ settled' = settled
    BY <1>1 DEF Report, files, history, Works
  <2>2. ~Returned(e)' /\ (pc = "discard" => Returned(e)) /\ pc \notin Mutated
    BY <1>1, <1>2 DEF Steps, Returned, Back, Mutated
  <2> QED BY <1>1, <1>2, <1>3, <2>1, <2>2, Covering DEF DataKept, TreesKept
<1> QED BY <1>1, <1>2, <1>4, <1>5, <1>6, <1>7, <1>8, Working
        DEF Report, files, Locked, Mutated, Works

LEMMA DiscardInv ==
  ASSUME IInv, NEW e \in Executors, Discard(e)
  PROVE  IInv'
<1>1. /\ ~exposed /\ TypeOK /\ SettledDataIsKept /\ Serves
      /\ ex[e].pc = "discard" /\ ex[e] \in ExecutorRow /\ ex[e].run \in Run
      /\ lock = e /\ Works(e)
  BY AtWork DEF Discard, Locked, Mutated
<1>2. Steps(e, "release", ex[e].own, ex[e].good)
  BY <1>1, Going DEF Discard, Locked
<1>3. Grows
  BY <1>1, Unchanging DEF Discard
<1>4. DataBack(ex[e].run) /\ TreesBack(ex[e].run)
  BY <1>1 DEF Works, Covered, DataKept, TreesKept
<1>5. dirs' = [dirs EXCEPT ![ex[e].run] = None] \/ dirs' = dirs
  BY DEF Discard
<1>6. dirs' \in [Run -> Directory \cup {None}]
  BY <1>1, <1>5 DEF TypeOK
<1>7. TypeOK'
  <2>1. troubles' \in 0..MaxTroubles
    BY <1>1, Troubles DEF Discard
  <2> QED BY <1>1, <1>2, <1>3, <1>6, <2>1 DEF Discard, TypeOK, history, Grows, Steps, ExecutorRow
<1>8. SettledDataIsKept'
  <2>1. settled' = settled /\ trees' = trees
    BY DEF Discard, history
  <2> QED BY <1>1, <1>3, <1>4, <1>5, <2>1, Keeping, Removing
<1>9. Serves'
  BY <1>1 DEF Discard, Serves
<1>10. Works(e)'
  BY <1>2 DEF Steps, Works, Ready, Covered, Programmed, Returned, Holding, Stopped,
       Mutated, DataKept, TreesKept, Back
<1>11. lock' = lock /\ "release" \in Locked /\ ex[e].pc \in Locked
  BY <1>1 DEF Discard, Locked
<1> QED BY <1>1, <1>2, <1>7, <1>8, <1>9, <1>10, <1>11, Working

----------------------------------------------------------------------------
(* Crashes.                                                                 *)

LEMMA CrashInv ==
  ASSUME IInv, NEW e \in Executors, Crash(e)
  PROVE  IInv'
<1>1. /\ ~exposed /\ TypeOK /\ SettledDataIsKept /\ Serves
      /\ \A f \in Executors : ex[f].pc \in Locked => lock = f
      /\ ex[e].pc \notin {"idle", "zombie"} /\ ex[e] \in ExecutorRow
  BY Unexposed DEF Crash, Followed, TypeOK, ExecutorRow
<1>2. Grows /\ Empty /\ troubles' \in 0..MaxTroubles
  BY <1>1, Unchanging, Troubles DEF Crash, machine
<1>3. Go(e, "zombie") \/ Exit(e)
  BY DEF Crash
<1>4. lock' \in {lock, "off"} /\ (lock' # lock => lock = e)
  BY DEF Crash
<1>5. CASE ex[e].pc \in Locked
  <2>1. /\ ex' \in [Executors -> ExecutorRow]
        /\ ex'[e].pc \in {"idle", "zombie"} /\ (ex'[e].pc = "idle" => ~ex'[e].own)
        /\ ex'[e].pc = "zombie" => ex'[e].run = ex[e].run
        /\ \A f \in Executors \ {e} : ex'[f] = ex[f]
    <3>1. CASE Go(e, "zombie")
      <4>1. Steps(e, "zombie", ex[e].own, ex[e].good)
        BY <1>1, <3>1, Going DEF Before
      <4> QED BY <4>1 DEF Steps
    <3>2. CASE Exit(e)
      BY <1>1, <3>2, Exiting
    <3> QED BY <1>3, <3>1, <3>2
  <2>2. TypeOK'
    BY <1>1, <1>2, <1>4, <2>1 DEF Crash, TypeOK, machine, history, ExecutorRow
  <2>3. SettledDataIsKept'
    BY <1>1, <1>2, Keeping DEF Crash, machine, history
  <2>4. Serves'
    BY <1>1 DEF Crash, machine, Serves
  <2> QED BY <1>1, <1>5, <2>1, <2>2, <2>3, <2>4, Leaving
<1>6. CASE ex[e].pc \notin Locked
  <2>1. ex[e].pc \in Before \ {"idle", "zombie"}
    BY <1>1, <1>6 DEF ExecutorRow
  <2>2. /\ ex' \in [Executors -> ExecutorRow]
        /\ \A f \in Executors :
              \/ ex'[f] = ex[f]
              \/ ex[f].pc \notin Locked /\ ex'[f].pc \notin Locked /\ Placed(f)'
    BY <1>1, <1>3, <2>1, Approaching DEF Before
  <2>3. TypeOK'
    BY <1>1, <1>2, <1>4, <2>2 DEF Crash, TypeOK, machine, history, ExecutorRow
  <2>4. lock' = lock \/ \A f \in Executors : ex[f].pc \notin Locked
    BY <1>1, <1>4, <1>6
  <2> QED BY <1>1, <1>2, <2>2, <2>3, <2>4, Standing DEF Crash, machine, history
<1> QED BY <1>5, <1>6

\* All executors are gone at once: of an update under way nothing is left to say.
LEMMA Ceasing ==
  ASSUME IInv, ~exposed, NEW s \in {"idle", "off"}, AllGone(s), TypeOK', Serves',
         Grows, UNCHANGED <<trees, dirs, settled>>
  PROVE  IInv'
<1>1. \A e \in Executors : ex'[e].pc = "idle" /\ ~ex'[e].own
  BY DEF AllGone, Idle
<1>2. \A e \in Executors : ex'[e].pc \notin Locked
  BY <1>1 DEF Locked, Mutated
<1>3. OneAtATime'
  BY <1>2 DEF OneAtATime
<1>4. SettledDataIsKept'
  BY Keeping DEF IInv
<1>5. \A e \in Executors : Placed(e)'
  BY <1>1 DEF Placed
<1> QED BY <1>2, <1>3, <1>4, <1>5 DEF IInv, Deep

LEMMA GoneTypes ==
  ASSUME TypeOK, NEW s \in {"idle", "off"}, AllGone(s)
  PROVE  /\ ex' \in [Executors -> ExecutorRow]
         /\ super' \in {"idle", "look", "unlink", "off"}
         /\ lock' \in Executors \cup {None, "off"}
<1>1. 1 \in Version
  BY BoundsAssumption DEF Version
<1>2. Idle \in ExecutorRow
  BY <1>1 DEF Idle, ExecutorRow, Before
<1>3. ex' = [e \in Executors |-> Idle]
  BY DEF AllGone
<1> QED BY <1>2, <1>3 DEF AllGone

LEMMA PowerCutInv ==
  ASSUME IInv, PowerCut
  PROVE  IInv'
<1>1. ~exposed /\ TypeOK /\ AllGone("idle")
  BY Unexposed DEF PowerCut, Followed
<1>2. Grows
  BY <1>1, Serving, Unchanging DEF PowerCut
<1>3. TypeOK'
  <2>1. troubles' \in 0..MaxTroubles
    BY <1>1, Troubles DEF PowerCut
  <2>2. service' \in Version \cup {0} /\ attached' \in BOOLEAN /\ updater' \in Version
    BY <1>1 DEF PowerCut, TypeOK
  <2> QED BY <1>1, <1>2, GoneTypes, <2>1, <2>2
          DEF PowerCut, TypeOK, history, Grows, ExecutorRow
<1>4. Serves'
  BY DEF PowerCut, Serves
<1> QED BY <1>1, <1>2, <1>3, <1>4, Ceasing DEF PowerCut, history

LEMMA PackageStopsUnitInv ==
  ASSUME IInv, NEW e \in Executors, PackageStopsUnit(e)
  PROVE  IInv'
<1>1. ~exposed /\ TypeOK /\ AllGone("off")
  BY Unexposed DEF PackageStopsUnit, At, Followed
<1>2. Grows
  BY <1>1, Unchanging DEF PackageStopsUnit
<1>3. TypeOK'
  BY <1>1, <1>2, GoneTypes DEF PackageStopsUnit, TypeOK, history, Grows, ExecutorRow
<1>4. Serves'
  BY DEF PackageStopsUnit, Serves
<1> QED BY <1>1, <1>2, <1>3, <1>4, Ceasing DEF PackageStopsUnit, history

\* While an installer runs the service is down, and there is a version to put.
LEMMA Orphaning ==
  ASSUME IInv, ~exposed, NEW e \in Executors, Orphan(e)
  PROVE  /\ program' \in [v : Version, ok : BOOLEAN]
         /\ cache' \in Version \cup {0}
         /\ service = 0
<1> DEFINE v == IF ex[e].pc = "install" THEN Target(ex[e].run) ELSE Former(e)
<1>1. TypeOK /\ Placed(e) /\ ex[e].pc \in {"install", "reinstall"}
  BY Unexposed DEF Orphan
<1>2. ex[e].run \in Run
  BY <1>1 DEF Placed
<1>3. Ready(e)
  BY <1>1, Unexposed DEF Locked, Mutated, Works
<1>4. service = 0 /\ Former(e) \in Version
  BY <1>1, <1>3 DEF Ready, Stopped, Holding, Mutated
<1>5. Target(ex[e].run) \in Version
  BY <1>2, BoundsAssumption DEF Run, Version, Target
<1>6. v \in Version
  BY <1>4, <1>5
<1>7. program' \in [v : {v}, ok : BOOLEAN] /\ cache' \in {cache, v}
  BY DEF Orphan
<1> HIDE DEF v
<1> QED BY <1>1, <1>4, <1>6, <1>7 DEF TypeOK

LEMMA UnitStopsInv ==
  ASSUME IInv, UnitStops
  PROVE  IInv'
<1>1. ~exposed /\ TypeOK /\ Serves /\ AllGone("off")
  BY Unexposed DEF UnitStops, Followed
<1>2. Grows
  BY <1>1, Unchanging DEF UnitStops
<1>3. /\ program' \in [v : Version, ok : BOOLEAN]
      /\ cache' \in Version \cup {0}
      /\ program' = program \/ service = 0
  BY <1>1, Orphaning DEF UnitStops, TypeOK
<1>4. TypeOK'
  <2>1. troubles' \in 0..MaxTroubles
    BY <1>1, Troubles DEF UnitStops
  <2> QED BY <1>1, <1>2, <1>3, <2>1, GoneTypes
          DEF UnitStops, TypeOK, history, Grows, ExecutorRow
<1>5. Serves'
  BY <1>1, <1>3 DEF UnitStops, Serves
<1> QED BY <1>1, <1>2, <1>4, <1>5, Ceasing DEF UnitStops, history

LEMMA UnitStartsInv ==
  ASSUME IInv, UnitStarts
  PROVE  IInv'
<1>1. ~exposed /\ TypeOK
  BY DEF UnitStarts, Followed, IInv
<1>2. Grows /\ Empty
  BY <1>1, Unchanging DEF UnitStarts, machine
<1>3. TypeOK'
  BY <1>1 DEF UnitStarts, TypeOK, machine, files, history
<1> QED BY <1>1, <1>2, <1>3, Standing DEF UnitStarts, machine, files, history

----------------------------------------------------------------------------
(* The invariant.                                                           *)

LEMMA InitInv ==
  ASSUME Init
  PROVE  IInv
<1>1. 1 \in Version
  BY BoundsAssumption DEF Version
<1>2. /\ ex \in [Executors -> ExecutorRow]
      /\ \A e \in Executors : ex[e].pc = "idle" /\ ~ex[e].own
  <2>1. Idle \in ExecutorRow
    BY <1>1 DEF Idle, ExecutorRow, Before
  <2>2. Idle.pc = "idle" /\ ~Idle.own
    BY DEF Idle
  <2> QED BY <2>1, <2>2 DEF Init
<1>3. db \in Database
  BY <1>1 DEF Init, Database, Outcome
<1>4. program \in [v : Version, ok : BOOLEAN]
  BY <1>1, Programs DEF Init
<1>5. TypeOK
  <2>1. cache \in Version \cup {0} /\ spare \in Version \cup {0} /\ service \in Version \cup {0}
    BY <1>1 DEF Init
  <2>2. dirs \in [Run -> Directory \cup {None}]
    BY DEF Init
  <2>3. acked \in 0..MaxItems /\ troubles \in 0..MaxTroubles
    BY BoundsAssumption DEF Init
  <2>4. ex \in [Executors ->
                [pc : Before \cup Locked, run : Run \cup {0}, prev : Version,
                 stopped : BOOLEAN, own : BOOLEAN, good : BOOLEAN,
                 held : Database \cup {None}]]
    BY <1>2 DEF ExecutorRow
  <2> QED BY <1>3, <1>4, <2>1, <2>2, <2>3, <2>4 DEF Init, TypeOK
<1>6. OneAtATime /\ \A e \in Executors : ex[e].pc \notin Locked
  BY <1>2 DEF OneAtATime, Locked, Mutated
<1>7. SettledDataIsKept
  BY DEF Init, SettledDataIsKept
<1>8. Serves /\ \A e \in Executors : Placed(e)
  BY <1>2 DEF Init, Serves, Placed
<1> QED BY <1>5, <1>6, <1>7, <1>8 DEF IInv, Deep

LEMMA StutterInv ==
  ASSUME IInv, UNCHANGED vars
  PROVE  IInv'
<1>1. /\ UNCHANGED <<platform, program, service, db, trees, attached, cache, spare, dirs>>
      /\ UNCHANGED <<lock, super, ex, acked, settled, troubles, exposed, updater>>
  BY DEF vars, machine, files, history
<1>2. TypeOK' /\ OneAtATime' /\ SettledDataIsKept'
  BY <1>1 DEF IInv, TypeOK, OneAtATime, SettledDataIsKept, Live, KeptIn
<1>3. CASE exposed
  BY <1>1, <1>2, <1>3 DEF IInv
<1>4. CASE ~exposed
  <2>1. /\ TypeOK /\ Serves
        /\ \A f \in Executors : Placed(f)
        /\ \A f \in Executors : ex[f].pc \in Locked => lock = f /\ Works(f)
    BY <1>4, Unexposed
  <2>2. Grows /\ Empty
    BY <1>1, <2>1, Unchanging
  <2>3. ASSUME NEW f \in Executors, Works(f) PROVE Works(f)'
    BY <1>1, <2>2, <2>3, Bystanding, <1>4
  <2>4. Serves' /\ \A f \in Executors : Placed(f)'
    BY <1>1, <2>1 DEF Serves, Placed
  <2> QED BY <1>1, <1>2, <2>1, <2>3, <2>4 DEF IInv, Deep
<1> QED BY <1>3, <1>4

LEMMA WorkInv ==
  ASSUME IInv, NEW e \in Executors, Work(e)
  PROVE  IInv'
BY BeginInv, TakeLockInv, LookAtLockInv, StealLockInv, GiveUpInv, CheckInv,
       PrepareInv, StopServiceInv, SnapshotInv, InstallInv, ConfigureInv,
       RecacheInv, StartNewInv, TrialInv, CommitInv, CleanInv, UndoInv, SayInv,
       StopNewInv, ReinstallInv, DbAwayInv, DbPutInv, WipeInv, CopyInv,
       StartOldInv, TrialOldInv, StopOldInv, ReportInv, DiscardInv, ReleaseInv
   DEF Work

LEMMA StepInv ==
  ASSUME IInv, [Next]_vars
  PROVE  IInv'
<1>1. CASE Write
  BY <1>1, WriteInv
<1>2. ASSUME NEW r \in Run, Apply(r) PROVE IInv'
  BY <1>2, ApplyInv
<1>3. CASE Supervise \/ SuperviseLook \/ SuperviseUnlink
  BY <1>3, SupervisorInv
<1>4. ASSUME NEW e \in Executors, Work(e) \/ Crash(e) \/ PackageStopsUnit(e)
      PROVE  IInv'
  BY <1>4, WorkInv, CrashInv, PackageStopsUnitInv
<1>5. CASE PowerCut \/ UnitStops \/ UnitStarts
  BY <1>5, PowerCutInv, UnitStopsInv, UnitStartsInv
<1>6. CASE UNCHANGED vars
  BY <1>6, StutterInv
<1> QED BY <1>1, <1>2, <1>3, <1>4, <1>5, <1>6 DEF Next

LEMMA Invariance == Spec => []IInv
<1>1. Init => IInv
  BY InitInv
<1>2. IInv /\ [Next]_vars => IInv'
  BY StepInv
<1> QED BY <1>1, <1>2, PTL DEF Spec

----------------------------------------------------------------------------
(* What rows say in the end.                                                *)

Silent == \A r \in Run : ~Becomes(r, "completed") /\ ~Becomes(r, "rolled_back")

Ended ==
  ~exposed' => \A r \in Run :
    /\ Becomes(r, "completed") =>
         service = Target(r) /\ program = [v |-> Target(r), ok |-> TRUE]
    /\ Becomes(r, "rolled_back") =>
         /\ service # 0 /\ program = [v |-> service, ok |-> TRUE]
         /\ dirs[r].db # None => dirs[r].db.data \subseteq db.data
         /\ dirs[r].trees \subseteq trees

LEMMA Speaking ==
  ASSUME NEW q, NEW o, Tells(q, o), o \notin {"completed", "rolled_back"}
  PROVE  Silent
<1> SUFFICES ASSUME NEW r \in Run, NEW x \in {"completed", "rolled_back"}, Becomes(r, x)
             PROVE  FALSE
  BY DEF Silent
<1>1. db # None /\ Status(r) # x /\ Status(r)' = x
  BY DEF Becomes
<1>2. db' # None /\ db'.runs[r] = x /\ db.runs[r] # x
  BY <1>1 DEF Status
<1> QED BY <1>1, <1>2 DEF Tells

LEMMA SameRows ==
  ASSUME db' = db
  PROVE  Silent
BY DEF Silent, Becomes, Status

LEMMA OthersSilent ==
  ASSUME TypeOK,
         \/ Write \/ (\E r \in Run : Apply(r)) \/ PowerCut \/ (UNCHANGED vars)
         \/ Supervise \/ SuperviseLook \/ SuperviseUnlink \/ UnitStops \/ UnitStarts
         \/ \E e \in Executors : Crash(e) \/ PackageStopsUnit(e)
  PROVE  Silent
<1>1. CASE Write
  <2>1. db # None /\ db \in Database
    BY <1>1 DEF Write, TypeOK
  <2>2. [db EXCEPT !.data = @ \cup {acked + 1}].runs = db.runs
    BY <2>1 DEF Database
  <2>3. db' = db \/ db'.runs = db.runs
    BY <1>1, <2>2 DEF Write
  <2>4. Tells(1, "none")
    BY <2>3 DEF Tells
  <2> QED BY <2>4, Speaking
<1>2. ASSUME NEW r \in Run, Apply(r) PROVE Silent
  <2>1. db # None /\ db \in Database
    BY <1>2 DEF Apply, TypeOK
  <2>2. \A q \in Run : [db EXCEPT !.runs[r] = "applying"].runs[q]
                         = IF q = r THEN "applying" ELSE db.runs[q]
    BY <2>1 DEF Database
  <2>3. Tells(r, "applying")
    BY <1>2, <2>2 DEF Apply, Tells
  <2> QED BY <2>3, Speaking
<1>3. CASE PowerCut
  <2>1. Tells(1, "none")
    BY <1>3, Serving, Unchanging DEF PowerCut
  <2> QED BY <2>1, Speaking
<1>4. CASE Supervise \/ SuperviseLook \/ SuperviseUnlink \/ (UNCHANGED vars)
  BY <1>4, SameRows DEF Supervise, SuperviseLook, SuperviseUnlink, vars, machine
<1>5. ASSUME NEW e \in Executors, Crash(e) \/ PackageStopsUnit(e) PROVE Silent
  BY <1>5, SameRows DEF Crash, PackageStopsUnit, machine
<1>6. CASE UnitStops \/ UnitStarts
  BY <1>6, SameRows DEF UnitStops, UnitStarts, machine
<1> QED BY <1>1, <1>2, <1>3, <1>4, <1>5, <1>6

LEMMA WorkSilent ==
  ASSUME IInv, ~exposed, NEW e \in Executors, Work(e), ~Commit(e), ~Report(e)
  PROVE  Silent
<1>1. TypeOK /\ Placed(e) /\ (ex[e].pc \in Locked => Works(e))
  BY Unexposed
<1>2. ex[e].pc # "idle" => ex[e].run \in Run
  BY <1>1 DEF Placed
<1>3. CASE Begin(e) \/ GiveUp(e) \/ Say(e)
  <2>1. ex[e].run \in Run
    BY <1>2, <1>3 DEF Begin, GiveUp, Say, At
  <2>2. PICK o \in {"refused", "busy", "unchanged", "unrestarted"} :
          db' = Told(ex[e].run, o) \/ db' = db
    BY <1>3 DEF Begin, GiveUp, Say
  <2>3. Tells(ex[e].run, o)
    BY <1>1, <2>1, <2>2, Telling, Unchanging DEF Outcome
  <2> QED BY <2>3, Speaking
<1>4. CASE Check(e) \/ StopService(e) \/ Snapshot(e) \/ Trial(e)
  <2>1. ex[e].run \in Run
    BY <1>2, <1>4 DEF Check, StopService, Snapshot, Trial, At
  <2>2. db' = Told(ex[e].run, "applying") \/ db' = db
    BY <1>4 DEF Check, StopService, Snapshot, Trial, Progress
  <2>3. Tells(ex[e].run, "applying")
    BY <1>1, <2>1, <2>2, Telling, Unchanging DEF Outcome
  <2> QED BY <2>3, Speaking
<1>5. CASE StartNew(e) \/ StartOld(e) \/ Undo(e)
  <2>1. Start \/ Expire \/ db' = db
    BY <1>5 DEF StartNew, StartOld, Undo
  <2>2. Tells(1, "none")
    BY <1>1, <2>1, Restarting, Unchanging
  <2> QED BY <2>2, Speaking
<1>6. CASE DbAway(e)
  <2>1. db' = db \/ db' = None
    BY <1>6 DEF DbAway
  <2>2. Tells(1, "none")
    BY <2>1 DEF Tells
  <2> QED BY <2>2, Speaking
<1>7. CASE DbPut(e)
  <2>1. db = None
    BY <1>1, <1>7 DEF DbPut, At, Locked, Mutated, Works, Ready
  <2> QED BY <2>1 DEF Silent, Becomes
<1>8. CASE \/ TakeLock(e) \/ LookAtLock(e) \/ StealLock(e) \/ Release(e) \/ TrialOld(e)
  BY <1>8, SameRows DEF TakeLock, LookAtLock, StealLock, Release, TrialOld, machine
<1>9. CASE \/ Prepare(e) \/ Install(e) \/ Configure(e) \/ Recache(e) \/ Clean(e)
  BY <1>9, SameRows DEF Prepare, Install, Configure, Recache, Clean
<1>10. CASE \/ StopNew(e) \/ Reinstall(e) \/ Wipe(e) \/ Copy(e) \/ StopOld(e) \/ Discard(e)
  BY <1>10, SameRows DEF StopNew, Reinstall, Wipe, Copy, StopOld, Discard
<1> QED BY <1>3, <1>4, <1>5, <1>6, <1>7, <1>8, <1>9, <1>10 DEF Work

LEMMA CommitEnds ==
  ASSUME IInv, NEW e \in Executors, Commit(e)
  PROVE  Ended
<1>1. /\ TypeOK /\ Serves /\ ex[e].pc = "commit" /\ ex[e].run \in Run /\ Works(e)
  BY AtWork DEF Commit, Locked, Mutated
<1>2. Tells(ex[e].run, "completed")
  BY <1>1, Completing, Unchanging DEF Commit
<1>3. /\ program.v = Target(ex[e].run) /\ program.ok /\ service = program.v
      /\ program \in [v : Version, ok : BOOLEAN]
  BY <1>1 DEF Works, Programmed, Serves, TypeOK
<1>4. program = [v |-> Target(ex[e].run), ok |-> TRUE]
  BY <1>3
<1>5. ASSUME NEW r \in Run, NEW x \in {"completed", "rolled_back"}, Becomes(r, x)
      PROVE  r = ex[e].run /\ x = "completed"
  <2>1. db # None /\ db' # None /\ db'.runs[r] = x /\ db.runs[r] # x
    BY <1>5 DEF Becomes, Status
  <2> QED BY <1>2, <2>1 DEF Tells
<1> QED BY <1>3, <1>4, <1>5 DEF Ended

LEMMA ReportEnds ==
  ASSUME IInv, NEW e \in Executors, Report(e)
  PROVE  Ended
<1>1. /\ TypeOK /\ Serves /\ ex[e].pc = "report" /\ ex[e].run \in Run /\ Works(e)
  BY AtWork DEF Report, Locked, Mutated
<1>2. PICK o \in {"rolled_back", "stopped"} :
        Tells(ex[e].run, o) /\ (o = "rolled_back" => ex[e].good)
  <2>1. CASE db' = db
    BY <1>1, <2>1, Unchanging
  <2>2. CASE db' = Told(ex[e].run, IF ex[e].good THEN "rolled_back" ELSE "stopped")
    BY <1>1, <2>2, Telling DEF Outcome
  <2> QED BY <2>1, <2>2 DEF Report
<1>3. ASSUME NEW r \in Run, NEW x \in {"completed", "rolled_back"}, Becomes(r, x)
      PROVE  r = ex[e].run /\ x = "rolled_back" /\ ex[e].good
  <2>1. db # None /\ db' # None /\ db'.runs[r] = x /\ db.runs[r] # x
    BY <1>3 DEF Becomes, Status
  <2> QED BY <1>2, <2>1 DEF Tells
<1>4. ASSUME ex[e].good
      PROVE  /\ service # 0 /\ program = [v |-> service, ok |-> TRUE]
             /\ dirs[ex[e].run].db # None => dirs[ex[e].run].db.data \subseteq db.data
             /\ dirs[ex[e].run].trees \subseteq trees
  <2>1. service # 0 /\ program.ok /\ service = program.v
    BY <1>1, <1>4 DEF Works, Programmed, Serves, Back
  <2>2. program = [v |-> service, ok |-> TRUE]
    BY <1>1, <2>1 DEF TypeOK
  <2>3. DataBack(ex[e].run) /\ TreesBack(ex[e].run) /\ dirs[ex[e].run] # None
    BY <1>1, <1>4 DEF Works, Covered, Returned, Back, Ready, Holding, Mutated
  <2> QED BY <2>1, <2>2, <2>3 DEF DataBack, TreesBack
<1> QED BY <1>3, <1>4 DEF Ended

LEMMA StepEnded ==
  ASSUME IInv, [Next]_vars
  PROVE  Ended
<1>1. TypeOK
  BY DEF IInv
<1>2. Silent => Ended
  BY DEF Silent, Ended
<1>3. ASSUME NEW e \in Executors, Work(e) PROVE Ended
  <2>1. ~exposed
    BY <1>3 DEF Work, At, Followed, Begin, TakeLock, LookAtLock, StealLock, GiveUp, Check,
       Prepare, StopService, Snapshot, Install, Configure, Recache, StartNew, Trial, Commit,
       Clean, Undo, Say, StopNew, Reinstall, DbAway, DbPut, Wipe, Copy, StartOld, TrialOld,
       StopOld, Report, Discard, Release
  <2> QED BY <1>2, <1>3, <2>1, WorkSilent, CommitEnds, ReportEnds
<1> QED BY <1>1, <1>2, <1>3, OthersSilent DEF Next

\* Every variable has its type, in every behaviour.
THEOREM TypeCorrect == Spec => []TypeOK
<1>1. IInv => TypeOK
  BY DEF IInv
<1> QED BY <1>1, Invariance, PTL

\* However many executors the supervisor starts, whichever of them die, and
\* whenever a stale lock is taken away, one at most is past the lock: a second
\* one gets there only after an exposure, where a lock was taken away that was
\* not the one looked at (_acquire_update_lock, run_supervisor).
THEOREM OneExecutor == Spec => []OneAtATime
<1>1. IInv => OneAtATime
  BY DEF IInv
<1> QED BY <1>1, Invariance, PTL

\* What was settled is live or whole in one snapshot, for any number of runs,
\* executors, failing calls and power cuts.
THEOREM SettledStay == Spec => []SettledDataIsKept
<1>1. IInv => SettledDataIsKept
  BY DEF IInv
<1> QED BY <1>1, Invariance, PTL

\* "completed" is written with the new program whole and serving, "rolled_back"
\* with a whole program serving on everything the snapshot holds, whichever
\* calls failed on the way (execute_host_update and its two siblings).
THEOREM EndsAreTrue == Spec => EndsAre
<1>1. IInv /\ [Next]_vars => [Ended]_vars
  BY StepEnded
<1> QED BY <1>1, Invariance, PTL DEF Spec, EndsAre, Ended

\* While a program is being replaced there is a way back: the run's directory, the
\* version there was, and a snapshot of everything settled.
WayBackIsOpen ==
  ~exposed => \A e \in Executors : ex[e].pc \in Mutated =>
    /\ dirs[ex[e].run] # None
    /\ Former(e) \in Version
    /\ \A i \in settled : KeptSomewhere(i)

\* From the first change to the program to the run's end, on the way out and on
\* the way back, nothing that a rollback needs has been cleaned up or taken over
\* by another executor (execute_host_update).
THEOREM RollbackStaysPossible == Spec => []WayBackIsOpen
<1>1. IInv => WayBackIsOpen
  BY DEF IInv, Deep, Works, Ready, Covered, WayBackIsOpen, Holding, Locked
<1> QED BY <1>1, Invariance, PTL

=============================================================================
