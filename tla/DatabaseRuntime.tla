--------------------------- MODULE DatabaseRuntime ---------------------------
(***************************************************************************)
(* The process-wide database runtime of database.py: the session hooks that *)
(* count transactions and take the write lock, the gate that restore closes *)
(* (exclusive_maintenance), and the three kinds of thread that meet there.  *)
(*                                                                          *)
(* The write lock is a threading.RLock: it belongs to a THREAD, and the     *)
(* thread that owns it enters again.  A synchronous handler has a worker of *)
(* the pool to itself; asynchronous handlers share the event-loop thread    *)
(* and give it up at every await; the scheduler's cycle has a thread of its *)
(* own.  get_session is a synchronous generator dependency: the session of  *)
(* a request is closed on whichever worker the loop picks, after the        *)
(* handler has returned or raised.                                          *)
(*                                                                          *)
(* A job is one request (or one cycle): any sequence of transactions, with  *)
(* and without "with db_runtime.write_lock", that may raise at every point. *)
(***************************************************************************)
EXTENDS Integers, FiniteSets

CONSTANTS
  Sync,      \* requests with a synchronous handler
  Async,     \* requests with an asynchronous handler
  Cycles,    \* scheduler cycles, each a job and its thread
  Restores,  \* restore requests (synchronous handlers)
  Workers,   \* threads of the worker pool (40 in the program)
  Loop,      \* the event-loop thread
  Spare,     \* the thread a session can always be closed on
  None,
  MaxExchanges   \* bound on exchanges of the database files

Jobs == Sync \cup Async \cup Cycles \cup Restores
Pooled == Sync \cup Restores
Threads == Workers \cup Cycles \cup {Loop, Spare}

ASSUME JobsAssumption ==
  /\ IsFiniteSet(Jobs)
  /\ Sync \cap (Async \cup Cycles \cup Restores) = {}
  /\ Async \cap (Cycles \cup Restores) = {}
  /\ Cycles \cap Restores = {}

ASSUME ThreadsAssumption ==
  /\ Workers \cap (Jobs \cup {Loop, Spare}) = {}
  /\ Loop \notin Jobs /\ Spare \notin Jobs /\ Loop # Spare
  /\ None \notin Jobs \cup Threads
  /\ MaxExchanges \in Nat

\* Inside exclusive_maintenance: waiting for transactions to end ...
Draining == {"drain"}
\* ... and alone: before the snapshot, in its transaction, before the
\* exchange, in it, and leaving.
Exclusive == {"alone", "snapshot", "swap", "swapping", "reopen"}

Points == {"idle", "run", "away", "wantGuard", "wantLock", "dml", "release",
           "unwind", "done"} \cup Draining \cup Exclusive

VARIABLES
  pc,          \* where each job is
  on,          \* the thread its handler runs on
  loop,        \* the coroutine that occupies the event loop, or None
  act,         \* session.info["partyops_activity_state"]
  held,        \* session.info["partyops_write_lock_held"]
  guard,       \* is the handler inside "with db_runtime.write_lock"?
  writing,     \* has the session an open SQLite write transaction?
  base,        \* the database generation its transaction began in, else 0
  lockOwner, lockCount,   \* write_lock
  closed, gateOwner,      \* _maintenance_active, _maintenance_owner
  active,      \* _active_sessions
  generation,  \* how often restore exchanged the database files
  lapse        \* history: has a handler left or suspended itself inside a
               \* write transaction?

sessions == <<act, held, guard, writing, base>>
lock == <<lockOwner, lockCount>>
gate == <<closed, gateOwner>>
vars == <<pc, on, loop, sessions, lock, gate, active, generation, lapse>>

Init ==
  /\ pc = [j \in Jobs |-> "idle"]
  /\ on = [j \in Jobs |-> None]
  /\ loop = None
  /\ act = [j \in Jobs |-> "none"]
  /\ held = [j \in Jobs |-> FALSE]
  /\ guard = [j \in Jobs |-> FALSE]
  /\ writing = [j \in Jobs |-> FALSE]
  /\ base = [j \in Jobs |-> 0]
  /\ lockOwner = None
  /\ lockCount = 0
  /\ closed = FALSE
  /\ gateOwner = None
  /\ active = 0
  /\ generation = 0
  /\ lapse = FALSE

\* Faulty... variants are mistakes a change of this code could make; they are
\* not part of the specification.

Go(j, point) == pc' = [pc EXCEPT ![j] = point]

-----------------------------------------------------------------------------
(* Threads and the lock.                                                    *)

FreeWorkers == {w \in Workers : \A j \in Jobs : on[j] # w}

FaultyAvailable(t) == lockOwner = None

Available(t) == lockOwner \in {None, t}

Lock(t) ==
  /\ lockOwner' = t
  /\ lockCount' = lockCount + 1

FaultyUnlock ==
  /\ lockOwner' = None
  /\ lockCount' = 0

Unlock ==
  /\ lockOwner' = IF lockCount = 1 THEN None ELSE lockOwner
  /\ lockCount' = lockCount - 1

\* A coroutine runs only while it occupies the loop.
Running(j) ==
  /\ pc[j] = "run"
  /\ j \in Async => loop = j

\* The loop dispatches everything that starts, so it must not be blocked.
Start(j) ==
  /\ pc[j] = "idle"
  /\ loop = None
  /\ Go(j, "run")
  /\ \/ /\ j \in Pooled
        /\ \E w \in FreeWorkers : on' = [on EXCEPT ![j] = w]
        /\ UNCHANGED loop
     \/ /\ j \in Async
        /\ on' = [on EXCEPT ![j] = Loop]
        /\ loop' = j
     \/ /\ j \in Cycles
        /\ on' = [on EXCEPT ![j] = j]
        /\ UNCHANGED loop
  /\ UNCHANGED <<sessions, lock, gate, active, generation, lapse>>

\* await inside an asynchronous handler, a lock block included: only a write
\* transaction must not be left open over it.
Await(j) ==
  /\ j \in Async
  /\ Running(j)
  /\ Go(j, "away")
  /\ loop' = None
  /\ lapse' = (lapse \/ held[j])
  /\ UNCHANGED <<on, sessions, lock, gate, active, generation>>

\* Reading the next block of a spooled upload takes a worker for a moment.
Resume(j) ==
  /\ pc[j] = "away"
  /\ loop = None
  /\ FreeWorkers # {}
  /\ Go(j, "run")
  /\ loop' = j
  /\ UNCHANGED <<on, sessions, lock, gate, active, generation, lapse>>

FaultyQuit(j) ==
  /\ Go(j, IF j \in Cycles THEN "done" ELSE "unwind")
  /\ on' = [on EXCEPT ![j] = None]
  /\ loop' = IF j \in Async THEN None ELSE loop
  /\ guard' = [guard EXCEPT ![j] = FALSE]
  /\ lapse' = (lapse \/ held[j])
  /\ UNCHANGED <<act, held, writing, base, lock>>

\* The handler returns or raises: lock blocks unwind on its own thread, which
\* is then free; the session is closed later, by somebody else.  The cycle's
\* "with session_factory()" has closed its session before.
Quit(j) ==
  /\ Go(j, IF j \in Cycles THEN "done" ELSE "unwind")
  /\ on' = [on EXCEPT ![j] = None]
  /\ loop' = IF j \in Async THEN None ELSE loop
  /\ guard' = [guard EXCEPT ![j] = FALSE]
  /\ IF guard[j] THEN Unlock ELSE UNCHANGED lock
  /\ lapse' = (lapse \/ held[j])
  /\ UNCHANGED <<act, held, writing, base>>

Leave(j) ==
  /\ Running(j)
  /\ j \in Cycles => act[j] = "none"
  /\ Quit(j)
  /\ UNCHANGED <<gate, active, generation>>

-----------------------------------------------------------------------------
(* Transactions.                                                            *)

\* enter_session_activity
Enter(j) ==
  /\ act' = [act EXCEPT ![j] = "active"]
  /\ active' = active + 1
  /\ base' = [base EXCEPT ![j] = generation]

FaultyQuery(j) ==
  /\ Running(j)
  /\ act[j] = "none"
  /\ Enter(j)
  /\ UNCHANGED <<pc, on, loop, held, guard, writing, lock, gate, generation, lapse>>

\* The first query of a transaction; 503 DATABASE_MAINTENANCE if the gate is
\* closed.
Query(j) ==
  /\ Running(j)
  /\ act[j] = "none"
  /\ IF closed
       THEN /\ Quit(j)
            /\ UNCHANGED active
       ELSE /\ Enter(j)
            /\ UNCHANGED <<pc, on, loop, held, guard, writing, lock, lapse>>
  /\ UNCHANGED <<gate, generation>>

FaultyFlush(j) ==
  /\ Running(j)
  /\ ~held[j]
  /\ Go(j, "wantLock")
  /\ IF act[j] = "none" THEN Enter(j) ELSE UNCHANGED <<act, active, base>>
  /\ UNCHANGED <<on, loop, held, guard, writing, lock, gate, generation, lapse>>

\* before_flush, or an ORM insert, update or delete: register the activity,
\* then queue for the write lock.
Flush(j) ==
  /\ Running(j)
  /\ ~held[j]
  /\ IF act[j] = "none" /\ closed
       THEN /\ Quit(j)
            /\ UNCHANGED active
       ELSE /\ Go(j, "wantLock")
            /\ IF act[j] = "none"
                 THEN Enter(j)
                 ELSE UNCHANGED <<act, active, base>>
            /\ UNCHANGED <<on, loop, held, guard, writing, lock, lapse>>
  /\ UNCHANGED <<gate, generation>>

\* _acquire_session_write_lock
Acquire(j) ==
  /\ pc[j] = "wantLock"
  /\ Available(on[j])
  /\ Lock(on[j])
  /\ held' = [held EXCEPT ![j] = TRUE]
  /\ Go(j, "dml")
  /\ UNCHANGED <<on, loop, act, guard, writing, base, gate, active, generation, lapse>>

\* SQLite has one writer: the statement waits for busy_timeout ...
Write(j) ==
  /\ pc[j] = "dml"
  /\ \A k \in Jobs : ~writing[k]
  /\ writing' = [writing EXCEPT ![j] = TRUE]
  /\ Go(j, "run")
  /\ UNCHANGED <<on, loop, act, held, guard, base, lock, gate, active, generation, lapse>>

\* ... and then raises "database is locked".
Busy(j) ==
  /\ pc[j] = "dml"
  /\ \E k \in Jobs : writing[k]
  /\ Go(j, "run")
  /\ UNCHANGED <<on, loop, sessions, lock, gate, active, generation, lapse>>

\* commit, rollback, or close on the handler's own thread: after_transaction_end
\* leaves the activity first ...
EndTransaction(j) ==
  /\ Running(j)
  /\ act[j] = "active"
  /\ writing' = [writing EXCEPT ![j] = FALSE]
  /\ act' = [act EXCEPT ![j] = "none"]
  /\ active' = active - 1
  /\ base' = [base EXCEPT ![j] = 0]
  /\ Go(j, IF held[j] THEN "release" ELSE "run")
  /\ UNCHANGED <<on, loop, held, guard, lock, gate, generation, lapse>>

\* ... and releases the lock after.
Release(j) ==
  /\ pc[j] = "release"
  /\ held' = [held EXCEPT ![j] = FALSE]
  /\ Unlock
  /\ Go(j, "run")
  /\ UNCHANGED <<on, loop, act, guard, writing, base, gate, active, generation, lapse>>

FaultyClose(j) ==
  /\ pc[j] = "unwind"
  /\ loop = None
  /\ writing' = [writing EXCEPT ![j] = FALSE]
  /\ act' = [act EXCEPT ![j] = "none"]
  /\ active' = active - 1
  /\ held' = [held EXCEPT ![j] = FALSE]
  /\ base' = [base EXCEPT ![j] = 0]
  /\ Go(j, "done")
  /\ UNCHANGED <<on, loop, guard, lock, gate, generation, lapse>>

\* session.close of get_session, on a worker: RLock.release raises unless that
\* worker owns the lock, and then nobody releases it any more.
Close(j) ==
  /\ pc[j] = "unwind"
  /\ loop = None
  /\ writing' = [writing EXCEPT ![j] = FALSE]
  /\ act' = [act EXCEPT ![j] = "none"]
  /\ active' = IF act[j] = "active" THEN active - 1 ELSE active
  /\ held' = [held EXCEPT ![j] = FALSE]
  /\ base' = [base EXCEPT ![j] = 0]
  /\ \E t \in FreeWorkers \cup {Spare} :
       IF held[j] /\ lockOwner = t THEN Unlock ELSE UNCHANGED lock
  /\ Go(j, "done")
  /\ UNCHANGED <<on, loop, guard, gate, generation, lapse>>

-----------------------------------------------------------------------------
(* with db_runtime.write_lock                                               *)

WantGuard(j) ==
  /\ Running(j)
  /\ ~guard[j]
  /\ Go(j, "wantGuard")
  /\ UNCHANGED <<on, loop, sessions, lock, gate, active, generation, lapse>>

TakeGuard(j) ==
  /\ pc[j] = "wantGuard"
  /\ Available(on[j])
  /\ Lock(on[j])
  /\ guard' = [guard EXCEPT ![j] = TRUE]
  /\ Go(j, "run")
  /\ UNCHANGED <<on, loop, act, held, writing, base, gate, active, generation, lapse>>

DropGuard(j) ==
  /\ Running(j)
  /\ guard[j]
  /\ guard' = [guard EXCEPT ![j] = FALSE]
  /\ Unlock
  /\ UNCHANGED <<pc, on, loop, act, held, writing, base, gate, active, generation, lapse>>

-----------------------------------------------------------------------------
(* exclusive_maintenance, as restore_backup uses it.                        *)

\* The endpoint has closed its own session; a second restore gets 409.
CloseGate(r) ==
  /\ Running(r)
  /\ act[r] = "none" /\ ~guard[r]
  /\ generation < MaxExchanges
  /\ IF closed
       THEN /\ Quit(r)
            /\ UNCHANGED gate
       ELSE /\ Go(r, "drain")
            /\ closed' = TRUE
            /\ gateOwner' = on[r]
            /\ UNCHANGED <<on, loop, sessions, lock, lapse>>
  /\ UNCHANGED <<active, generation>>

Drained(r) ==
  /\ pc[r] = "drain"
  /\ active = 0
  /\ Go(r, "alone")
  /\ UNCHANGED <<on, loop, sessions, lock, gate, active, generation, lapse>>

OpenGate ==
  /\ closed' = FALSE
  /\ gateOwner' = None

FaultyGiveUp(r) ==
  /\ pc[r] = "drain"
  /\ active # 0
  /\ Quit(r)
  /\ UNCHANGED <<gate, active, generation>>

\* 503 DATABASE_MAINTENANCE_BUSY after timeout_seconds.
GiveUp(r) ==
  /\ pc[r] = "drain"
  /\ active # 0
  /\ OpenGate
  /\ Quit(r)
  /\ UNCHANGED <<active, generation>>

\* The session of the pre-restore backup passes the gate as its owner.
BeginSnapshot(r) ==
  /\ pc[r] = "alone"
  /\ gateOwner = on[r]
  /\ Available(on[r])
  /\ Lock(on[r])
  /\ act' = [act EXCEPT ![r] = "owner"]
  /\ held' = [held EXCEPT ![r] = TRUE]
  /\ writing' = [writing EXCEPT ![r] = TRUE]
  /\ Go(r, "snapshot")
  /\ UNCHANGED <<on, loop, guard, base, gate, active, generation, lapse>>

\* Written, or failed: pre_session.close in finally, on the same thread.
EndSnapshot(r) ==
  /\ pc[r] = "snapshot"
  /\ Unlock
  /\ act' = [act EXCEPT ![r] = "none"]
  /\ held' = [held EXCEPT ![r] = FALSE]
  /\ writing' = [writing EXCEPT ![r] = FALSE]
  /\ \/ Go(r, "swap")
     \/ Go(r, "reopen")
  /\ UNCHANGED <<on, loop, guard, base, gate, active, generation, lapse>>

BeginSwap(r) ==
  /\ pc[r] = "swap"
  /\ Available(on[r])
  /\ Lock(on[r])
  /\ guard' = [guard EXCEPT ![r] = TRUE]
  /\ Go(r, "swapping")
  /\ UNCHANGED <<on, loop, act, held, writing, base, gate, active, generation, lapse>>

\* Exchanged, or exchanged and put back: another file either way.
Swap(r) ==
  /\ pc[r] = "swapping"
  /\ generation' = generation + 1
  /\ Unlock
  /\ guard' = [guard EXCEPT ![r] = FALSE]
  /\ Go(r, "reopen")
  /\ UNCHANGED <<on, loop, act, held, writing, base, gate, active, lapse>>

\* finally: then the audit entry, in a transaction like any other, or the
\* exception that ended the restore.
Reopen(r) ==
  /\ pc[r] = "reopen"
  /\ OpenGate
  /\ Go(r, "run")
  /\ UNCHANGED <<on, loop, sessions, lock, active, generation, lapse>>

-----------------------------------------------------------------------------

Transact(j) ==
  \/ Query(j) \/ Flush(j) \/ Acquire(j) \/ Write(j) \/ Busy(j)
  \/ EndTransaction(j) \/ Release(j) \/ Close(j)

Schedule(j) == Start(j) \/ Await(j) \/ Resume(j) \/ Leave(j)

Guarded(j) == WantGuard(j) \/ TakeGuard(j) \/ DropGuard(j)

Maintain(r) ==
  \/ CloseGate(r) \/ Drained(r) \/ GiveUp(r) \/ BeginSnapshot(r)
  \/ EndSnapshot(r) \/ BeginSwap(r) \/ Swap(r) \/ Reopen(r)

Next ==
  \/ \E j \in Jobs : Schedule(j) \/ Transact(j) \/ Guarded(j)
  \/ \E r \in Restores : Maintain(r)

Spec == Init /\ [][Next]_vars

\* What the program's own comments demand of a handler: commit or roll back on
\* the thread that writes, before leaving it and before an await.
Disciplined == Next /\ ~lapse'

\* A handler is a finite piece of code: each of its transactions and the
\* handler itself get to their end.  The loop serves what is ready in order.
\* A thread that waits for a lock nobody else holds gets it.
Fairness ==
  /\ \A j \in Jobs :
       /\ SF_vars(Leave(j) /\ ~lapse')
       /\ SF_vars(EndTransaction(j))
       /\ SF_vars(Resume(j) \/ Close(j))
       /\ WF_vars(Acquire(j) \/ TakeGuard(j) \/ Write(j) \/ Release(j))
  /\ \A r \in Restores :
       WF_vars(\/ Drained(r) \/ GiveUp(r) \/ BeginSnapshot(r) \/ EndSnapshot(r)
               \/ BeginSwap(r) \/ Swap(r) \/ Reopen(r))

DisciplinedSpec == Init /\ [][Disciplined]_vars /\ Fairness

-----------------------------------------------------------------------------
(* Properties.                                                              *)

TypeOK ==
  /\ pc \in [Jobs -> Points]
  /\ on \in [Jobs -> Threads \cup {None}]
  /\ loop \in Async \cup {None}
  /\ act \in [Jobs -> {"none", "active", "owner"}]
  /\ held \in [Jobs -> BOOLEAN]
  /\ guard \in [Jobs -> BOOLEAN]
  /\ writing \in [Jobs -> BOOLEAN]
  /\ base \in [Jobs -> Nat]
  /\ lockOwner \in Threads \cup {None}
  /\ lockCount \in Nat
  /\ closed \in BOOLEAN
  /\ gateOwner \in Workers \cup {None}
  /\ active \in Nat
  /\ generation \in Nat
  /\ lapse \in BOOLEAN

\* Restore waits for every transaction and admits none while it exchanges the
\* files: a transaction ends on the database it began on, whatever handlers do
\* with the write lock (exclusive_maintenance and the session hooks).
TransactionsKeepTheirDatabase ==
  \A j \in Jobs : act[j] = "active" => base[j] = generation

\* The queue for the write lock keeps SQLite writers apart: as long as no
\* handler leaves or suspends itself inside a write transaction, no statement
\* runs into busy_timeout (_acquire_session_write_lock).
WritersQueue ==
  ~lapse => \A j, k \in Jobs : pc[j] = "dml" => ~writing[k]

\* The write lock is held on behalf of somebody who will release it.
LockHasAHolder ==
  lockOwner # None => \E j \in Jobs : guard[j] \/ held[j]

\* ... as long as no handler leaves its write transaction to the cleanup.
NoOrphanedLock == ~lapse => LockHasAHolder

\* The gate is closed by exactly one restore that is inside
\* exclusive_maintenance, and the count it waits on counts transactions.
GateHasAnOwner ==
  /\ closed <=> \E r \in Restores : pc[r] \in Draining \cup Exclusive
  /\ \A r, q \in Restores :
       {pc[r], pc[q]} \subseteq Draining \cup Exclusive => r = q
  /\ \A r \in Restores : pc[r] \in Draining \cup Exclusive => gateOwner = on[r]

\* The runtime as its users see it.
Exchange == INSTANCE MaintenanceGate WITH
  Sessions <- Jobs,
  open <- {j \in Jobs : act[j] = "active"},
  exclusive <- \E r \in Restores : pc[r] \in Exclusive

\* The gate implements its abstract specification.
ImplementsGate == Exchange!Spec

\* A coroutine suspended inside "with db_runtime.write_lock" needs a worker to go
\* on, and every worker waits for that lock.
WaitsForLock(j) == pc[j] \in {"wantLock", "wantGuard", "alone", "swap"}
Jammed ==
  /\ \E a \in Async : pc[a] = "away" /\ guard[a]
  /\ \A w \in Workers : \E j \in Jobs : on[j] = w /\ WaitsForLock(j)

\* With disciplined handlers every request that starts ends, through the lock,
\* the loop, an exhausted pool and the gate, and a restore thereby gives the
\* database back (exclusive_maintenance, finally); there is one way of waiting on
\* each other for good, that of an upload awaited inside the lock
\* (upload_archive_attachment).
RequestsEndOrJam == \A j \in Jobs : pc[j] = "run" ~> pc[j] = "done" \/ Jammed
=============================================================================
