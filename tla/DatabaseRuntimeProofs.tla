------------------------ MODULE DatabaseRuntimeProofs ------------------------
(***************************************************************************)
(* DatabaseRuntime proved for every set of requests, workers and restores:  *)
(* type correctness, that no transaction spans an exchange of the database  *)
(* files, that writers queue and no lock is orphaned as long as no handler  *)
(* lapses, and the simulation of MaintenanceGate.                           *)
(***************************************************************************)
EXTENDS DatabaseRuntime, FiniteSetTheorems, TLAPS

\* How many jobs a predicate holds of.
Count(f) == Cardinality({j \in Jobs : f[j]})

Open == {j \in Jobs : act[j] = "active"}

Inside == Draining \cup Exclusive

\* Which thread each job has, and that it has it to itself.
ThreadsInv ==
  /\ \A j \in Jobs : on[j] = None <=> pc[j] \in {"idle", "unwind", "done"}
  /\ \A j \in Pooled : on[j] \in Workers \cup {None}
  /\ \A j \in Async : on[j] \in {Loop, None}
  /\ \A j \in Cycles : on[j] \in {j, None}
  /\ \A j, k \in Pooled : on[j] = on[k] /\ on[j] # None => j = k
  /\ \A j \in Async : pc[j] \notin {"idle", "away", "unwind", "done"} => loop = j
  /\ \A j \in Jobs : pc[j] \in Inside => j \in Restores
  /\ \A j \in Jobs : pc[j] = "away" => j \in Async

\* What a session holds at each program point of its job.
SessionsInv ==
  /\ \A j \in Jobs : act[j] = "owner" <=> pc[j] = "snapshot"
  /\ \A j \in Jobs : pc[j] \in {"idle", "done"} => act[j] = "none" /\ ~held[j]
  /\ \A j \in Jobs : pc[j] \in {"idle", "unwind", "done", "wantGuard"} => ~guard[j]
  /\ \A j \in Jobs : pc[j] \in Inside => (guard[j] <=> pc[j] = "swapping")
  /\ \A j \in Jobs : pc[j] \in Inside => (held[j] <=> pc[j] = "snapshot")
  /\ \A j \in Jobs : pc[j] \in Inside \ {"snapshot"} => act[j] = "none"
  /\ \A j \in Jobs : pc[j] = "wantLock" => ~held[j] /\ act[j] = "active"
  /\ \A j \in Jobs : pc[j] = "dml" => held[j] /\ act[j] = "active" /\ ~writing[j]
  /\ \A j \in Jobs : pc[j] = "release" => held[j] /\ act[j] = "none"
  /\ \A j \in Jobs : held[j] /\ act[j] = "none" => pc[j] = "release"
  /\ \A j \in Jobs : writing[j] => held[j] /\ act[j] # "none"

\* Who is inside exclusive_maintenance, and that nobody else has a transaction
\* once it has drained.
GateInv ==
  /\ GateHasAnOwner
  /\ active = Cardinality(Open)
  /\ \A r \in Restores : pc[r] \in Exclusive => active = 0

\* The lock's count covers the holds there are, exactly so unless some handler
\* lapsed; a hold belongs to the thread that owns the lock.
HoldsInv ==
  /\ lockCount >= Count(guard) + Count(held)
  /\ ~lapse => lockCount = Count(guard) + Count(held)
  /\ lockOwner = None <=> lockCount = 0
  /\ \A j \in Jobs : guard[j] => lockOwner = on[j]
  /\ \A j \in Jobs : held[j] /\ on[j] # None => lockOwner = on[j]

LockInv ==
  /\ HoldsInv
  /\ ~lapse => \A j \in Jobs : held[j] => pc[j] \notin {"away", "unwind"}

IInv ==
  TypeOK /\ ThreadsInv /\ SessionsInv /\ GateInv /\ LockInv /\ TransactionsKeepTheirDatabase

-----------------------------------------------------------------------------
(* Counting.                                                                *)

LEMMA SubsetsFinite == \A S \in SUBSET Jobs : IsFiniteSet(S) /\ Cardinality(S) \in Nat
  BY JobsAssumption, FS_Subset, FS_CardinalityType

\* Changing a predicate at one job changes its count by one.
LEMMA CountFlip ==
  ASSUME NEW f \in [Jobs -> BOOLEAN], NEW j \in Jobs
  PROVE  /\ ~f[j] => Count([f EXCEPT ![j] = TRUE]) = Count(f) + 1
         /\ f[j] => Count([f EXCEPT ![j] = FALSE]) = Count(f) - 1
<1> DEFINE S == {k \in Jobs : f[k]}
<1>1. IsFiniteSet(S) /\ Cardinality(S) \in Nat
  BY SubsetsFinite
<1>2. ASSUME ~f[j] PROVE Count([f EXCEPT ![j] = TRUE]) = Count(f) + 1
  <2>1. {k \in Jobs : [f EXCEPT ![j] = TRUE][k]} = S \cup {j}
    OBVIOUS
  <2>2. Cardinality(S \cup {j}) = Cardinality(S) + 1
    BY <1>1, <1>2, FS_AddElement
  <2>3. QED
    BY <2>1, <2>2 DEF Count
<1>3. ASSUME f[j] PROVE Count([f EXCEPT ![j] = FALSE]) = Count(f) - 1
  <2>1. {k \in Jobs : [f EXCEPT ![j] = FALSE][k]} = S \ {j}
    OBVIOUS
  <2>2. Cardinality(S \ {j}) = Cardinality(S) - 1
    BY <1>1, <1>3, FS_RemoveElement
  <2>3. QED
    BY <2>1, <2>2 DEF Count
<1>4. QED
  BY <1>2, <1>3

LEMMA CountZero ==
  ASSUME NEW f \in [Jobs -> BOOLEAN]
  PROVE  /\ Count(f) \in Nat
         /\ Count(f) = 0 <=> \A j \in Jobs : ~f[j]
<1>1. IsFiniteSet({j \in Jobs : f[j]}) /\ Cardinality({j \in Jobs : f[j]}) \in Nat
  BY SubsetsFinite
<1>2. QED
  BY <1>1, FS_EmptySet DEF Count

-----------------------------------------------------------------------------

LEMMA InitIInv == Init => IInv
<1> SUFFICES ASSUME Init PROVE IInv
  OBVIOUS
<1>1. TypeOK
  BY DEF Init, TypeOK, Points
<1>2. ThreadsInv
  BY ThreadsAssumption DEF Init, ThreadsInv, Inside, Draining, Exclusive, Pooled, Jobs, Threads
<1>3. SessionsInv
  BY DEF Init, SessionsInv, Inside, Draining, Exclusive
<1>4. GateInv
  <2>1. Open = {}
    BY DEF Init, Open
  <2>2. Cardinality(Open) = 0
    BY <2>1, FS_EmptySet
  <2>3. QED
    BY <2>2 DEF Init, GateInv, GateHasAnOwner, Draining, Exclusive, Jobs
<1>5. LockInv
  <2>1. Count(guard) = 0 /\ Count(held) = 0
    BY CountZero DEF Init
  <2>2. QED
    BY <2>1 DEF Init, LockInv, HoldsInv
<1>6. TransactionsKeepTheirDatabase
  BY DEF Init, TransactionsKeepTheirDatabase
<1>7. QED
  BY <1>1, <1>2, <1>3, <1>4, <1>5, <1>6 DEF IInv


LEMMA ThreadsStep == IInv /\ Next => ThreadsInv'
<1> SUFFICES ASSUME IInv, Next PROVE ThreadsInv'
  OBVIOUS
<1> USE JobsAssumption, ThreadsAssumption
<1> USE DEF IInv, TypeOK, ThreadsInv, SessionsInv, GateInv, GateHasAnOwner,
    Inside, Draining, Exclusive, Points, Pooled, Jobs, Threads, Go, sessions
<1>1. ASSUME NEW j \in Jobs, Schedule(j) \/ Transact(j) \/ Guarded(j)
      PROVE  ThreadsInv'
  <2>1. CASE Start(j)
    BY <2>1 DEF Start, FreeWorkers
  <2>2. CASE Await(j)
    BY <2>2 DEF Await, Running
  <2>3. CASE Resume(j)
    BY <2>3 DEF Resume, FreeWorkers
  <2>4. CASE Leave(j)
    BY <2>4 DEF Leave, Quit, Unlock, Running
  <2>5. CASE Query(j)
    BY <2>5 DEF Query, Quit, Enter, Unlock, Running
  <2>6. CASE Flush(j)
    BY <2>6 DEF Flush, Quit, Enter, Unlock, Running
  <2>7. CASE Acquire(j)
    BY <2>7 DEF Acquire, Available, Lock
  <2>8. CASE Write(j)
    BY <2>8 DEF Write
  <2>9. CASE Busy(j)
    BY <2>9 DEF Busy
  <2>10. CASE EndTransaction(j)
    BY <2>10 DEF EndTransaction, Running
  <2>11. CASE Release(j)
    BY <2>11 DEF Release, Unlock
  <2>12. CASE Close(j)
    BY <2>12 DEF Close, Unlock, FreeWorkers
  <2>13. CASE WantGuard(j)
    BY <2>13 DEF WantGuard, Running
  <2>14. CASE TakeGuard(j)
    BY <2>14 DEF TakeGuard, Available, Lock
  <2>15. CASE DropGuard(j)
    BY <2>15 DEF DropGuard, Unlock, Running
  <2>16. QED
    BY <1>1, <2>1, <2>2, <2>3, <2>4, <2>5, <2>6, <2>7, <2>8, <2>9, <2>10, <2>11, <2>12, <2>13, <2>14, <2>15 DEF Schedule, Transact, Guarded
<1>2. ASSUME NEW r \in Restores, Maintain(r)
      PROVE  ThreadsInv'
  <2>1. CASE CloseGate(r)
    BY <2>1 DEF CloseGate, Quit, Unlock, Running
  <2>2. CASE Drained(r)
    BY <2>2 DEF Drained
  <2>3. CASE GiveUp(r)
    BY <2>3 DEF GiveUp, Quit, Unlock, OpenGate
  <2>4. CASE BeginSnapshot(r)
    BY <2>4 DEF BeginSnapshot, Available, Lock
  <2>5. CASE EndSnapshot(r)
    BY <2>5 DEF EndSnapshot, Unlock
  <2>6. CASE BeginSwap(r)
    BY <2>6 DEF BeginSwap, Available, Lock
  <2>7. CASE Swap(r)
    BY <2>7 DEF Swap, Unlock
  <2>8. CASE Reopen(r)
    BY <2>8 DEF Reopen, OpenGate
  <2>9. QED
    BY <1>2, <2>1, <2>2, <2>3, <2>4, <2>5, <2>6, <2>7, <2>8 DEF Maintain
<1>3. QED
  BY <1>1, <1>2 DEF Next

\* A hold is counted, and so is an open transaction.
LEMMA Counted ==
  ASSUME IInv
  PROVE  /\ Count(guard) \in Nat /\ Count(held) \in Nat
         /\ \A j \in Jobs : guard[j] => Count(guard) >= 1
         /\ \A j \in Jobs : held[j] => Count(held) >= 1
         /\ \A j \in Jobs : guard[j] \/ held[j] => lockCount \in Nat \ {0}
         /\ \A j \in Jobs : act[j] = "active" => active \in Nat \ {0}
<1>1. /\ Count(guard) \in Nat /\ Count(held) \in Nat
      /\ \A j \in Jobs : guard[j] => Count(guard) # 0
      /\ \A j \in Jobs : held[j] => Count(held) # 0
  BY CountZero DEF IInv, TypeOK
<1>2. Cardinality(Open) \in Nat /\ (Cardinality(Open) = 0 => Open = {})
  BY SubsetsFinite, FS_EmptySet DEF Open
<1>3. \A j \in Jobs : act[j] = "active" => j \in Open
  BY DEF Open
<1>4. QED
  BY <1>1, <1>2, <1>3 DEF IInv, GateInv, LockInv, HoldsInv, TypeOK

\* Leaving a handler, whichever way, keeps the types.
LEMMA QuitType ==
  ASSUME IInv, NEW j \in Jobs, Quit(j)
  PROVE  /\ pc' \in [Jobs -> Points]
         /\ on' \in [Jobs -> Threads \cup {None}]
         /\ loop' \in Async \cup {None}
         /\ guard' \in [Jobs -> BOOLEAN]
         /\ lockOwner' \in Threads \cup {None} /\ lockCount' \in Nat
         /\ lapse' \in BOOLEAN
         /\ UNCHANGED <<act, held, writing, base>>
<1>1. lockOwner' \in Threads \cup {None} /\ lockCount' \in Nat
  BY Counted DEF IInv, TypeOK, Quit, Unlock, lock
<1>2. QED
  BY <1>1 DEF IInv, TypeOK, Quit, Go, Points

LEMMA TypeStep == IInv /\ Next => TypeOK'
<1> SUFFICES ASSUME IInv, Next PROVE TypeOK'
  OBVIOUS
<1> USE JobsAssumption, ThreadsAssumption, Counted
<1>t. TypeOK
  BY DEF IInv
<1> USE <1>t DEF TypeOK, Draining, Exclusive, Points, Pooled, Jobs, Threads, Go,
    sessions, lock, gate
<1>1. ASSUME NEW j \in Jobs, Schedule(j) \/ Transact(j) \/ Guarded(j)
      PROVE  TypeOK'
  <2>1. CASE Start(j)
    BY <2>1 DEF Start, FreeWorkers
  <2>2. CASE Await(j)
    BY <2>2 DEF Await, Running
  <2>3. CASE Resume(j)
    BY <2>3 DEF Resume, FreeWorkers, IInv, ThreadsInv, SessionsInv, Inside
  <2>4. CASE Leave(j)
    BY <2>4, QuitType DEF Leave
  <2>5. CASE Query(j)
    BY <2>5, QuitType DEF Query, Enter
  <2>6. CASE Flush(j)
    <3>1. CASE act[j] = "none" /\ closed
      BY <2>6, <3>1, QuitType DEF Flush
    <3>2. CASE ~(act[j] = "none" /\ closed)
      BY <2>6, <3>2 DEF Flush, Enter
    <3>3. QED
      BY <3>1, <3>2
  <2>7. CASE Acquire(j)
    <3>1. on[j] \in Threads
      BY <2>7 DEF Acquire, IInv, ThreadsInv, SessionsInv, Inside
    <3>2. lockOwner' \in Threads \cup {None} /\ lockCount' \in Nat
      BY <2>7, <3>1 DEF Acquire, Lock
    <3>3. QED
      BY <2>7, <3>2 DEF Acquire
  <2>8. CASE Write(j)
    BY <2>8 DEF Write
  <2>9. CASE Busy(j)
    BY <2>9 DEF Busy
  <2>10. CASE EndTransaction(j)
    BY <2>10 DEF EndTransaction, Running
  <2>11. CASE Release(j)
    BY <2>11 DEF Release, Unlock, IInv, ThreadsInv, SessionsInv, Inside
  <2>12. CASE Close(j)
    BY <2>12 DEF Close, Unlock, FreeWorkers
  <2>13. CASE WantGuard(j)
    BY <2>13 DEF WantGuard, Running
  <2>14. CASE TakeGuard(j)
    BY <2>14 DEF TakeGuard, Available, Lock
  <2>15. CASE DropGuard(j)
    BY <2>15 DEF DropGuard, Unlock, Running
  <2>16. QED
    BY <1>1, <2>1, <2>2, <2>3, <2>4, <2>5, <2>6, <2>7, <2>8, <2>9, <2>10, <2>11, <2>12, <2>13, <2>14, <2>15 DEF Schedule, Transact, Guarded
<1>2. ASSUME NEW r \in Restores, Maintain(r)
      PROVE  TypeOK'
  <2>1. CASE CloseGate(r)
    <3>1. r \in Jobs /\ on[r] \in Workers \cup {None}
      BY DEF IInv, ThreadsInv
    <3>2. CASE closed
      BY <2>1, <3>1, <3>2, QuitType DEF CloseGate
    <3>3. CASE ~closed
      BY <2>1, <3>1, <3>3 DEF CloseGate
    <3>4. QED
      BY <3>2, <3>3
  <2>2. CASE Drained(r)
    BY <2>2 DEF Drained
  <2>3. CASE GiveUp(r)
    <3>1. r \in Jobs /\ Quit(r)
      BY <2>3 DEF GiveUp
    <3>2. /\ pc' \in [Jobs -> Points] /\ on' \in [Jobs -> Threads \cup {None}]
          /\ loop' \in Async \cup {None} /\ guard' \in [Jobs -> BOOLEAN]
          /\ lockOwner' \in Threads \cup {None} /\ lockCount' \in Nat
          /\ lapse' \in BOOLEAN /\ UNCHANGED <<act, held, writing, base>>
      BY <3>1, QuitType
    <3>3. QED
      BY <2>3, <3>2 DEF GiveUp, OpenGate
  <2>4. CASE BeginSnapshot(r)
    BY <2>4 DEF BeginSnapshot, Available, Lock
  <2>5. CASE EndSnapshot(r)
    BY <2>5 DEF EndSnapshot, Unlock, IInv, ThreadsInv, SessionsInv, Inside
  <2>6. CASE BeginSwap(r)
    BY <2>6 DEF BeginSwap, Available, Lock
  <2>7. CASE Swap(r)
    BY <2>7 DEF Swap, Unlock, IInv, ThreadsInv, SessionsInv, Inside
  <2>8. CASE Reopen(r)
    BY <2>8 DEF Reopen, OpenGate
  <2>9. QED
    BY <1>2, <2>1, <2>2, <2>3, <2>4, <2>5, <2>6, <2>7, <2>8 DEF Maintain
<1>3. QED
  BY <1>1, <1>2 DEF Next

LEMMA SessionsStep == IInv /\ Next => SessionsInv'
<1> SUFFICES ASSUME IInv, Next PROVE SessionsInv'
  OBVIOUS
<1> USE JobsAssumption, ThreadsAssumption
<1> USE DEF IInv, TypeOK, ThreadsInv, SessionsInv,
    Inside, Draining, Exclusive, Points, Pooled, Jobs, Go, sessions
<1>1. ASSUME NEW j \in Jobs, Schedule(j) \/ Transact(j) \/ Guarded(j)
      PROVE  SessionsInv'
  <2>1. CASE Start(j)
    BY <2>1 DEF Start, FreeWorkers
  <2>2. CASE Await(j)
    BY <2>2 DEF Await, Running
  <2>3. CASE Resume(j)
    BY <2>3 DEF Resume, FreeWorkers
  <2>4. CASE Leave(j)
    BY <2>4 DEF Leave, Quit, Unlock, Running
  <2>5. CASE Query(j)
    BY <2>5 DEF Query, Quit, Enter, Unlock, Running
  <2>6. CASE Flush(j)
    BY <2>6 DEF Flush, Quit, Enter, Unlock, Running
  <2>7. CASE Acquire(j)
    BY <2>7 DEF Acquire, Available, Lock
  <2>8. CASE Write(j)
    BY <2>8 DEF Write
  <2>9. CASE Busy(j)
    BY <2>9 DEF Busy
  <2>10. CASE EndTransaction(j)
    BY <2>10 DEF EndTransaction, Running
  <2>11. CASE Release(j)
    BY <2>11 DEF Release, Unlock
  <2>12. CASE Close(j)
    BY <2>12 DEF Close, Unlock, FreeWorkers
  <2>13. CASE WantGuard(j)
    BY <2>13 DEF WantGuard, Running
  <2>14. CASE TakeGuard(j)
    BY <2>14 DEF TakeGuard, Available, Lock
  <2>15. CASE DropGuard(j)
    BY <2>15 DEF DropGuard, Unlock, Running
  <2>16. QED
    BY <1>1, <2>1, <2>2, <2>3, <2>4, <2>5, <2>6, <2>7, <2>8, <2>9, <2>10, <2>11, <2>12, <2>13, <2>14, <2>15 DEF Schedule, Transact, Guarded
<1>2. ASSUME NEW r \in Restores, Maintain(r)
      PROVE  SessionsInv'
  <2>1. CASE CloseGate(r)
    BY <2>1 DEF CloseGate, Quit, Unlock, Running
  <2>2. CASE Drained(r)
    BY <2>2 DEF Drained
  <2>3. CASE GiveUp(r)
    BY <2>3 DEF GiveUp, Quit, Unlock, OpenGate
  <2>4. CASE BeginSnapshot(r)
    BY <2>4 DEF BeginSnapshot, Available, Lock
  <2>5. CASE EndSnapshot(r)
    BY <2>5 DEF EndSnapshot, Unlock
  <2>6. CASE BeginSwap(r)
    BY <2>6 DEF BeginSwap, Available, Lock
  <2>7. CASE Swap(r)
    BY <2>7 DEF Swap, Unlock
  <2>8. CASE Reopen(r)
    BY <2>8 DEF Reopen, OpenGate
  <2>9. QED
    BY <1>2, <2>1, <2>2, <2>3, <2>4, <2>5, <2>6, <2>7, <2>8 DEF Maintain
<1>3. QED
  BY <1>1, <1>2 DEF Next


\* What taking and giving back a hold do to the number of holds.
LEMMA HoldsFlip ==
  ASSUME IInv, NEW j \in Jobs
  PROVE  /\ ~guard[j] /\ guard' = [guard EXCEPT ![j] = TRUE]
              => Count(guard') = Count(guard) + 1
         /\ guard[j] /\ guard' = [guard EXCEPT ![j] = FALSE]
              => Count(guard') = Count(guard) - 1
         /\ ~held[j] /\ held' = [held EXCEPT ![j] = TRUE]
              => Count(held') = Count(held) + 1
         /\ held[j] /\ held' = [held EXCEPT ![j] = FALSE]
              => Count(held') = Count(held) - 1
<1>1. guard \in [Jobs -> BOOLEAN] /\ held \in [Jobs -> BOOLEAN]
  BY DEF IInv, TypeOK
<1>2. QED
  BY <1>1, CountFlip

\* A thread that takes the free lock, or its own again, for one more hold.
LEMMA Taking ==
  ASSUME IInv, NEW j \in Jobs, on[j] # None, Available(on[j]), Lock(on[j]),
         \/ ~guard[j] /\ guard' = [guard EXCEPT ![j] = TRUE] /\ held' = held
         \/ ~held[j] /\ held' = [held EXCEPT ![j] = TRUE] /\ guard' = guard,
         on' = on, lapse' = lapse
  PROVE  HoldsInv'
<1>1. /\ Count(guard') + Count(held') = Count(guard) + Count(held) + 1
      /\ Count(guard) \in Nat /\ Count(held) \in Nat
  <2>1. CASE ~guard[j] /\ guard' = [guard EXCEPT ![j] = TRUE] /\ held' = held
    <3>1. Count(guard') = Count(guard) + 1
      BY <2>1, HoldsFlip
    <3>2. Count(held') = Count(held)
      BY <2>1
    <3>3. Count(guard) \in Nat /\ Count(held) \in Nat
      BY Counted
    <3>4. QED
      BY <3>1, <3>2, <3>3
  <2>2. CASE ~held[j] /\ held' = [held EXCEPT ![j] = TRUE] /\ guard' = guard
    <3>1. Count(held') = Count(held) + 1
      BY <2>2, HoldsFlip
    <3>2. Count(guard') = Count(guard)
      BY <2>2
    <3>3. Count(guard) \in Nat /\ Count(held) \in Nat
      BY Counted
    <3>4. QED
      BY <3>1, <3>2, <3>3
  <2>3. QED
    BY <2>1, <2>2
<1> USE DEF IInv, LockInv, HoldsInv, TypeOK, Available, Lock
<1>2. \A k \in Jobs : guard'[k] => lockOwner' = on'[k]
  BY Counted
<1>3. \A k \in Jobs : held'[k] /\ on'[k] # None => lockOwner' = on'[k]
  BY Counted
<1>4. /\ lockCount' >= Count(guard') + Count(held')
      /\ ~lapse' => lockCount' = Count(guard') + Count(held')
  BY <1>1
<1>5. lockOwner' = None <=> lockCount' = 0
  OBVIOUS
<1>6. QED
  BY <1>2, <1>3, <1>4, <1>5

\* A thread that gives one of its holds back; its handler may leave with it.
LEMMA Dropping ==
  ASSUME IInv, NEW j \in Jobs, Unlock,
         \/ guard[j] /\ guard' = [guard EXCEPT ![j] = FALSE] /\ held' = held
         \/ held[j] /\ held' = [held EXCEPT ![j] = FALSE] /\ guard' = guard,
         \/ on' = on
         \/ on' = [on EXCEPT ![j] = None] /\ ~guard'[j],
         lapse => lapse'
  PROVE  HoldsInv'
<1>a. guard' \in [Jobs -> BOOLEAN] /\ held' \in [Jobs -> BOOLEAN]
  BY DEF IInv, TypeOK
<1>b. /\ Count(guard') \in Nat /\ Count(held') \in Nat
      /\ Count(guard') = 0 => \A k \in Jobs : ~guard'[k]
      /\ Count(held') = 0 => \A k \in Jobs : ~held'[k]
      /\ lockCount \in Nat \ {0}
  BY <1>a, CountZero, Counted
<1>1. Count(guard') + Count(held') = Count(guard) + Count(held) - 1
  <2>1. CASE guard[j] /\ guard' = [guard EXCEPT ![j] = FALSE] /\ held' = held
    <3>1. Count(guard') = Count(guard) - 1
      BY <2>1, HoldsFlip
    <3>2. Count(held') = Count(held)
      BY <2>1
    <3>3. Count(guard) \in Nat /\ Count(held) \in Nat
      BY Counted
    <3>4. QED
      BY <3>1, <3>2, <3>3
  <2>2. CASE held[j] /\ held' = [held EXCEPT ![j] = FALSE] /\ guard' = guard
    <3>1. Count(held') = Count(held) - 1
      BY <2>2, HoldsFlip
    <3>2. Count(guard') = Count(guard)
      BY <2>2
    <3>3. Count(guard) \in Nat /\ Count(held) \in Nat
      BY Counted
    <3>4. QED
      BY <3>1, <3>2, <3>3
  <2>3. QED
    BY <2>1, <2>2
<1> USE DEF IInv, LockInv, HoldsInv, TypeOK, Unlock
<1>2. /\ lockCount' >= Count(guard') + Count(held')
      /\ ~lapse' => lockCount' = Count(guard') + Count(held')
      /\ lockOwner' = None <=> lockCount' = 0
  BY <1>b, <1>1, Counted
<1>3. CASE lockCount = 1
  <2>1. \A k \in Jobs : ~guard'[k] /\ ~held'[k]
    BY <1>b, <1>2, <1>3
  <2>2. QED
    BY <1>2, <2>1
<1>4. CASE lockCount # 1
  BY <1>2, <1>4
<1>5. QED
  BY <1>3, <1>4

\* The holds stay what they are; a handler may start or leave.
LEMMA Keeping ==
  ASSUME IInv, NEW j \in Jobs, UNCHANGED <<lock, guard, held>>,
         \/ on' = on
         \/ ~guard[j] /\ (on' = [on EXCEPT ![j] = None] \/ ~held[j]) /\
            \E t : on' = [on EXCEPT ![j] = t],
         lapse => lapse'
  PROVE  HoldsInv'
<1>1. Count(guard') = Count(guard) /\ Count(held') = Count(held)
  OBVIOUS
<1>2. QED
  BY <1>1 DEF IInv, LockInv, HoldsInv, TypeOK, lock

LEMMA Quitting == ASSUME IInv, NEW j \in Jobs, Quit(j) PROVE LockInv'
<1>1. HoldsInv'
  <2>1. CASE guard[j]
    BY <2>1, Dropping DEF Quit, IInv, TypeOK
  <2>2. CASE ~guard[j]
    <3>1. guard' = guard
      BY <2>2 DEF Quit, IInv, TypeOK
    <3>2. QED
      BY <2>2, <3>1, Keeping DEF Quit, IInv, TypeOK
  <2>3. QED
    BY <2>1, <2>2
<1>2. QED
  BY <1>1 DEF LockInv, Quit, Go, IInv, TypeOK

LEMMA LockStep == IInv /\ Next => LockInv'
<1> SUFFICES ASSUME IInv, Next PROVE LockInv'
  OBVIOUS
<1> USE JobsAssumption, ThreadsAssumption
<1>a. TypeOK /\ ThreadsInv /\ SessionsInv /\ LockInv
  BY DEF IInv
<1> USE <1>a DEF LockInv, ThreadsInv, SessionsInv, TypeOK,
    Inside, Draining, Exclusive, Jobs, Go, sessions, lock
<1>1. ASSUME NEW j \in Jobs, Schedule(j) \/ Transact(j) \/ Guarded(j)
      PROVE  LockInv'
  <2>1. CASE Start(j)
    <3>a. ~guard[j] /\ ~held[j] /\ \E t : on' = [on EXCEPT ![j] = t]
      BY <2>1 DEF Start
    <3>1. HoldsInv'
      BY <2>1, <3>a, Keeping DEF Start
    <3>2. QED
      BY <2>1, <3>1 DEF Start, FreeWorkers
  <2>2. CASE Await(j)
    <3>1. HoldsInv'
      BY <2>2, Keeping DEF Await, Running
    <3>2. QED
      BY <2>2, <3>1 DEF Await, Running
  <2>3. CASE Resume(j)
    <3>1. HoldsInv'
      BY <2>3, Keeping DEF Resume
    <3>2. QED
      BY <2>3, <3>1 DEF Resume
  <2>4. CASE Leave(j)
    BY <2>4, Quitting DEF Leave
  <2>5. CASE Query(j)
    <3>1. CASE closed
      BY <2>5, <3>1, Quitting DEF Query
    <3>2. CASE ~closed
      <4>1. HoldsInv'
        BY <2>5, <3>2, Keeping DEF Query, Enter
      <4>2. QED
        BY <2>5, <3>2, <4>1 DEF Query, Enter, Running
    <3>3. QED
      BY <3>1, <3>2
  <2>6. CASE Flush(j)
    <3>1. CASE act[j] = "none" /\ closed
      BY <2>6, <3>1, Quitting DEF Flush
    <3>2. CASE ~(act[j] = "none" /\ closed)
      <4>1. HoldsInv'
        BY <2>6, <3>2, Keeping DEF Flush, Enter
      <4>2. QED
        BY <2>6, <3>2, <4>1 DEF Flush, Enter, Running
    <3>3. QED
      BY <3>1, <3>2
  <2>7. CASE Acquire(j)
    <3>1. HoldsInv'
      BY <2>7, Taking DEF Acquire
    <3>2. QED
      BY <2>7, <3>1 DEF Acquire
  <2>8. CASE Write(j)
    <3>1. HoldsInv'
      BY <2>8, Keeping DEF Write
    <3>2. QED
      BY <2>8, <3>1 DEF Write
  <2>9. CASE Busy(j)
    <3>1. HoldsInv'
      BY <2>9, Keeping DEF Busy
    <3>2. QED
      BY <2>9, <3>1 DEF Busy
  <2>10. CASE EndTransaction(j)
    <3>1. HoldsInv'
      BY <2>10, Keeping DEF EndTransaction, Running
    <3>2. QED
      BY <2>10, <3>1 DEF EndTransaction, Running
  <2>11. CASE Release(j)
    <3>1. HoldsInv'
      BY <2>11, Dropping DEF Release
    <3>2. QED
      BY <2>11, <3>1 DEF Release
  <2>12. CASE Close(j)
    <3>1. CASE ~held[j]
      <4>1. held' = held
        BY <2>12, <3>1 DEF Close
      <4>2. HoldsInv'
        BY <2>12, <3>1, <4>1, Keeping DEF Close
      <4>3. QED
        BY <2>12, <4>1, <4>2 DEF Close
    <3>2. CASE held[j] /\ Unlock
      <4>1. HoldsInv'
        BY <2>12, <3>2, Dropping DEF Close
      <4>2. QED
        BY <2>12, <4>1 DEF Close
    <3>3. CASE held[j] /\ UNCHANGED lock
      <4>1. lapse /\ lapse'
        BY <2>12, <3>3 DEF Close
      <4>2. Count(held') = Count(held) - 1 /\ Count(guard') = Count(guard)
        BY <2>12, <3>3, HoldsFlip DEF Close
      <4>3. Count(held) \in Nat /\ Count(guard) \in Nat
        BY Counted
      <4>4. lockCount' >= Count(guard') + Count(held')
        BY <3>3, <4>2, <4>3 DEF HoldsInv
      <4>5. QED
        BY <2>12, <3>3, <4>1, <4>4 DEF Close, HoldsInv
    <3>4. QED
      BY <2>12, <3>1, <3>2, <3>3 DEF Close
  <2>13. CASE WantGuard(j)
    <3>1. HoldsInv'
      BY <2>13, Keeping DEF WantGuard, Running
    <3>2. QED
      BY <2>13, <3>1 DEF WantGuard, Running
  <2>14. CASE TakeGuard(j)
    <3>1. HoldsInv'
      BY <2>14, Taking DEF TakeGuard
    <3>2. QED
      BY <2>14, <3>1 DEF TakeGuard
  <2>15. CASE DropGuard(j)
    <3>1. HoldsInv'
      BY <2>15, Dropping DEF DropGuard, Running
    <3>2. QED
      BY <2>15, <3>1 DEF DropGuard, Running
  <2>16. QED
    BY <1>1, <2>1, <2>2, <2>3, <2>4, <2>5, <2>6, <2>7, <2>8, <2>9, <2>10, <2>11, <2>12, <2>13, <2>14, <2>15 DEF Schedule, Transact, Guarded
<1>2. ASSUME NEW r \in Restores, Maintain(r)
      PROVE  LockInv'
  <2>1. CASE CloseGate(r)
    <3>1. CASE closed
      BY <2>1, <3>1, Quitting DEF CloseGate
    <3>2. CASE ~closed
      <4>1. HoldsInv'
        BY <2>1, <3>2, Keeping DEF CloseGate, Enter
      <4>2. QED
        BY <2>1, <3>2, <4>1 DEF CloseGate, Enter, Running
    <3>3. QED
      BY <3>1, <3>2
  <2>2. CASE Drained(r)
    <3>1. HoldsInv'
      BY <2>2, Keeping DEF Drained
    <3>2. QED
      BY <2>2, <3>1 DEF Drained
  <2>3. CASE GiveUp(r)
    BY <2>3, Quitting DEF GiveUp
  <2>4. CASE BeginSnapshot(r)
    <3>1. HoldsInv'
      BY <2>4, Taking DEF BeginSnapshot
    <3>2. QED
      BY <2>4, <3>1 DEF BeginSnapshot
  <2>5. CASE EndSnapshot(r)
    <3>1. HoldsInv'
      BY <2>5, Dropping DEF EndSnapshot
    <3>2. QED
      BY <2>5, <3>1 DEF EndSnapshot
  <2>6. CASE BeginSwap(r)
    <3>1. HoldsInv'
      BY <2>6, Taking DEF BeginSwap
    <3>2. QED
      BY <2>6, <3>1 DEF BeginSwap
  <2>7. CASE Swap(r)
    <3>1. HoldsInv'
      BY <2>7, Dropping DEF Swap
    <3>2. QED
      BY <2>7, <3>1 DEF Swap
  <2>8. CASE Reopen(r)
    <3>1. HoldsInv'
      BY <2>8, Keeping DEF Reopen
    <3>2. QED
      BY <2>8, <3>1 DEF Reopen
  <2>9. QED
    BY <1>2, <2>1, <2>2, <2>3, <2>4, <2>5, <2>6, <2>7, <2>8 DEF Maintain
<1>3. QED
  BY <1>1, <1>2 DEF Next

\* The count of _active_sessions follows the open transactions.
LEMMA Entering ==
  ASSUME IInv, NEW j \in Jobs, act[j] # "active", Enter(j)
  PROVE  active' = Cardinality(Open')
<1>1. IsFiniteSet(Open) /\ Cardinality(Open) = active /\ active \in Nat
  BY SubsetsFinite DEF IInv, TypeOK, GateInv, Open
<1>2. Open' = Open \cup {j} /\ j \notin Open
  BY DEF IInv, TypeOK, Enter, Open
<1>3. QED
  BY <1>1, <1>2, FS_AddElement DEF Enter

LEMMA Leaving ==
  ASSUME IInv, NEW j \in Jobs, act[j] = "active", act' = [act EXCEPT ![j] = "none"],
         active' = active - 1
  PROVE  active' = Cardinality(Open')
<1>1. IsFiniteSet(Open) /\ Cardinality(Open) = active /\ active \in Nat
  BY SubsetsFinite DEF IInv, TypeOK, GateInv, Open
<1>2. Open' = Open \ {j} /\ j \in Open
  BY DEF IInv, TypeOK, Open
<1>3. QED
  BY <1>1, <1>2, FS_RemoveElement

LEMMA GateStep == IInv /\ Next => GateInv'
<1> SUFFICES ASSUME IInv, Next PROVE GateInv'
  OBVIOUS
<1> USE JobsAssumption, ThreadsAssumption
<1>a. TypeOK /\ ThreadsInv /\ SessionsInv /\ GateInv
  BY DEF IInv
<1> USE <1>a DEF GateInv, GateHasAnOwner, ThreadsInv, SessionsInv, TypeOK,
    Inside, Draining, Exclusive, Jobs, Go, sessions, gate
<1>1. ASSUME NEW j \in Jobs, Schedule(j) \/ Transact(j) \/ Guarded(j)
      PROVE  GateInv'
  <2>1. CASE Start(j)
    <3>1. Open' = Open /\ active' = active
      BY <2>1 DEF Start, Open
    <3>2. QED
      BY <2>1, <3>1 DEF Start
  <2>2. CASE Await(j)
    <3>1. Open' = Open /\ active' = active
      BY <2>2 DEF Await, Running, Open
    <3>2. QED
      BY <2>2, <3>1 DEF Await, Running
  <2>3. CASE Resume(j)
    <3>1. Open' = Open /\ active' = active
      BY <2>3 DEF Resume, Open
    <3>2. QED
      BY <2>3, <3>1 DEF Resume
  <2>4. CASE Leave(j)
    <3>1. Open' = Open /\ active' = active
      BY <2>4 DEF Leave, Quit, Open
    <3>2. pc' = [pc EXCEPT ![j] = pc'[j]] /\ pc[j] \notin Inside /\ pc'[j] \notin Inside
      BY <2>4 DEF Leave, Quit, Running
    <3>3. QED
      BY <2>4, <3>1, <3>2 DEF Leave, Quit, Running
  <2>5. CASE Query(j)
    <3>1. CASE closed
      <4>1. Open' = Open /\ active' = active
        BY <2>5, <3>1 DEF Query, Quit, Open
      <4>2. QED
        BY <2>5, <3>1, <4>1 DEF Query, Quit, Running
    <3>2. CASE ~closed
      <4>1. active' = Cardinality(Open')
        BY <2>5, <3>2, Entering DEF Query
      <4>2. \A r \in Restores : pc[r] \notin Inside
        BY <3>2
      <4>3. QED
        BY <2>5, <3>2, <4>1, <4>2 DEF Query, Enter, Running
    <3>3. QED
      BY <3>1, <3>2
  <2>6. CASE Flush(j)
    <3>1. CASE act[j] = "active" \/ closed
      <4>1. Open' = Open /\ active' = active
        BY <2>6, <3>1 DEF Flush, Quit, Open
      <4>2. QED
        BY <2>6, <3>1, <4>1 DEF Flush, Quit, Running
    <3>2. CASE act[j] = "none" /\ ~closed
      <4>1. active' = Cardinality(Open')
        BY <2>6, <3>2, Entering DEF Flush
      <4>2. \A r \in Restores : pc[r] \notin Inside
        BY <3>2
      <4>3. QED
        BY <2>6, <3>2, <4>1, <4>2 DEF Flush, Enter, Running
    <3>3. act[j] \in {"none", "active"}
      BY <2>6 DEF Flush, Running
    <3>4. QED
      BY <3>1, <3>2, <3>3
  <2>7. CASE Acquire(j)
    <3>1. Open' = Open /\ active' = active
      BY <2>7 DEF Acquire, Open
    <3>2. QED
      BY <2>7, <3>1 DEF Acquire
  <2>8. CASE Write(j)
    <3>1. Open' = Open /\ active' = active
      BY <2>8 DEF Write, Open
    <3>2. QED
      BY <2>8, <3>1 DEF Write
  <2>9. CASE Busy(j)
    <3>1. Open' = Open /\ active' = active
      BY <2>9 DEF Busy, Open
    <3>2. QED
      BY <2>9, <3>1 DEF Busy
  <2>10. CASE EndTransaction(j)
    <3>1. active' = Cardinality(Open')
      BY <2>10, Leaving DEF EndTransaction
    <3>2. active = 0 => FALSE
      BY <2>10, Counted DEF EndTransaction
    <3>3. QED
      BY <2>10, <3>1, <3>2 DEF EndTransaction, Running
  <2>11. CASE Release(j)
    <3>1. Open' = Open /\ active' = active
      BY <2>11 DEF Release, Open
    <3>2. QED
      BY <2>11, <3>1 DEF Release
  <2>12. CASE Close(j)
    <3>1. CASE act[j] = "active"
      <4>1. active' = Cardinality(Open')
        BY <2>12, <3>1, Leaving DEF Close
      <4>2. active # 0
        BY <2>12, <3>1, Counted
      <4>3. QED
        BY <2>12, <3>1, <4>1, <4>2 DEF Close
    <3>2. CASE act[j] # "active"
      <4>1. Open' = Open /\ active' = active
        BY <2>12, <3>2 DEF Close, Open
      <4>2. QED
        BY <2>12, <4>1 DEF Close
    <3>3. QED
      BY <3>1, <3>2
  <2>13. CASE WantGuard(j)
    <3>1. Open' = Open /\ active' = active
      BY <2>13 DEF WantGuard, Running, Open
    <3>2. QED
      BY <2>13, <3>1 DEF WantGuard, Running
  <2>14. CASE TakeGuard(j)
    <3>1. Open' = Open /\ active' = active
      BY <2>14 DEF TakeGuard, Open
    <3>2. QED
      BY <2>14, <3>1 DEF TakeGuard
  <2>15. CASE DropGuard(j)
    <3>1. Open' = Open /\ active' = active
      BY <2>15 DEF DropGuard, Running, Open
    <3>2. QED
      BY <2>15, <3>1 DEF DropGuard, Running
  <2>16. QED
    BY <1>1, <2>1, <2>2, <2>3, <2>4, <2>5, <2>6, <2>7, <2>8, <2>9, <2>10, <2>11, <2>12, <2>13, <2>14, <2>15 DEF Schedule, Transact, Guarded
<1>2. ASSUME NEW r \in Restores, Maintain(r)
      PROVE  GateInv'
  <2>1. CASE CloseGate(r)
    <3>1. Open' = Open /\ active' = active
      BY <2>1 DEF CloseGate, Quit, Running, Open
    <3>2. QED
      BY <2>1, <3>1 DEF CloseGate, Quit, Running
  <2>2. CASE Drained(r)
    <3>1. Open' = Open /\ active' = active
      BY <2>2 DEF Drained, Open
    <3>2. GateHasAnOwner'
      BY <2>2 DEF Drained
    <3>3. QED
      BY <2>2, <3>1, <3>2 DEF Drained
  <2>3. CASE GiveUp(r)
    <3>1. Open' = Open /\ active' = active
      BY <2>3 DEF GiveUp, Quit, OpenGate, Open
    <3>2. QED
      BY <2>3, <3>1 DEF GiveUp, Quit, OpenGate
  <2>4. CASE BeginSnapshot(r)
    <3>1. Open' = Open /\ active' = active
      BY <2>4 DEF BeginSnapshot, Open
    <3>2. QED
      BY <2>4, <3>1 DEF BeginSnapshot
  <2>5. CASE EndSnapshot(r)
    <3>1. Open' = Open /\ active' = active
      BY <2>5 DEF EndSnapshot, Open
    <3>2. QED
      BY <2>5, <3>1 DEF EndSnapshot
  <2>6. CASE BeginSwap(r)
    <3>1. Open' = Open /\ active' = active
      BY <2>6 DEF BeginSwap, Open
    <3>2. QED
      BY <2>6, <3>1 DEF BeginSwap
  <2>7. CASE Swap(r)
    <3>1. Open' = Open /\ active' = active
      BY <2>7 DEF Swap, Open
    <3>2. QED
      BY <2>7, <3>1 DEF Swap
  <2>8. CASE Reopen(r)
    <3>1. Open' = Open /\ active' = active
      BY <2>8 DEF Reopen, OpenGate, Open
    <3>2. QED
      BY <2>8, <3>1 DEF Reopen, OpenGate
  <2>9. QED
    BY <1>2, <2>1, <2>2, <2>3, <2>4, <2>5, <2>6, <2>7, <2>8 DEF Maintain
<1>3. QED
  BY <1>1, <1>2 DEF Next

LEMMA BaseStep == IInv /\ Next => TransactionsKeepTheirDatabase'
<1> SUFFICES ASSUME IInv, Next PROVE TransactionsKeepTheirDatabase'
  OBVIOUS
<1> USE JobsAssumption, ThreadsAssumption
<1>a. TypeOK /\ GateInv /\ TransactionsKeepTheirDatabase
  BY DEF IInv
<1> USE <1>a DEF TransactionsKeepTheirDatabase, GateInv, TypeOK,
    Exclusive, Jobs, Go, sessions
<1>1. ASSUME NEW j \in Jobs, Schedule(j) \/ Transact(j) \/ Guarded(j)
      PROVE  TransactionsKeepTheirDatabase'
  <2>1. CASE Start(j)
    BY <2>1 DEF Start, FreeWorkers
  <2>2. CASE Await(j)
    BY <2>2 DEF Await, Running
  <2>3. CASE Resume(j)
    BY <2>3 DEF Resume, FreeWorkers
  <2>4. CASE Leave(j)
    BY <2>4 DEF Leave, Quit, Unlock, Running
  <2>5. CASE Query(j)
    BY <2>5 DEF Query, Quit, Enter, Unlock, Running
  <2>6. CASE Flush(j)
    BY <2>6 DEF Flush, Quit, Enter, Unlock, Running
  <2>7. CASE Acquire(j)
    BY <2>7 DEF Acquire, Available, Lock
  <2>8. CASE Write(j)
    BY <2>8 DEF Write
  <2>9. CASE Busy(j)
    BY <2>9 DEF Busy
  <2>10. CASE EndTransaction(j)
    BY <2>10 DEF EndTransaction, Running
  <2>11. CASE Release(j)
    BY <2>11 DEF Release, Unlock
  <2>12. CASE Close(j)
    BY <2>12 DEF Close, Unlock, FreeWorkers
  <2>13. CASE WantGuard(j)
    BY <2>13 DEF WantGuard, Running
  <2>14. CASE TakeGuard(j)
    BY <2>14 DEF TakeGuard, Available, Lock
  <2>15. CASE DropGuard(j)
    BY <2>15 DEF DropGuard, Unlock, Running
  <2>16. QED
    BY <1>1, <2>1, <2>2, <2>3, <2>4, <2>5, <2>6, <2>7, <2>8, <2>9, <2>10, <2>11, <2>12, <2>13, <2>14, <2>15 DEF Schedule, Transact, Guarded
<1>2. ASSUME NEW r \in Restores, Maintain(r)
      PROVE  TransactionsKeepTheirDatabase'
  <2>1. CASE CloseGate(r)
    BY <2>1 DEF CloseGate, Quit, Unlock, Running
  <2>2. CASE Drained(r)
    BY <2>2 DEF Drained
  <2>3. CASE GiveUp(r)
    BY <2>3 DEF GiveUp, Quit, Unlock, OpenGate
  <2>4. CASE BeginSnapshot(r)
    BY <2>4 DEF BeginSnapshot, Available, Lock
  <2>5. CASE EndSnapshot(r)
    BY <2>5 DEF EndSnapshot, Unlock
  <2>6. CASE BeginSwap(r)
    BY <2>6 DEF BeginSwap, Available, Lock
  <2>7. CASE Swap(r)
    <3>1. \A j \in Jobs : act[j] # "active"
      BY <2>7, Counted DEF Swap
    <3>2. QED
      BY <2>7, <3>1 DEF Swap
  <2>8. CASE Reopen(r)
    BY <2>8 DEF Reopen, OpenGate
  <2>9. QED
    BY <1>2, <2>1, <2>2, <2>3, <2>4, <2>5, <2>6, <2>7, <2>8 DEF Maintain
<1>3. QED
  BY <1>1, <1>2 DEF Next

LEMMA StutterIInv == IInv /\ UNCHANGED vars => IInv'
<1> SUFFICES ASSUME IInv, UNCHANGED vars PROVE IInv'
  OBVIOUS
<1> USE DEF vars, sessions, lock, gate
<1>1. TypeOK' /\ TransactionsKeepTheirDatabase'
  BY DEF IInv, TypeOK, TransactionsKeepTheirDatabase
<1>2. ThreadsInv' /\ SessionsInv'
  BY DEF IInv, ThreadsInv, SessionsInv
<1>3. GateInv'
  BY DEF IInv, GateInv, GateHasAnOwner, Open
<1>4. LockInv'
  BY DEF IInv, LockInv, HoldsInv, Count
<1>5. QED
  BY <1>1, <1>2, <1>3, <1>4 DEF IInv

LEMMA NextIInv == IInv /\ [Next]_vars => IInv'
<1>1. IInv /\ Next => IInv'
  BY TypeStep, ThreadsStep, SessionsStep, GateStep, LockStep, BaseStep DEF IInv
<1>2. QED
  BY <1>1, StutterIInv

\* The inductive invariant holds of every reachable state.
THEOREM Invariance == Spec => []IInv
  BY InitIInv, NextIInv, PTL DEF Spec

\* Types, for every set of requests, workers and restores.
THEOREM TypeCorrect == Spec => []TypeOK
<1>1. IInv => TypeOK
  BY DEF IInv
<1>2. QED
  BY <1>1, Invariance, PTL

\* No transaction spans an exchange of the database files, whatever handlers
\* do with the write lock (exclusive_maintenance).
THEOREM RestoreExcludesTransactions == Spec => []TransactionsKeepTheirDatabase
<1>1. IInv => TransactionsKeepTheirDatabase
  BY DEF IInv
<1>2. QED
  BY <1>1, Invariance, PTL

\* The gate is closed by one restore, which is inside exclusive_maintenance.
THEOREM GateIsOwned == Spec => []GateHasAnOwner
<1>1. IInv => GateHasAnOwner
  BY DEF IInv, GateInv
<1>2. QED
  BY <1>1, Invariance, PTL

\* Without a lapse no statement meets another open write transaction
\* (_acquire_session_write_lock).
THEOREM WritersAreQueued == Spec => []WritersQueue
<1>1. ASSUME IInv, ~lapse, NEW j \in Jobs, NEW k \in Jobs, pc[j] = "dml", writing[k]
      PROVE  FALSE
  <2>1. held[j] /\ held[k] /\ ~writing[j] /\ pc[k] \notin {"idle", "done"}
    BY <1>1 DEF IInv, SessionsInv
  <2>2. /\ pc[k] \notin {"away", "unwind"}
        /\ on[j] # None /\ on[k] # None
    BY <1>1, <2>1 DEF IInv, LockInv, ThreadsInv
  <2>3. on[j] = on[k]
    BY <1>1, <2>1, <2>2 DEF IInv, LockInv, HoldsInv
  <2>4. CASE j \in Pooled /\ k \in Pooled
    BY <1>1, <2>1, <2>2, <2>3, <2>4 DEF IInv, ThreadsInv
  <2>5. CASE j \in Async /\ k \in Async
    <3>1. loop = j /\ loop = k
      BY <1>1, <2>1, <2>2, <2>5 DEF IInv, ThreadsInv
    <3>2. QED
      BY <1>1, <2>1, <3>1
  <2>6. CASE j \in Cycles /\ k \in Cycles
    <3>1. on[j] = j /\ on[k] = k
      BY <1>1, <2>2, <2>6 DEF IInv, ThreadsInv
    <3>2. QED
      BY <1>1, <2>1, <2>3, <3>1
  <2>7. CASE ~(\/ j \in Pooled /\ k \in Pooled
               \/ j \in Async /\ k \in Async
               \/ j \in Cycles /\ k \in Cycles)
    <3>1. /\ \A i \in {j, k} : i \in Pooled => on[i] \in Workers
          /\ \A i \in {j, k} : i \in Async => on[i] = Loop
          /\ \A i \in {j, k} : i \in Cycles => on[i] = i
      BY <1>1, <2>2 DEF IInv, ThreadsInv, Jobs, Pooled
    <3>2. QED
      BY <1>1, <2>3, <2>7, <3>1, ThreadsAssumption DEF Jobs, Pooled
  <2>8. QED
    BY <2>4, <2>5, <2>6, <2>7
<1>2. IInv => WritersQueue
  BY <1>1 DEF WritersQueue
<1>3. QED
  BY <1>2, Invariance, PTL

\* Without a lapse a lock that is taken will be released by whoever holds it.
THEOREM NoLockIsOrphaned == Spec => []NoOrphanedLock
<1>1. ASSUME IInv, ~lapse, lockOwner # None
      PROVE  \E j \in Jobs : guard[j] \/ held[j]
  <2>1. Count(guard) + Count(held) # 0
    BY <1>1 DEF IInv, LockInv, HoldsInv
  <2>2. Count(guard) # 0 \/ Count(held) # 0
    BY <1>1, <2>1, Counted
  <2>3. guard \in [Jobs -> BOOLEAN] /\ held \in [Jobs -> BOOLEAN]
    BY <1>1 DEF IInv, TypeOK
  <2>4. QED
    BY <2>2, <2>3, CountZero
<1>2. IInv => NoOrphanedLock
  BY <1>1 DEF NoOrphanedLock, LockHasAHolder
<1>3. QED
  BY <1>2, Invariance, PTL

-----------------------------------------------------------------------------
(* The simulation of MaintenanceGate.                                       *)

Alone == \E r \in Restores : pc[r] \in Exclusive

\* A job's step that enters or leaves no transaction and moves between points
\* outside exclusive maintenance stutters.
LEMMA Stutters ==
  ASSUME \A k \in Restores : pc'[k] \in Exclusive <=> pc[k] \in Exclusive,
         Open' = Open
  PROVE  UNCHANGED <<Open, Alone>>
  BY DEF Alone

LEMMA InitGate == Init => Exchange!Init
  BY DEF Init, Exchange!Init, Exclusive, Jobs

Simulates == Exchange!Next \/ UNCHANGED <<Open, Alone, generation>>

LEMMA StepGate == IInv /\ Next => Simulates
<1> SUFFICES ASSUME IInv, Next PROVE Simulates
  OBVIOUS
<1> USE JobsAssumption, ThreadsAssumption
<1>a. TypeOK /\ ThreadsInv /\ SessionsInv /\ GateInv
  BY DEF IInv
<1> USE <1>a DEF Simulates, GateInv, ThreadsInv, SessionsInv, TypeOK, Inside,
    Jobs, Go, sessions
<1>1. ASSUME NEW j \in Jobs, Schedule(j) \/ Transact(j) \/ Guarded(j)
      PROVE  Simulates
  <2>1. CASE Start(j)
    <3>1. Open' = Open
      BY <2>1 DEF Start, Open
    <3>2. \A k \in Restores : pc'[k] \in Exclusive <=> pc[k] \in Exclusive
      BY <2>1 DEF Start, Exclusive
    <3>3. UNCHANGED <<Open, Alone>>
      BY <3>1, <3>2, Stutters
    <3>4. QED
      BY <2>1, <3>3 DEF Start
  <2>2. CASE Await(j)
    <3>1. Open' = Open
      BY <2>2 DEF Await, Running, Open
    <3>2. \A k \in Restores : pc'[k] \in Exclusive <=> pc[k] \in Exclusive
      BY <2>2 DEF Await, Running, Exclusive
    <3>3. UNCHANGED <<Open, Alone>>
      BY <3>1, <3>2, Stutters
    <3>4. QED
      BY <2>2, <3>3 DEF Await
  <2>3. CASE Resume(j)
    <3>1. Open' = Open
      BY <2>3 DEF Resume, Open
    <3>2. \A k \in Restores : pc'[k] \in Exclusive <=> pc[k] \in Exclusive
      BY <2>3 DEF Resume, Exclusive
    <3>3. UNCHANGED <<Open, Alone>>
      BY <3>1, <3>2, Stutters
    <3>4. QED
      BY <2>3, <3>3 DEF Resume
  <2>4. CASE Leave(j)
    <3>1. Open' = Open
      BY <2>4 DEF Leave, Quit, Open
    <3>2. \A k \in Restores : pc'[k] \in Exclusive <=> pc[k] \in Exclusive
      BY <2>4 DEF Leave, Quit, Running, Exclusive
    <3>3. UNCHANGED <<Open, Alone>>
      BY <3>1, <3>2, Stutters
    <3>4. QED
      BY <2>4, <3>3 DEF Leave
  <2>5. CASE Query(j)
    <3>1. CASE Open' = Open
      <4>1. \A k \in Restores : pc'[k] \in Exclusive <=> pc[k] \in Exclusive
        BY <2>5 DEF Query, Quit, Running, Exclusive
      <4>2. UNCHANGED <<Open, Alone>>
        BY <3>1, <4>1, Stutters
      <4>3. QED
        BY <2>5, <4>2 DEF Query
    <3>2. CASE Open' # Open
      <4>1. act[j] = "none" /\ ~closed /\ Enter(j)
        BY <2>5, <3>2 DEF Query, Quit, Open
      <4>2. Open' = Open \cup {j} /\ j \notin Open
        BY <4>1 DEF Enter, Open
      <4>3. ~Alone /\ ~Alone'
        BY <2>5, <4>1 DEF Query, Running, Alone, GateInv, GateHasAnOwner, Exclusive
      <4>4. Exchange!Begin(j)
        BY <2>5, <4>2, <4>3 DEF Query, Exchange!Begin, Open, Alone
      <4>5. QED
        BY <4>4 DEF Exchange!Next
    <3>3. QED
      BY <3>1, <3>2
  <2>6. CASE Flush(j)
    <3>1. CASE Open' = Open
      <4>1. \A k \in Restores : pc'[k] \in Exclusive <=> pc[k] \in Exclusive
        BY <2>6 DEF Flush, Quit, Running, Exclusive
      <4>2. UNCHANGED <<Open, Alone>>
        BY <3>1, <4>1, Stutters
      <4>3. QED
        BY <2>6, <4>2 DEF Flush
    <3>2. CASE Open' # Open
      <4>1. act[j] = "none" /\ ~closed /\ Enter(j)
        BY <2>6, <3>2 DEF Flush, Quit, Open
      <4>2. Open' = Open \cup {j} /\ j \notin Open
        BY <4>1 DEF Enter, Open
      <4>3. ~Alone /\ ~Alone'
        BY <2>6, <4>1 DEF Flush, Running, Alone, GateInv, GateHasAnOwner, Exclusive
      <4>4. Exchange!Begin(j)
        BY <2>6, <4>2, <4>3 DEF Flush, Exchange!Begin, Open, Alone
      <4>5. QED
        BY <4>4 DEF Exchange!Next
    <3>3. QED
      BY <3>1, <3>2
  <2>7. CASE Acquire(j)
    <3>1. Open' = Open
      BY <2>7 DEF Acquire, Open
    <3>2. \A k \in Restores : pc'[k] \in Exclusive <=> pc[k] \in Exclusive
      BY <2>7 DEF Acquire, Exclusive
    <3>3. UNCHANGED <<Open, Alone>>
      BY <3>1, <3>2, Stutters
    <3>4. QED
      BY <2>7, <3>3 DEF Acquire
  <2>8. CASE Write(j)
    <3>1. Open' = Open
      BY <2>8 DEF Write, Open
    <3>2. \A k \in Restores : pc'[k] \in Exclusive <=> pc[k] \in Exclusive
      BY <2>8 DEF Write, Exclusive
    <3>3. UNCHANGED <<Open, Alone>>
      BY <3>1, <3>2, Stutters
    <3>4. QED
      BY <2>8, <3>3 DEF Write
  <2>9. CASE Busy(j)
    <3>1. Open' = Open
      BY <2>9 DEF Busy, Open
    <3>2. \A k \in Restores : pc'[k] \in Exclusive <=> pc[k] \in Exclusive
      BY <2>9 DEF Busy, Exclusive
    <3>3. UNCHANGED <<Open, Alone>>
      BY <3>1, <3>2, Stutters
    <3>4. QED
      BY <2>9, <3>3 DEF Busy
  <2>10. CASE EndTransaction(j)
    <3>1. Open' = Open \ {j} /\ j \in Open
      BY <2>10 DEF EndTransaction, Open
    <3>2. Alone' = Alone
      BY <2>10 DEF EndTransaction, Running, Alone, Exclusive
    <3>3. Exchange!End(j)
      BY <2>10, <3>1, <3>2 DEF EndTransaction, Exchange!End, Open, Alone
    <3>4. QED
      BY <3>3 DEF Exchange!Next
  <2>11. CASE Release(j)
    <3>1. Open' = Open
      BY <2>11 DEF Release, Open
    <3>2. \A k \in Restores : pc'[k] \in Exclusive <=> pc[k] \in Exclusive
      BY <2>11 DEF Release, Exclusive
    <3>3. UNCHANGED <<Open, Alone>>
      BY <3>1, <3>2, Stutters
    <3>4. QED
      BY <2>11, <3>3 DEF Release
  <2>12. CASE Close(j)
    <3>1. Alone' = Alone
      BY <2>12 DEF Close, Alone, Exclusive
    <3>2. CASE act[j] = "active"
      <4>1. Open' = Open \ {j} /\ j \in Open
        BY <2>12, <3>2 DEF Close, Open
      <4>2. Exchange!End(j)
        BY <2>12, <3>1, <4>1 DEF Close, Exchange!End, Open, Alone
      <4>3. QED
        BY <4>2 DEF Exchange!Next
    <3>3. CASE act[j] # "active"
      <4>1. Open' = Open
        BY <2>12, <3>3 DEF Close, Open
      <4>2. QED
        BY <2>12, <3>1, <4>1 DEF Close
    <3>4. QED
      BY <3>2, <3>3
  <2>13. CASE WantGuard(j)
    <3>1. Open' = Open
      BY <2>13 DEF WantGuard, Running, Open
    <3>2. \A k \in Restores : pc'[k] \in Exclusive <=> pc[k] \in Exclusive
      BY <2>13 DEF WantGuard, Running, Exclusive
    <3>3. UNCHANGED <<Open, Alone>>
      BY <3>1, <3>2, Stutters
    <3>4. QED
      BY <2>13, <3>3 DEF WantGuard
  <2>14. CASE TakeGuard(j)
    <3>1. Open' = Open
      BY <2>14 DEF TakeGuard, Open
    <3>2. \A k \in Restores : pc'[k] \in Exclusive <=> pc[k] \in Exclusive
      BY <2>14 DEF TakeGuard, Exclusive
    <3>3. UNCHANGED <<Open, Alone>>
      BY <3>1, <3>2, Stutters
    <3>4. QED
      BY <2>14, <3>3 DEF TakeGuard
  <2>15. CASE DropGuard(j)
    <3>1. Open' = Open
      BY <2>15 DEF DropGuard, Open
    <3>2. \A k \in Restores : pc'[k] \in Exclusive <=> pc[k] \in Exclusive
      BY <2>15 DEF DropGuard, Exclusive
    <3>3. UNCHANGED <<Open, Alone>>
      BY <3>1, <3>2, Stutters
    <3>4. QED
      BY <2>15, <3>3 DEF DropGuard
  <2>16. QED
    BY <1>1, <2>1, <2>2, <2>3, <2>4, <2>5, <2>6, <2>7, <2>8, <2>9, <2>10, <2>11, <2>12, <2>13, <2>14, <2>15 DEF Schedule, Transact, Guarded
<1>2. ASSUME NEW r \in Restores, Maintain(r)
      PROVE  Simulates
  <2>1. CASE CloseGate(r)
    <3>1. Open' = Open
      BY <2>1 DEF CloseGate, Quit, Running, Open
    <3>2. \A k \in Restores : pc'[k] \in Exclusive <=> pc[k] \in Exclusive
      BY <2>1 DEF CloseGate, Quit, Running, Exclusive
    <3>3. UNCHANGED <<Open, Alone>>
      BY <3>1, <3>2, Stutters
    <3>4. QED
      BY <2>1, <3>3 DEF CloseGate
  <2>2. CASE Drained(r)
    <3>a. \A k \in Jobs : act[k] # "active"
      BY <2>2, Counted DEF Drained
    <3>1. Open = {} /\ Open' = {}
      BY <2>2, <3>a DEF Drained, Open
    <3>2. ~Alone /\ Alone'
      BY <2>2 DEF Drained, Alone, GateInv, GateHasAnOwner, Draining, Exclusive
    <3>3. Exchange!Exclude
      BY <2>2, <3>1, <3>2 DEF Drained, Exchange!Exclude, Open, Alone
    <3>4. QED
      BY <3>3 DEF Exchange!Next
  <2>3. CASE GiveUp(r)
    <3>1. Open' = Open
      BY <2>3 DEF GiveUp, Quit, Open
    <3>2. \A k \in Restores : pc'[k] \in Exclusive <=> pc[k] \in Exclusive
      BY <2>3 DEF GiveUp, Quit, Exclusive
    <3>3. UNCHANGED <<Open, Alone>>
      BY <3>1, <3>2, Stutters
    <3>4. QED
      BY <2>3, <3>3 DEF GiveUp
  <2>4. CASE BeginSnapshot(r)
    <3>1. Open' = Open
      <4>1. r \in Jobs /\ act[r] = "none" /\ act' = [act EXCEPT ![r] = "owner"]
        BY <2>4 DEF BeginSnapshot, Draining, Exclusive
      <4>2. \A k \in Jobs : act'[k] = "active" <=> act[k] = "active"
        BY <4>1
      <4>3. QED
        BY <4>2 DEF Open
    <3>2. \A k \in Restores : pc'[k] \in Exclusive <=> pc[k] \in Exclusive
      BY <2>4 DEF BeginSnapshot, Exclusive
    <3>3. UNCHANGED <<Open, Alone>>
      BY <3>1, <3>2, Stutters
    <3>4. QED
      BY <2>4, <3>3 DEF BeginSnapshot
  <2>5. CASE EndSnapshot(r)
    <3>1. Open' = Open
      BY <2>5 DEF EndSnapshot, Open
    <3>2. \A k \in Restores : pc'[k] \in Exclusive <=> pc[k] \in Exclusive
      BY <2>5 DEF EndSnapshot, Exclusive
    <3>3. UNCHANGED <<Open, Alone>>
      BY <3>1, <3>2, Stutters
    <3>4. QED
      BY <2>5, <3>3 DEF EndSnapshot
  <2>6. CASE BeginSwap(r)
    <3>1. Open' = Open
      BY <2>6 DEF BeginSwap, Open
    <3>2. \A k \in Restores : pc'[k] \in Exclusive <=> pc[k] \in Exclusive
      BY <2>6 DEF BeginSwap, Exclusive
    <3>3. UNCHANGED <<Open, Alone>>
      BY <3>1, <3>2, Stutters
    <3>4. QED
      BY <2>6, <3>3 DEF BeginSwap
  <2>7. CASE Swap(r)
    <3>1. Open' = Open
      BY <2>7 DEF Swap, Open
    <3>2. Alone /\ Alone'
      BY <2>7 DEF Swap, Alone, Exclusive
    <3>3. Exchange!Exchange
      BY <2>7, <3>1, <3>2 DEF Swap, Exchange!Exchange, Open, Alone
    <3>4. QED
      BY <3>3 DEF Exchange!Next
  <2>8. CASE Reopen(r)
    <3>1. Open' = Open
      BY <2>8 DEF Reopen, Open
    <3>2. Alone /\ ~Alone'
      BY <2>8 DEF Reopen, Alone, GateInv, GateHasAnOwner, Draining, Exclusive
    <3>3. Exchange!Readmit
      BY <2>8, <3>1, <3>2 DEF Reopen, Exchange!Readmit, Open, Alone
    <3>4. QED
      BY <3>3 DEF Exchange!Next
  <2>9. QED
    BY <1>2, <2>1, <2>2, <2>3, <2>4, <2>5, <2>6, <2>7, <2>8 DEF Maintain
<1>3. QED
  BY <1>1, <1>2 DEF Next

\* The runtime's gate implements the abstract gate.
THEOREM Refinement == Spec => ImplementsGate
<1>1. IInv /\ [Next]_vars => [Exchange!Next]_(Exchange!gateVars)
  <2>1. IInv /\ Next => Simulates
    BY StepGate
  <2>2. UNCHANGED vars => UNCHANGED <<Open, Alone, generation>>
    BY DEF vars, sessions, Open, Alone
  <2>3. UNCHANGED <<Open, Alone, generation>> => UNCHANGED Exchange!gateVars
    BY DEF Exchange!gateVars, Open, Alone
  <2>4. QED
    BY <2>1, <2>2, <2>3 DEF Simulates
<1>2. QED
  BY <1>1, InitGate, Invariance, PTL DEF Spec, ImplementsGate, Exchange!Spec

\* Nobody but the restore itself has a transaction open while it is alone, and it
\* has none of its own when it exchanges the files.
ExchangesAreAlone ==
  \A r \in Restores, j \in Jobs :
    /\ pc[r] \in Exclusive /\ j # r => act[j] = "none" /\ ~writing[j]
    /\ pc[r] \in {"swap", "swapping"} => act[r] = "none" /\ ~writing[r]

\* From the end of the drain to readmission the database is a restore's own, even
\* when a handler has left its write transaction to the cleanup
\* (exclusive_maintenance, enter_session_activity).
THEOREM RestoresWorkAlone == Spec => []ExchangesAreAlone
<1>1. ASSUME IInv, NEW r \in Restores, NEW j \in Jobs, pc[r] \in Exclusive, j # r
      PROVE  act[j] = "none" /\ ~writing[j]
  <2>1. r \in Jobs
    BY DEF Jobs
  <2>2. Open = {}
    <3>1. IsFiniteSet(Open)
      BY JobsAssumption, FS_Subset DEF Open
    <3>2. Cardinality(Open) = 0
      BY <1>1 DEF IInv, GateInv
    <3>3. QED
      BY <3>1, <3>2, FS_EmptySet
  <2>3. act[j] # "active"
    BY <2>2 DEF Open
  <2>4. act[j] # "owner"
    <3>1. SUFFICES ASSUME pc[j] = "snapshot" PROVE FALSE
      BY <1>1 DEF IInv, SessionsInv
    <3>2. j \in Restores
      BY <1>1, <3>1 DEF IInv, ThreadsInv, Inside, Exclusive
    <3>3. {pc[r], pc[j]} \subseteq Draining \cup Exclusive
      BY <1>1, <3>1 DEF Exclusive
    <3>4. QED
      BY <1>1, <3>2, <3>3 DEF IInv, GateInv, GateHasAnOwner
  <2>5. act[j] = "none"
    BY <1>1, <2>3, <2>4 DEF IInv, TypeOK
  <2>6. QED
    BY <1>1, <2>5 DEF IInv, SessionsInv
<1>2. ASSUME IInv, NEW r \in Restores, pc[r] \in {"swap", "swapping"}
      PROVE  act[r] = "none" /\ ~writing[r]
  <2>1. r \in Jobs
    BY DEF Jobs
  <2>2. act[r] = "none"
    BY <1>2, <2>1 DEF IInv, SessionsInv, Inside, Exclusive
  <2>3. QED
    BY <1>2, <2>1, <2>2 DEF IInv, SessionsInv
<1>3. IInv => ExchangesAreAlone
  BY <1>1, <1>2 DEF ExchangesAreAlone
<1>4. QED
  BY <1>3, Invariance, PTL

\* Two jobs in the lock at once, by a block or by a session.
InTheLock(j) == guard[j] \/ (held[j] /\ on[j] # None)
LockIsShared ==
  \A j, k \in Jobs : InTheLock(j) /\ InTheLock(k) /\ j # k => {j, k} \subseteq Async

\* The write lock excludes handlers on workers and scheduler cycles from each
\* other and from coroutines, whatever was left to the cleanup; coroutines, which
\* share the loop's thread, it does not keep apart (write_lock is an RLock).
THEOREM LockExcludesThreads == Spec => []LockIsShared
<1>1. ASSUME IInv, NEW j \in Jobs, NEW k \in Jobs, InTheLock(j), InTheLock(k), j # k
      PROVE  {j, k} \subseteq Async
  <2>1. on[j] # None /\ on[k] # None
    BY <1>1 DEF InTheLock, IInv, ThreadsInv, SessionsInv
  <2>2. on[j] = on[k]
    BY <1>1, <2>1 DEF InTheLock, IInv, LockInv, HoldsInv
  <2>3. ~(j \in Pooled /\ k \in Pooled)
    BY <1>1, <2>1, <2>2 DEF IInv, ThreadsInv
  <2>4. ASSUME NEW i \in Jobs, on[i] # None
        PROVE  \/ i \in Pooled /\ on[i] \in Workers
               \/ i \in Async /\ on[i] = Loop
               \/ i \in Cycles /\ on[i] = i
    BY <1>1, <2>4 DEF IInv, ThreadsInv, Jobs, Pooled
  <2>5. QED
    BY <1>1, <2>1, <2>2, <2>3, <2>4, ThreadsAssumption DEF Jobs
<1>2. IInv => LockIsShared
  BY <1>1 DEF LockIsShared
<1>3. QED
  BY <1>2, Invariance, PTL

=============================================================================
