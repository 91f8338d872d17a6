-------------------------- MODULE ThreadPoolProofs --------------------------
(***************************************************************************)
(* Proofs about ThreadPool, for every number of workers, queue size, set   *)
(* of callers and set of failing calls: first about the threads and the    *)
(* life of the pool (IInv), then about the ring buffer, the wakeups and    *)
(* the shutdown (PoolInv), and last that they implement TaskQueue.         *)
(***************************************************************************)
EXTENDS ThreadPool, FiniteSetTheorems, SequenceTheorems, TLAPS

LEMMA Sizes ==
  /\ ThreadCount \in Nat \ {0}
  /\ QueueSize \in Nat \ {0}
  /\ MaxSpurious \in Nat
  /\ 0 \in Slots
BY PoolAssumption DEF MAX_THREADS, MAX_QUEUE, Slots

LEMMA NextSlotType == ASSUME NEW i \in Slots PROVE NextSlot(i) \in Slots
BY PoolAssumption DEF NextSlot, Slots, MAX_QUEUE

LEMMA TypeOKInit == Init => TypeOK
<1> SUFFICES ASSUME Init PROVE TypeOK
  OBVIOUS
<1>1. queue \in [Slots -> Tasks \cup {None}] /\ res \in [Resources -> {"absent", "live", "gone"}]
  BY DEF Init
<1>2. cpc \in [Callers -> CallerPCs] /\ wpc \in [Workers -> WorkerPCs]
  BY DEF Init, CallerPCs, WorkerPCs
<1>3. /\ task \in [Workers -> Tasks \cup {None}]
      /\ arg \in [Callers -> Tasks \cup Shutdowns \cup {None}]
      /\ ran \in [Tasks -> Nat]
  BY DEF Init
<1>4. /\ count \in 0..QueueSize /\ thread_count \in 0..ThreadCount
      /\ started \in 0..ThreadCount /\ joined \in 0..ThreadCount
      /\ spurious \in 0..MaxSpurious
  BY Sizes DEF Init
<1> QED
  BY <1>1, <1>2, <1>3, <1>4, Sizes DEF Init, TypeOK

(* The two sets whose sizes StartedCountsLiveWorkers compares. *)
LEMMA AliveFinite ==
  /\ IsFiniteSet(Alive)
  /\ Cardinality(Alive) \in 0..ThreadCount
<1>1. IsFiniteSet(Workers) /\ Cardinality(Workers) = ThreadCount
  BY Sizes, FS_Interval DEF Workers
<1>2. Alive \in SUBSET Workers
  BY DEF Alive
<1> QED
  BY <1>1, <1>2, FS_Subset, FS_CardinalityType

LEMMA CountingIsCreator ==
  ASSUME CreationAlone
  PROVE  Counting = IF cpc[Creator] = "count" THEN {Creator} ELSE {}
BY PoolAssumption DEF CreationAlone, Creating, Counting

LEMMA CountStaysBelow ==
  ASSUME IInv, NEW c \in Callers, Count(c)
  PROVE  /\ Counting = {Creator}
         /\ started + 1 = Cardinality(Alive)
         /\ started + 1 <= ThreadCount
<1>1. Counting = {Creator}
  BY CountingIsCreator DEF IInv, CreationAlone, Count, Creating
<1>2. started + 1 = Cardinality(Alive)
  BY <1>1, FS_Singleton DEF IInv, StartedCountsLiveWorkers
<1> QED
  BY <1>1, <1>2, AliveFinite

LEMMA ExitingIsCounted ==
  ASSUME IInv, NEW w \in Workers, WorkerExit(w)
  PROVE  /\ Counting = {}
         /\ w \in Alive
         /\ started = Cardinality(Alive)
         /\ started > 0
<1>1. Counting = {}
  BY DEF IInv, CreationAlone, Creating, WorkerExit, Quits, Counting
<1>2. w \in Alive
  BY DEF WorkerExit, Alive
<1>3. started = Cardinality(Alive)
  BY <1>1, FS_EmptySet, AliveFinite DEF IInv, StartedCountsLiveWorkers, TypeOK
<1> QED
  BY <1>1, <1>2, <1>3, AliveFinite, FS_EmptySet

LEMMA TypeOKNext == IInv /\ [Next]_vars => TypeOK'
<1> SUFFICES ASSUME IInv, [Next]_vars PROVE TypeOK'
  OBVIOUS
<1>a. TypeOK /\ CreationAlone /\ Arguments
  BY DEF IInv
<1> USE <1>a, Sizes DEF TypeOK, poolVars, createVars, callerVars, workerVars, historyVars
<1>1. ASSUME NEW c \in Callers, Allocate(c) PROVE TypeOK'
  BY <1>1 DEF Allocate, Goto, CallerPCs
<1>2. ASSUME NEW c \in Callers, Unwind(c) PROVE TypeOK'
  BY <1>2 DEF Unwind, Goto, CallerPCs, ReleasePool, FreedResources
<1>3. ASSUME NEW c \in Callers, UnwindUndefined(c) PROVE TypeOK'
  BY <1>3 DEF UnwindUndefined, Goto, CallerPCs
<1>4. ASSUME NEW c \in Callers, Spawn(c) PROVE TypeOK'
  BY <1>4 DEF Spawn, Goto, CallerPCs, Step, WorkerPCs
<1>5. ASSUME NEW c \in Callers, SpawnFails(c) PROVE TypeOK'
  BY <1>5 DEF SpawnFails, Goto, CallerPCs, Shutdowns
<1>6. ASSUME NEW c \in Callers, Count(c) PROVE TypeOK'
  <2>1. thread_count + 1 <= ThreadCount /\ started + 1 <= ThreadCount
    BY <1>6, CountStaysBelow DEF CreationAlone, Count
  <2> QED
    BY <1>6, <2>1 DEF Count, Goto, CallerPCs
<1>7. ASSUME NEW c \in Callers, Acquire(c) PROVE TypeOK'
  BY <1>7 DEF Acquire, Goto, CallerPCs
<1>8. ASSUME NEW c \in Callers, LockFails(c) PROVE TypeOK'
  BY <1>8 DEF LockFails, Goto, CallerPCs
<1>9. ASSUME NEW c \in Callers, UseFreed(c) PROVE TypeOK'
  BY <1>9 DEF UseFreed, Goto, CallerPCs
<1>10. ASSUME NEW c \in Callers, AddRefused(c) PROVE TypeOK'
  BY <1>10 DEF AddRefused, Goto, CallerPCs
<1>11. ASSUME NEW c \in Callers, AddTask(c) PROVE TypeOK'
  BY <1>11, NextSlotType DEF AddTask, Goto, CallerPCs, Arguments, QueueFull, Signal,
     Waiting, Step, WorkerPCs
<1>12. ASSUME NEW c \in Callers, DestroyRefused(c) PROVE TypeOK'
  BY <1>12 DEF DestroyRefused, Goto, CallerPCs
<1>13. ASSUME NEW c \in Callers, DestroyBegin(c) PROVE TypeOK'
  BY <1>13 DEF DestroyBegin, Goto, CallerPCs, Arguments, Broadcast, WorkerPCs
<1>14. ASSUME NEW c \in Callers, BroadcastFails(c) PROVE TypeOK'
  BY <1>14 DEF BroadcastFails, Goto, CallerPCs, Arguments
<1>15. ASSUME NEW c \in Callers, Join(c) PROVE TypeOK'
  BY <1>15 DEF Join, MoreToJoin
<1>16. ASSUME NEW c \in Callers, JoinFails(c) PROVE TypeOK'
  BY <1>16 DEF JoinFails, MoreToJoin
<1>17. ASSUME NEW c \in Callers, DestroyEnd(c) PROVE TypeOK'
  BY <1>17 DEF DestroyEnd, Goto, CallerPCs, ReleasePool, FreedResources
<1>18. ASSUME NEW c \in Callers, NEW t \in Tasks, AddCall(c, t) PROVE TypeOK'
  BY <1>18 DEF AddCall, MayCall, Goto, CallerPCs
<1>19. ASSUME NEW c \in Callers, NEW mode \in Shutdowns, DestroyCall(c, mode) PROVE TypeOK'
  BY <1>19 DEF DestroyCall, MayCall, Goto, CallerPCs
<1>20. ASSUME NEW w \in Workers, WorkerLock(w) PROVE TypeOK'
  BY <1>20 DEF WorkerLock, Step, WorkerPCs
<1>21. ASSUME NEW w \in Workers, WorkerWait(w) PROVE TypeOK'
  BY <1>21 DEF WorkerWait, Step, WorkerPCs
<1>22. ASSUME NEW w \in Workers, WorkerTake(w) PROVE TypeOK'
  <2>1. NextSlot(head) \in Slots /\ queue[head] \in Tasks \cup {None}
    BY NextSlotType
  <2>2. count > 0
    BY <1>22 DEF WorkerTake, Quits, Shutdowns
  <2>4. task' \in [Workers -> Tasks \cup {None}]
    BY <1>22, <2>1 DEF WorkerTake
  <2>5. count' \in 0..QueueSize
    BY <1>22, <2>2 DEF WorkerTake
  <2>3. ran' \in [Tasks -> Nat]
    <3>1. ran' = [ran EXCEPT ![queue[head]] = ran[queue[head]] + 1]
      BY <1>22 DEF WorkerTake
    <3>2. ran' = [t \in Tasks |-> IF t = queue[head] THEN ran[t] + 1 ELSE ran[t]]
      BY <3>1
    <3>3. \A t \in Tasks : ran[t] \in Nat
      OBVIOUS
    <3> QED
      BY <3>2, <3>3
  <2> QED
    BY <1>22, <2>1, <2>3, <2>4, <2>5 DEF WorkerTake, Step, WorkerPCs
<1>23. ASSUME NEW w \in Workers, WorkerRun(w) PROVE TypeOK'
  BY <1>23 DEF WorkerRun, Step, WorkerPCs
<1>24. ASSUME NEW w \in Workers, WorkerExit(w) PROVE TypeOK'
  <2>1. started > 0
    BY <1>24, ExitingIsCounted
  <2> QED
    BY <1>24, <2>1 DEF WorkerExit, Step, WorkerPCs
<1>25. ASSUME NEW w \in Workers, SpuriousWakeup(w) PROVE TypeOK'
  BY <1>25 DEF SpuriousWakeup, Step, WorkerPCs
<1>26. ASSUME UNCHANGED vars PROVE TypeOK'
  BY <1>26 DEF vars
<1> QED
  BY <1>1, <1>2, <1>3, <1>4, <1>5, <1>6, <1>7, <1>8, <1>9, <1>10, <1>11, <1>12, <1>13, <1>14, <1>15, <1>16, <1>17, <1>18, <1>19, <1>20, <1>21, <1>22, <1>23, <1>24, <1>25, <1>26 DEF Next, Call, Proceed, Create, Add, Destroy, Worker, Finished

-----------------------------------------------------------------------------
(* A worker leaves the callers alone, and only its end touches the counter. *)
LEMMA WorkerFrame ==
  ASSUME NEW w \in Workers, Worker(w) \/ SpuriousWakeup(w)
  PROVE  UNCHANGED <<cpc, arg, published, shutdown, thread_count, res>>
BY DEF Worker, WorkerLock, WorkerWait, WorkerTake, WorkerRun, WorkerExit,
   SpuriousWakeup, poolVars, createVars, callerVars, workerVars, historyVars

LEMMA CreationAloneNext == IInv /\ [Next]_vars => CreationAlone'
<1> SUFFICES ASSUME IInv, [Next]_vars PROVE CreationAlone'
  OBVIOUS
<1>a. TypeOK /\ CreationAlone /\ ShutdownFirst
  BY DEF IInv
<1> USE <1>a, PoolAssumption DEF CreationAlone, Creating, TypeOK, poolVars, createVars, callerVars, workerVars, historyVars
<1>1. ASSUME NEW c \in Callers, Allocate(c) PROVE CreationAlone'
  BY <1>1, Sizes DEF Allocate, Goto, Resources
<1>2. ASSUME NEW c \in Callers, Unwind(c) PROVE CreationAlone'
  BY <1>2 DEF Unwind, Goto
<1>3. ASSUME NEW c \in Callers, UnwindUndefined(c) PROVE CreationAlone'
  BY <1>3 DEF UnwindUndefined, Goto
<1>4. ASSUME NEW c \in Callers, Spawn(c) PROVE CreationAlone'
  BY <1>4 DEF Spawn, Goto
<1>5. ASSUME NEW c \in Callers, SpawnFails(c) PROVE CreationAlone'
  BY <1>5 DEF SpawnFails, Goto
<1>6. ASSUME NEW c \in Callers, Count(c) PROVE CreationAlone'
  <2>1. thread_count \in Nat /\ thread_count + 1 <= ThreadCount
    BY <1>6, Sizes DEF Count
  <2> QED
    BY <1>6, <2>1, Sizes DEF Count, Goto
<1>7. ASSUME NEW c \in Callers, Acquire(c) PROVE CreationAlone'
  BY <1>7 DEF Acquire, Goto
<1>8. ASSUME NEW c \in Callers, LockFails(c) PROVE CreationAlone'
  BY <1>8 DEF LockFails, Goto
<1>9. ASSUME NEW c \in Callers, UseFreed(c) PROVE CreationAlone'
  BY <1>9 DEF UseFreed, Goto
<1>10. ASSUME NEW c \in Callers, AddRefused(c) PROVE CreationAlone'
  BY <1>10 DEF AddRefused, Goto
<1>11. ASSUME NEW c \in Callers, AddTask(c) PROVE CreationAlone'
  BY <1>11 DEF AddTask, Goto
<1>12. ASSUME NEW c \in Callers, DestroyRefused(c) PROVE CreationAlone'
  BY <1>12 DEF DestroyRefused, Goto
<1>13. ASSUME NEW c \in Callers, DestroyBegin(c) PROVE CreationAlone'
  BY <1>13 DEF DestroyBegin, Goto
<1>14. ASSUME NEW c \in Callers, BroadcastFails(c) PROVE CreationAlone'
  BY <1>14 DEF BroadcastFails, Goto
<1>15. ASSUME NEW c \in Callers, Join(c) PROVE CreationAlone'
  BY <1>15 DEF Join
<1>16. ASSUME NEW c \in Callers, JoinFails(c) PROVE CreationAlone'
  BY <1>16 DEF JoinFails
<1>17. ASSUME NEW c \in Callers, DestroyEnd(c) PROVE CreationAlone'
  BY <1>17 DEF DestroyEnd, Goto
<1>18. ASSUME NEW c \in Callers, NEW t \in Tasks, AddCall(c, t) PROVE CreationAlone'
  BY <1>18 DEF AddCall, Goto, MayCall
<1>19. ASSUME NEW c \in Callers, NEW mode \in Shutdowns, DestroyCall(c, mode) PROVE CreationAlone'
  BY <1>19 DEF DestroyCall, Goto, MayCall
<1>20. ASSUME NEW w \in Workers, Worker(w) \/ SpuriousWakeup(w) PROVE CreationAlone'
  BY <1>20, WorkerFrame
<1>21. ASSUME UNCHANGED vars PROVE CreationAlone'
  BY <1>21 DEF vars
<1> QED
  BY <1>1, <1>2, <1>3, <1>4, <1>5, <1>6, <1>7, <1>8, <1>9, <1>10, <1>11,
     <1>12, <1>13, <1>14, <1>15, <1>16, <1>17, <1>18, <1>19, <1>20, <1>21
  DEF Next, Call, Proceed, Create, Add, Destroy, Finished

LEMMA ArgumentsNext == IInv /\ [Next]_vars => Arguments'
<1> SUFFICES ASSUME IInv, [Next]_vars PROVE Arguments'
  OBVIOUS
<1>a. TypeOK /\ Arguments
  BY DEF IInv
<1> USE <1>a DEF Arguments, TypeOK, poolVars, createVars, callerVars, workerVars, historyVars
<1>1. ASSUME NEW c \in Callers, Allocate(c) PROVE Arguments'
  BY <1>1 DEF Allocate, Goto
<1>2. ASSUME NEW c \in Callers, Unwind(c) PROVE Arguments'
  BY <1>2 DEF Unwind, Goto
<1>3. ASSUME NEW c \in Callers, UnwindUndefined(c) PROVE Arguments'
  BY <1>3 DEF UnwindUndefined, Goto
<1>4. ASSUME NEW c \in Callers, Spawn(c) PROVE Arguments'
  BY <1>4 DEF Spawn, Goto
<1>5. ASSUME NEW c \in Callers, SpawnFails(c) PROVE Arguments'
  BY <1>5 DEF SpawnFails, Goto, Shutdowns
<1>6. ASSUME NEW c \in Callers, Count(c) PROVE Arguments'
  BY <1>6 DEF Count, Goto
<1>7. ASSUME NEW c \in Callers, Acquire(c) PROVE Arguments'
  BY <1>7 DEF Acquire, Goto
<1>8. ASSUME NEW c \in Callers, LockFails(c) PROVE Arguments'
  BY <1>8 DEF LockFails, Goto
<1>9. ASSUME NEW c \in Callers, UseFreed(c) PROVE Arguments'
  BY <1>9 DEF UseFreed, Goto
<1>10. ASSUME NEW c \in Callers, AddRefused(c) PROVE Arguments'
  BY <1>10 DEF AddRefused, Goto
<1>11. ASSUME NEW c \in Callers, AddTask(c) PROVE Arguments'
  BY <1>11 DEF AddTask, Goto
<1>12. ASSUME NEW c \in Callers, DestroyRefused(c) PROVE Arguments'
  BY <1>12 DEF DestroyRefused, Goto
<1>13. ASSUME NEW c \in Callers, DestroyBegin(c) PROVE Arguments'
  BY <1>13 DEF DestroyBegin, Goto
<1>14. ASSUME NEW c \in Callers, BroadcastFails(c) PROVE Arguments'
  BY <1>14 DEF BroadcastFails, Goto
<1>15. ASSUME NEW c \in Callers, Join(c) PROVE Arguments'
  BY <1>15 DEF Join
<1>16. ASSUME NEW c \in Callers, JoinFails(c) PROVE Arguments'
  BY <1>16 DEF JoinFails
<1>17. ASSUME NEW c \in Callers, DestroyEnd(c) PROVE Arguments'
  BY <1>17 DEF DestroyEnd, Goto
<1>18. ASSUME NEW c \in Callers, NEW t \in Tasks, AddCall(c, t) PROVE Arguments'
  BY <1>18 DEF AddCall, Goto, MayCall
<1>19. ASSUME NEW c \in Callers, NEW mode \in Shutdowns, DestroyCall(c, mode) PROVE Arguments'
  BY <1>19 DEF DestroyCall, Goto, MayCall
<1>20. ASSUME NEW w \in Workers, Worker(w) \/ SpuriousWakeup(w) PROVE Arguments'
  BY <1>20, WorkerFrame
<1>21. ASSUME UNCHANGED vars PROVE Arguments'
  BY <1>21 DEF vars
<1> QED
  BY <1>1, <1>2, <1>3, <1>4, <1>5, <1>6, <1>7, <1>8, <1>9, <1>10, <1>11,
     <1>12, <1>13, <1>14, <1>15, <1>16, <1>17, <1>18, <1>19, <1>20, <1>21
  DEF Next, Call, Proceed, Create, Add, Destroy, Finished

LEMMA ShutdownFirstNext == IInv /\ [Next]_vars => ShutdownFirst'
<1> SUFFICES ASSUME IInv, [Next]_vars PROVE ShutdownFirst'
  OBVIOUS
<1>a. TypeOK /\ ShutdownFirst /\ Arguments
  BY DEF IInv
<1> USE <1>a DEF ShutdownFirst, TypeOK, poolVars, createVars, callerVars, workerVars, historyVars
<1>1. ASSUME NEW c \in Callers, Allocate(c) PROVE ShutdownFirst'
  BY <1>1 DEF Allocate, Goto
<1>2. ASSUME NEW c \in Callers, Unwind(c) PROVE ShutdownFirst'
  BY <1>2 DEF Unwind, Goto
<1>3. ASSUME NEW c \in Callers, UnwindUndefined(c) PROVE ShutdownFirst'
  BY <1>3 DEF UnwindUndefined, Goto
<1>4. ASSUME NEW c \in Callers, Spawn(c) PROVE ShutdownFirst'
  BY <1>4 DEF Spawn, Goto, Step
<1>5. ASSUME NEW c \in Callers, SpawnFails(c) PROVE ShutdownFirst'
  BY <1>5 DEF SpawnFails, Goto
<1>6. ASSUME NEW c \in Callers, Count(c) PROVE ShutdownFirst'
  BY <1>6 DEF Count, Goto
<1>7. ASSUME NEW c \in Callers, Acquire(c) PROVE ShutdownFirst'
  BY <1>7 DEF Acquire, Goto
<1>8. ASSUME NEW c \in Callers, LockFails(c) PROVE ShutdownFirst'
  BY <1>8 DEF LockFails, Goto
<1>9. ASSUME NEW c \in Callers, UseFreed(c) PROVE ShutdownFirst'
  BY <1>9 DEF UseFreed, Goto
<1>10. ASSUME NEW c \in Callers, AddRefused(c) PROVE ShutdownFirst'
  BY <1>10 DEF AddRefused, Goto
<1>11. ASSUME NEW c \in Callers, AddTask(c) PROVE ShutdownFirst'
  BY <1>11 DEF AddTask, Goto, Signal, Waiting, Step
<1>12. ASSUME NEW c \in Callers, DestroyRefused(c) PROVE ShutdownFirst'
  BY <1>12 DEF DestroyRefused, Goto
<1>13. ASSUME NEW c \in Callers, DestroyBegin(c) PROVE ShutdownFirst'
  BY <1>13 DEF DestroyBegin, Goto, Arguments, Shutdowns
<1>14. ASSUME NEW c \in Callers, BroadcastFails(c) PROVE ShutdownFirst'
  BY <1>14 DEF BroadcastFails, Goto
<1>15. ASSUME NEW c \in Callers, Join(c) PROVE ShutdownFirst'
  BY <1>15 DEF Join
<1>16. ASSUME NEW c \in Callers, JoinFails(c) PROVE ShutdownFirst'
  BY <1>16 DEF JoinFails
<1>17. ASSUME NEW c \in Callers, DestroyEnd(c) PROVE ShutdownFirst'
  BY <1>17 DEF DestroyEnd, Goto
<1>18. ASSUME NEW c \in Callers, NEW t \in Tasks, AddCall(c, t) PROVE ShutdownFirst'
  BY <1>18 DEF AddCall, Goto, MayCall
<1>19. ASSUME NEW c \in Callers, NEW mode \in Shutdowns, DestroyCall(c, mode) PROVE ShutdownFirst'
  BY <1>19 DEF DestroyCall, Goto, MayCall
<1>20. ASSUME NEW w \in Workers, Worker(w) \/ SpuriousWakeup(w) PROVE ShutdownFirst'
  BY <1>20 DEF Worker, WorkerLock, WorkerWait, WorkerTake, WorkerRun, WorkerExit,
     SpuriousWakeup, Step, Quits
<1>21. ASSUME UNCHANGED vars PROVE ShutdownFirst'
  BY <1>21 DEF vars
<1> QED
  BY <1>1, <1>2, <1>3, <1>4, <1>5, <1>6, <1>7, <1>8, <1>9, <1>10, <1>11,
     <1>12, <1>13, <1>14, <1>15, <1>16, <1>17, <1>18, <1>19, <1>20, <1>21
  DEF Next, Call, Proceed, Create, Add, Destroy, Finished

-----------------------------------------------------------------------------
(* What StartedCountsLiveWorkers and WorkersBorn depend on; only Spawn,     *)
(* Count and WorkerExit change it.                                         *)
Population == <<Alive, Counting, started, thread_count>>

UnbornUnchanged ==
  \A w \in Workers : wpc'[w] = "unborn" <=> wpc[w] = "unborn"

(* The steps of a caller but for Spawn and Count. *)
OtherStep(c) ==
  \/ Allocate(c) \/ Unwind(c) \/ UnwindUndefined(c) \/ SpawnFails(c)
  \/ Acquire(c) \/ LockFails(c) \/ UseFreed(c) \/ Add(c) \/ Destroy(c)
  \/ Call(c)

LEMMA OtherStepFrame ==
  ASSUME TypeOK, NEW c \in Callers, OtherStep(c)
  PROVE  UNCHANGED Population /\ UnbornUnchanged
<1> USE DEF Population, UnbornUnchanged, Alive, Counting, TypeOK, Goto,
       poolVars, createVars, callerVars, workerVars, historyVars
<1>1. ASSUME Allocate(c) PROVE UNCHANGED Population /\ UnbornUnchanged
  BY <1>1 DEF Allocate
<1>2. ASSUME Unwind(c) PROVE UNCHANGED Population /\ UnbornUnchanged
  BY <1>2 DEF Unwind
<1>3. ASSUME UnwindUndefined(c) PROVE UNCHANGED Population /\ UnbornUnchanged
  BY <1>3 DEF UnwindUndefined
<1>4. ASSUME SpawnFails(c) PROVE UNCHANGED Population /\ UnbornUnchanged
  BY <1>4 DEF SpawnFails
<1>5. ASSUME Acquire(c) PROVE UNCHANGED Population /\ UnbornUnchanged
  BY <1>5 DEF Acquire
<1>6. ASSUME LockFails(c) PROVE UNCHANGED Population /\ UnbornUnchanged
  BY <1>6 DEF LockFails
<1>7. ASSUME UseFreed(c) PROVE UNCHANGED Population /\ UnbornUnchanged
  BY <1>7 DEF UseFreed
<1>8. ASSUME AddRefused(c) PROVE UNCHANGED Population /\ UnbornUnchanged
  BY <1>8 DEF AddRefused
<1>9. ASSUME AddTask(c) PROVE UNCHANGED Population /\ UnbornUnchanged
  <2>1. wpc' = wpc \/ \E w \in Waiting : wpc' = [wpc EXCEPT ![w] = "woken"]
    BY <1>9 DEF AddTask, Signal, Step
  <2>2. Alive' = Alive /\ UnbornUnchanged
    BY <2>1 DEF Waiting
  <2>3. Counting' = Counting /\ UNCHANGED <<started, thread_count>>
    BY <1>9 DEF AddTask
  <2> QED
    BY <2>2, <2>3
<1>10. ASSUME DestroyRefused(c) PROVE UNCHANGED Population /\ UnbornUnchanged
  BY <1>10 DEF DestroyRefused
<1>11. ASSUME DestroyBegin(c) PROVE UNCHANGED Population /\ UnbornUnchanged
  <2>1. wpc' = [w \in Workers |-> IF wpc[w] = "waiting" THEN "woken" ELSE wpc[w]]
    BY <1>11 DEF DestroyBegin, Broadcast
  <2>2. Alive' = Alive /\ UnbornUnchanged
    BY <2>1 DEF Waiting
  <2>3. Counting' = Counting /\ UNCHANGED <<started, thread_count>>
    BY <1>11 DEF DestroyBegin
  <2> QED
    BY <2>2, <2>3
<1>12. ASSUME BroadcastFails(c) PROVE UNCHANGED Population /\ UnbornUnchanged
  BY <1>12 DEF BroadcastFails
<1>13. ASSUME Join(c) PROVE UNCHANGED Population /\ UnbornUnchanged
  BY <1>13 DEF Join
<1>14. ASSUME JoinFails(c) PROVE UNCHANGED Population /\ UnbornUnchanged
  BY <1>14 DEF JoinFails
<1>15. ASSUME DestroyEnd(c) PROVE UNCHANGED Population /\ UnbornUnchanged
  BY <1>15 DEF DestroyEnd
<1>16. ASSUME NEW t \in Tasks, AddCall(c, t) PROVE UNCHANGED Population /\ UnbornUnchanged
  BY <1>16 DEF AddCall, MayCall
<1>17. ASSUME NEW mode \in Shutdowns, DestroyCall(c, mode) PROVE UNCHANGED Population /\ UnbornUnchanged
  BY <1>17 DEF DestroyCall, MayCall
<1> QED
  BY <1>1, <1>2, <1>3, <1>4, <1>5, <1>6, <1>7, <1>8, <1>9, <1>10, <1>11,
     <1>12, <1>13, <1>14, <1>15, <1>16, <1>17
  DEF OtherStep, Call, Add, Destroy

LEMMA WorkerStepFrame ==
  ASSUME TypeOK, NEW w \in Workers, Worker(w) \/ SpuriousWakeup(w), ~WorkerExit(w)
  PROVE  UNCHANGED Population /\ UnbornUnchanged
BY DEF Population, UnbornUnchanged, Alive, Counting, TypeOK, Step, Worker,
   WorkerLock, WorkerWait, WorkerTake, WorkerRun, SpuriousWakeup, poolVars, createVars, callerVars, workerVars, 
   historyVars

(* A new worker is the first one of the array that does not exist yet. *)
LEMMA SpawnFrame ==
  ASSUME IInv, NEW c \in Callers, Spawn(c)
  PROVE  /\ Counting = {} /\ Counting' = {Creator}
         /\ thread_count + 1 \in Workers
         /\ wpc' = [wpc EXCEPT ![thread_count + 1] = "lock"]
         /\ wpc[thread_count + 1] = "unborn"
         /\ Alive' = Alive \cup {thread_count + 1}
         /\ thread_count + 1 \notin Alive
         /\ UNCHANGED <<started, thread_count>>
<1>1. TypeOK /\ CreationAlone /\ WorkersBorn
  BY DEF IInv
<1>2. c = Creator /\ cpc[Creator] = "spawn" /\ cpc' = [cpc EXCEPT ![Creator] = "count"]
  BY <1>1 DEF CreationAlone, Creating, Spawn, Goto
<1>3. Counting = {}
  BY <1>1, <1>2, CountingIsCreator
<1>4. Counting' = {Creator}
  BY <1>1, <1>2, <1>3, PoolAssumption DEF Counting, TypeOK
<1>5. thread_count \in 0..ThreadCount /\ thread_count < ThreadCount
  BY <1>1 DEF TypeOK, CreationAlone, Spawn
<1>6. thread_count + 1 \in Workers /\ thread_count + 1 > thread_count
  BY <1>5, Sizes DEF Workers
<1>7. wpc[thread_count + 1] = "unborn"
  BY <1>1, <1>3, <1>6 DEF WorkersBorn, Born
<1>8. /\ wpc' = [wpc EXCEPT ![thread_count + 1] = "lock"]
      /\ UNCHANGED <<started, thread_count>>
  BY DEF Spawn, Step, createVars
<1>9. Alive' = Alive \cup {thread_count + 1} /\ thread_count + 1 \notin Alive
  BY <1>1, <1>6, <1>7, <1>8 DEF Alive, TypeOK
<1> QED
  BY <1>3, <1>4, <1>6, <1>7, <1>8, <1>9

LEMMA CountFrame ==
  ASSUME IInv, NEW c \in Callers, Count(c)
  PROVE  /\ Counting = {Creator} /\ Counting' = {}
         /\ wpc' = wpc /\ Alive' = Alive
         /\ started' = started + 1 /\ thread_count' = thread_count + 1
<1>1. TypeOK /\ CreationAlone
  BY DEF IInv
<1>2. Counting = {Creator} /\ c = Creator
  BY <1>1, CountStaysBelow DEF CreationAlone, Creating, Count
<1>3. wpc' = wpc /\ started' = started + 1 /\ thread_count' = thread_count + 1
  BY DEF Count, workerVars
<1>4. Counting' = {}
  BY <1>1, <1>2 DEF Count, Goto, Counting, TypeOK
<1> QED
  BY <1>2, <1>3, <1>4 DEF Alive

LEMMA ExitFrame ==
  ASSUME IInv, NEW w \in Workers, WorkerExit(w)
  PROVE  /\ Counting = {} /\ Counting' = {} /\ UNCHANGED thread_count
         /\ w \in Alive /\ Alive' = Alive \ {w}
         /\ started' = started - 1
         /\ UnbornUnchanged
<1>1. Counting = {} /\ w \in Alive
  BY ExitingIsCounted
<1>2. UNCHANGED <<cpc, thread_count>> /\ started' = started - 1
  BY DEF WorkerExit, callerVars
<1>3. Alive' = Alive \ {w} /\ UnbornUnchanged
  BY DEF IInv, TypeOK, WorkerExit, Step, Alive, UnbornUnchanged
<1> QED
  BY <1>1, <1>2, <1>3 DEF Counting

LEMMA WorkersBornNext == IInv /\ [Next]_vars => WorkersBorn'
<1> SUFFICES ASSUME IInv, [Next]_vars PROVE WorkersBorn'
  OBVIOUS
<1>a. TypeOK /\ WorkersBorn
  BY DEF IInv
<1>b. ASSUME UNCHANGED <<Counting, thread_count>>, UnbornUnchanged PROVE WorkersBorn'
  BY <1>a, <1>b DEF WorkersBorn, Born, UnbornUnchanged
<1>1. ASSUME NEW c \in Callers, Spawn(c) PROVE WorkersBorn'
  <2>1. Born' = Born + 1 /\ Born = thread_count
    BY <1>1, SpawnFrame DEF Born
  <2>2. thread_count \in Nat /\ Workers \subseteq Nat
    BY <1>a, Sizes DEF TypeOK, Workers
  <2> QED
    BY <1>1, <1>a, <2>1, <2>2, SpawnFrame DEF WorkersBorn, TypeOK
<1>2. ASSUME NEW c \in Callers, Count(c) PROVE WorkersBorn'
  BY <1>2, <1>a, CountFrame DEF WorkersBorn, Born
<1>3. ASSUME NEW c \in Callers, OtherStep(c) PROVE WorkersBorn'
  BY <1>3, <1>a, <1>b, OtherStepFrame DEF Population
<1>4. ASSUME NEW w \in Workers, WorkerExit(w) PROVE WorkersBorn'
  BY <1>4, <1>b, ExitFrame
<1>5. ASSUME NEW w \in Workers, Worker(w) \/ SpuriousWakeup(w), ~WorkerExit(w)
      PROVE  WorkersBorn'
  BY <1>5, <1>a, <1>b, WorkerStepFrame DEF Population
<1>6. ASSUME UNCHANGED vars PROVE WorkersBorn'
  BY <1>6, <1>b DEF vars, Counting, UnbornUnchanged
<1> QED
  BY <1>1, <1>2, <1>3, <1>4, <1>5, <1>6
  DEF Next, Proceed, Create, OtherStep, Finished

LEMMA StartedNext == IInv /\ [Next]_vars => StartedCountsLiveWorkers'
<1> SUFFICES ASSUME IInv, [Next]_vars PROVE StartedCountsLiveWorkers'
  OBVIOUS
<1>a. TypeOK /\ StartedCountsLiveWorkers /\ started \in Nat
  BY Sizes DEF IInv, TypeOK
<1>b. ASSUME UNCHANGED <<Alive, Counting, started>> PROVE StartedCountsLiveWorkers'
  BY <1>a, <1>b DEF StartedCountsLiveWorkers
<1>c. Cardinality({}) = 0 /\ Cardinality({Creator}) = 1
  BY FS_EmptySet, FS_Singleton
<1>1. ASSUME NEW c \in Callers, Spawn(c) PROVE StartedCountsLiveWorkers'
  <2>1. Cardinality(Alive') = Cardinality(Alive) + 1
    BY <1>1, SpawnFrame, AliveFinite, FS_AddElement
  <2> QED
    BY <1>1, <1>a, <1>c, <2>1, SpawnFrame, AliveFinite DEF StartedCountsLiveWorkers
<1>2. ASSUME NEW c \in Callers, Count(c) PROVE StartedCountsLiveWorkers'
  BY <1>2, <1>a, <1>c, CountFrame DEF StartedCountsLiveWorkers
<1>3. ASSUME NEW c \in Callers, OtherStep(c) PROVE StartedCountsLiveWorkers'
  BY <1>3, <1>a, <1>b, OtherStepFrame DEF Population
<1>4. ASSUME NEW w \in Workers, WorkerExit(w) PROVE StartedCountsLiveWorkers'
  <2>1. Cardinality(Alive') = Cardinality(Alive) - 1
    BY <1>4, ExitFrame, AliveFinite, FS_RemoveElement
  <2>2. Cardinality(Alive) = started + 0 /\ started' = started - 1 /\ Counting' = {}
    BY <1>4, <1>a, <1>c, ExitFrame DEF StartedCountsLiveWorkers
  <2> QED
    BY <1>a, <1>c, <2>1, <2>2 DEF StartedCountsLiveWorkers
<1>5. ASSUME NEW w \in Workers, Worker(w) \/ SpuriousWakeup(w), ~WorkerExit(w)
      PROVE  StartedCountsLiveWorkers'
  BY <1>5, <1>a, <1>b, WorkerStepFrame DEF Population
<1>6. ASSUME UNCHANGED vars PROVE StartedCountsLiveWorkers'
  BY <1>6, <1>b DEF vars, Counting, Alive
<1> QED
  BY <1>1, <1>2, <1>3, <1>4, <1>5, <1>6
  DEF Next, Proceed, Create, OtherStep, Finished

(* The pool goes only when started is 0, and then no worker is alive. *)
LEMMA ReleasedWhenNoneAlive ==
  ASSUME IInv, NEW c \in Callers, Unwind(c) \/ DestroyEnd(c), res' # res
  PROVE  Alive = {}
<1>1. started = 0
  BY Sizes DEF IInv, TypeOK, Unwind, DestroyEnd, ReleasePool
<1>2. Counting = {}
  <2>1. CASE Unwind(c)
    BY <2>1, CountingIsCreator DEF IInv, CreationAlone, Creating, Unwind
  <2>2. CASE DestroyEnd(c)
    BY <2>2 DEF IInv, CreationAlone, Creating, ShutdownFirst, DestroyEnd, Counting
  <2> QED
    BY <2>1, <2>2
<1>3. Cardinality(Alive) = 0
  BY <1>1, <1>2, FS_EmptySet DEF IInv, StartedCountsLiveWorkers
<1> QED
  BY <1>3, AliveFinite, FS_EmptySet

LEMMA OutlivesNext == IInv /\ [Next]_vars => PoolOutlivesWorkers'
<1> SUFFICES ASSUME IInv, [Next]_vars, res'["pool"] = "gone" PROVE Alive' = {}
  BY DEF PoolOutlivesWorkers, Alive
<1>a. TypeOK /\ CreationAlone /\ (res["pool"] = "gone" => Alive = {})
  BY DEF IInv, PoolOutlivesWorkers, Alive
<1>1. ASSUME NEW c \in Callers, Spawn(c) PROVE FALSE
  BY <1>1, <1>a DEF Spawn, CreationAlone, Creating
<1>2. ASSUME NEW c \in Callers, Count(c) PROVE Alive' = {}
  BY <1>2, <1>a, CountFrame DEF Count
<1>3. ASSUME NEW c \in Callers, OtherStep(c) PROVE Alive' = {}
  <2>1. Alive' = Alive
    BY <1>3, <1>a, OtherStepFrame DEF Population
  <2>2. CASE Allocate(c)
    BY <2>1, <2>2, <1>a DEF Allocate, Resources, TypeOK
  <2>3. CASE Unwind(c) \/ DestroyEnd(c)
    BY <2>1, <2>3, <1>a, ReleasedWhenNoneAlive
  <2>4. CASE res' = res
    BY <2>1, <2>4, <1>a
  <2> QED
    BY <1>3, <2>2, <2>3, <2>4
    DEF OtherStep, UnwindUndefined, SpawnFails, Acquire, LockFails, UseFreed,
        Add, AddRefused, AddTask, Destroy, DestroyRefused, DestroyBegin,
        BroadcastFails, Join, JoinFails, Call, AddCall, DestroyCall
<1>4. ASSUME NEW w \in Workers, Worker(w) \/ SpuriousWakeup(w) PROVE Alive' = {}
  <2>1. res["pool"] = "gone" /\ Alive = {}
    BY <1>4, <1>a, WorkerFrame
  <2> QED
    BY <1>4, <2>1
    DEF Alive, Worker, WorkerLock, WorkerWait, WorkerTake, WorkerRun, WorkerExit,
        SpuriousWakeup
<1>5. ASSUME UNCHANGED vars PROVE Alive' = {}
  BY <1>5, <1>a DEF vars, Alive
<1> QED
  BY <1>1, <1>2, <1>3, <1>4, <1>5
  DEF Next, Proceed, Create, OtherStep, Finished

-----------------------------------------------------------------------------

LEMMA InitIInv == Init => IInv
<1> SUFFICES ASSUME Init PROVE IInv
  OBVIOUS
<1>1. Counting = {} /\ Alive = {}
  BY PoolAssumption DEF Init, Counting, Alive
<1>2. StartedCountsLiveWorkers
  BY <1>1, FS_EmptySet DEF Init, StartedCountsLiveWorkers
<1>3. WorkersBorn
  BY <1>1, Sizes DEF Init, WorkersBorn, Born, Workers
<1>4. CreationAlone /\ Arguments /\ ShutdownFirst /\ PoolOutlivesWorkers
  BY PoolAssumption, Sizes DEF Init, CreationAlone, Creating, Arguments, ShutdownFirst,
     PoolOutlivesWorkers, Resources
<1> QED
  BY <1>2, <1>3, <1>4, TypeOKInit DEF IInv

(* The inductive invariant: together, its parts survive every step. *)
THEOREM PoolInvariant == Spec => []IInv
<1>1. IInv /\ [Next]_vars => IInv'
  BY TypeOKNext, CreationAloneNext, ArgumentsNext, WorkersBornNext, ShutdownFirstNext,
     StartedNext, OutlivesNext DEF IInv
<1> QED
  BY <1>1, InitIInv, PTL DEF Spec

(* Every variable of threadpool.c keeps its range: the ring's indices and   *)
(* count stay within the queue, started and thread_count within the array. *)
THEOREM TypeCorrect == Spec => []TypeOK
<1>1. IInv => TypeOK
  BY DEF IInv
<1> QED
  BY <1>1, PoolInvariant, PTL

(* started, written with and without the lock, counts the live workers. *)
THEOREM StartedIsRight == Spec => []StartedCountsLiveWorkers
<1>1. IInv => StartedCountsLiveWorkers
  BY DEF IInv
<1> QED
  BY <1>1, PoolInvariant, PTL

(* threadpool_free never takes the pool from under a worker, whichever      *)
(* library calls fail and however many callers destroy the pool.           *)
THEOREM NoWorkerOutlivesPool == Spec => []PoolOutlivesWorkers
<1>1. IInv => PoolOutlivesWorkers
  BY DEF IInv
<1> QED
  BY <1>1, PoolInvariant, PTL

-----------------------------------------------------------------------------
(* The ring *)

(* A sum of two offsets wraps at most once. *)
LEMMA WrapOnce ==
  ASSUME NEW n \in 0..(2 * QueueSize - 1)
  PROVE  n % QueueSize = IF n < QueueSize THEN n ELSE n - QueueSize
<1>1. QueueSize \in Nat /\ QueueSize > 0 /\ n \in Nat
  BY Sizes
<1>2. CASE n < QueueSize
  BY <1>1, <1>2
<1>3. CASE n >= QueueSize
  BY <1>1, <1>3
<1> QED
  BY <1>1, <1>2, <1>3

LEMMA SlotWraps ==
  ASSUME NEW h \in Slots, NEW i \in 0..QueueSize
  PROVE  /\ (h + i) % QueueSize \in Slots
         /\ (h + i) % QueueSize = IF h + i < QueueSize THEN h + i ELSE h + i - QueueSize
<1>1. QueueSize \in Nat /\ h \in 0..(QueueSize - 1)
  BY Sizes DEF Slots
<1>2. h + i \in 0..(2 * QueueSize - 1)
  BY <1>1
<1>3. (h + i) % QueueSize = IF h + i < QueueSize THEN h + i ELSE h + i - QueueSize
  <2>1. \A n \in 0..(2 * QueueSize - 1) :
          n % QueueSize = IF n < QueueSize THEN n ELSE n - QueueSize
    BY WrapOnce
  <2> QED
    BY <1>1, <1>2, <2>1
<1>4. (IF h + i < QueueSize THEN h + i ELSE h + i - QueueSize) \in 0..(QueueSize - 1)
  BY <1>1
<1> QED
  BY <1>3, <1>4 DEF Slots

(* Fewer than QueueSize steps apart, two places of the ring are two slots. *)
LEMMA DistinctSlots ==
  ASSUME NEW h \in Slots, NEW i \in 0..(QueueSize - 1), NEW j \in 0..(QueueSize - 1), i # j
  PROVE  (h + i) % QueueSize # (h + j) % QueueSize
<1>1. QueueSize \in Nat /\ h \in 0..(QueueSize - 1) /\ i \in 0..QueueSize /\ j \in 0..QueueSize
  BY Sizes DEF Slots
<1> DEFINE wrap(n) == IF n < QueueSize THEN n ELSE n - QueueSize
<1>2. (h + i) % QueueSize = wrap(h + i) /\ (h + j) % QueueSize = wrap(h + j)
  BY <1>1, SlotWraps
<1>3. wrap(h + i) # wrap(h + j)
  BY <1>1
<1> QED
  BY <1>2, <1>3

(* Stepping NextSlot and then k - 1 places is stepping k places. *)
LEMMA NextSlotShifts ==
  ASSUME NEW h \in Slots, NEW k \in 1..QueueSize
  PROVE  /\ (NextSlot(h) + (k - 1)) % QueueSize = (h + k) % QueueSize
         /\ NextSlot(h) \in Slots
<1>1. QueueSize \in Nat \ {0} /\ h \in 0..(QueueSize - 1) /\ k \in 0..QueueSize
      /\ 1 \in 0..QueueSize /\ k - 1 \in 0..QueueSize
  BY Sizes DEF Slots
<1>2. NextSlot(h) = (IF h + 1 < QueueSize THEN h + 1 ELSE h + 1 - QueueSize)
      /\ NextSlot(h) \in Slots
  BY <1>1, SlotWraps DEF NextSlot
<1>3. (h + k) % QueueSize = IF h + k < QueueSize THEN h + k ELSE h + k - QueueSize
  BY <1>1, SlotWraps
<1>4. (NextSlot(h) + (k - 1)) % QueueSize
        = IF NextSlot(h) + (k - 1) < QueueSize THEN NextSlot(h) + (k - 1)
          ELSE NextSlot(h) + (k - 1) - QueueSize
  BY <1>1, <1>2, SlotWraps
<1>5. CASE h + 1 < QueueSize
  <2>1. NextSlot(h) + (k - 1) = h + k
    BY <1>1, <1>2, <1>5
  <2> QED
    BY <1>1, <1>2, <2>1
<1>6. CASE h + 1 = QueueSize
  <2>1. NextSlot(h) = 0
    BY <1>1, <1>2, <1>6
  <2> QED
    <3>1. NextSlot(h) + (k - 1) = k - 1 /\ k - 1 < QueueSize
      BY <1>1, <2>1
    <3>2. ~(h + k < QueueSize) /\ h + k - QueueSize = k - 1
      BY <1>1, <1>6
    <3> QED
      BY <1>2, <1>3, <1>4, <3>1, <3>2
<1> QED
  BY <1>1, <1>2, <1>5, <1>6

(* AddTask appends to the queued tasks ... *)
LEMMA AddShape ==
  ASSUME IInv, RingConsistent, NEW c \in Callers, AddTask(c)
  PROVE  /\ count < QueueSize /\ count' = count + 1 /\ tail' = (head' + count') % QueueSize
         /\ \A k \in 1..count : Pending'[k] = Pending[k]
         /\ Pending'[count + 1] = arg[c]
<1>1. /\ head \in Slots /\ tail \in Slots /\ count \in 0..QueueSize
      /\ queue \in [Slots -> Tasks \cup {None}] /\ QueueSize \in Nat \ {0}
  BY Sizes DEF IInv, TypeOK
<1>2. count < QueueSize /\ count' = count + 1
  BY <1>1 DEF AddTask, QueueFull
<1>3. /\ queue' = [queue EXCEPT ![tail] = arg[c]]
      /\ tail' = NextSlot(tail) /\ head' = head
      /\ tail = (head + count) % QueueSize
  BY DEF AddTask, RingConsistent
<1>4. ASSUME NEW k \in 1..count PROVE Pending'[k] = Pending[k]
  <2>1. /\ k - 1 \in 0..(QueueSize - 1) /\ count \in 0..(QueueSize - 1) /\ k - 1 # count
        /\ k \in 1..count' /\ k - 1 \in 0..QueueSize
    BY <1>1, <1>2, <1>4
  <2>2. (head + (k - 1)) % QueueSize # tail
    BY <1>1, <1>3, <2>1, DistinctSlots
  <2>3. (head + (k - 1)) % QueueSize \in Slots
    BY <1>1, <2>1, SlotWraps
  <2>4. head + (k - 1) = head + k - 1
    BY <1>1, <2>1 DEF Slots
  <2>5. queue'[(head + k - 1) % QueueSize] = queue[(head + k - 1) % QueueSize]
    BY <1>1, <1>3, <2>2, <2>3, <2>4
  <2> QED
    BY <1>3, <1>4, <2>1, <2>5 DEF Pending
<1>5. Pending'[count + 1] = arg[c]
  <2>1. count + 1 \in 1..count' /\ head + (count + 1) - 1 = head + count
    BY <1>1, <1>2 DEF Slots
  <2>2. Pending'[count + 1] = queue'[tail]
    BY <1>3, <2>1 DEF Pending
  <2> QED
    BY <1>1, <1>3, <2>2
<1>6. tail' = (head' + count') % QueueSize
  <2>1. count + 1 \in 0..QueueSize /\ count \in 0..QueueSize /\ 1 \in 0..QueueSize
    BY <1>1, <1>2
  <2>2. head \in 0..(QueueSize - 1) /\ tail \in 0..(QueueSize - 1)
    BY <1>1 DEF Slots
  <2>3. tail = IF head + count < QueueSize THEN head + count ELSE head + count - QueueSize
    BY <1>1, <1>3, <2>1, SlotWraps
  <2>4. (tail + 1) % QueueSize = IF tail + 1 < QueueSize THEN tail + 1 ELSE tail + 1 - QueueSize
    BY <1>1, <2>1, SlotWraps
  <2>5. (head + (count + 1)) % QueueSize
          = IF head + (count + 1) < QueueSize THEN head + (count + 1)
            ELSE head + (count + 1) - QueueSize
    BY <1>1, <2>1, SlotWraps
  <2>6. (tail + 1) % QueueSize = (head + (count + 1)) % QueueSize
    <3>1. CASE head + count < QueueSize
      BY <1>1, <2>1, <2>2, <2>3, <2>4, <2>5, <3>1
    <3>2. CASE ~(head + count < QueueSize)
      BY <1>1, <1>2, <2>1, <2>2, <2>3, <2>4, <2>5, <3>2
    <3> QED
      BY <3>1, <3>2
  <2> QED
    BY <1>2, <1>3, <2>6 DEF NextSlot
<1> QED
  BY <1>2, <1>4, <1>5, <1>6

(* ... and WorkerTake removes the oldest one. *)
LEMMA TakeShape ==
  ASSUME IInv, RingConsistent, NEW w \in Workers, WorkerTake(w)
  PROVE  /\ count \in 1..QueueSize /\ count' = count - 1
         /\ tail' = (head' + count') % QueueSize
         /\ queue[head] = Pending[1]
         /\ \A k \in 1..(count - 1) : Pending'[k] = Pending[k + 1]
<1>1. head \in Slots /\ count \in 0..QueueSize /\ QueueSize \in Nat \ {0} /\ Slots \subseteq Nat
  BY Sizes DEF IInv, TypeOK, Slots
<1>2. count > 0 /\ count' = count - 1
  BY <1>1 DEF WorkerTake, Quits, IInv, TypeOK, Shutdowns
<1>3. /\ queue' = queue /\ head' = NextSlot(head) /\ tail' = tail
      /\ tail = (head + count) % QueueSize
  BY DEF WorkerTake, RingConsistent
<1>4. queue[head] = Pending[1]
  <2>1. head + 1 - 1 = head + 0 /\ 1 \in 1..count /\ 0 \in 0..QueueSize
    BY <1>1, <1>2
  <2>2. (head + 0) % QueueSize = head
    <3>1. (head + 0) % QueueSize
            = IF head + 0 < QueueSize THEN head + 0 ELSE head + 0 - QueueSize
      BY <1>1, <2>1, SlotWraps
    <3>2. head \in 0..(QueueSize - 1)
      BY <1>1 DEF Slots
    <3> QED
      BY <1>1, <3>1, <3>2
  <2>3. Pending[1] = queue[(head + 1 - 1) % QueueSize]
    BY <2>1 DEF Pending
  <2> QED
    BY <2>1, <2>2, <2>3
<1>5. ASSUME NEW k \in 1..(count - 1) PROVE Pending'[k] = Pending[k + 1]
  <2>1. k \in 1..QueueSize /\ k \in 1..count' /\ k + 1 \in 1..count
    BY <1>1, <1>2, <1>5
  <2>2. (NextSlot(head) + (k - 1)) % QueueSize = (head + k) % QueueSize
        /\ NextSlot(head) \in Slots
    BY <1>1, <2>1, NextSlotShifts
  <2>3. NextSlot(head) + (k - 1) = NextSlot(head) + k - 1 /\ head + k = head + (k + 1) - 1
    BY <1>1, <2>1, <2>2
  <2>4. Pending'[k] = queue[(NextSlot(head) + k - 1) % QueueSize]
    BY <1>3, <2>1 DEF Pending
  <2>5. Pending[k + 1] = queue[(head + (k + 1) - 1) % QueueSize]
    BY <2>1 DEF Pending
  <2> QED
    BY <2>2, <2>3, <2>4, <2>5
<1>6. tail' = (head' + count') % QueueSize
  <2>1. count \in 1..QueueSize
    BY <1>1, <1>2
  <2> QED
    BY <1>1, <1>2, <1>3, <2>1, NextSlotShifts
<1> QED
  BY <1>1, <1>2, <1>4, <1>5, <1>6

(* Nothing else moves a task. *)
TaskVars == <<queue, head, tail, count, accepted, ran>>

LEMMA TaskFrame ==
  ASSUME [Next]_vars
  PROVE  \/ \E c \in Callers : AddTask(c)
         \/ \E w \in Workers : WorkerTake(w)
         \/ UNCHANGED TaskVars
BY DEF Next, Call, Proceed, Create, Add, Destroy, Worker, Finished, Allocate, Unwind,
  UnwindUndefined, Spawn, SpawnFails, Count, Acquire, LockFails, UseFreed, AddRefused,
  DestroyRefused, DestroyBegin, BroadcastFails, Join, JoinFails, DestroyEnd, AddCall,
  DestroyCall, WorkerLock, WorkerWait, WorkerRun, WorkerExit, SpuriousWakeup, TaskVars,
  poolVars, historyVars, vars

-----------------------------------------------------------------------------
(* How often a task is queued *)

Places(t) == {k \in 1..count : Pending[k] = t}

LEMMA FirstNumbersFinite ==
  ASSUME NEW n \in Nat, NEW S \in SUBSET (1..n)
  PROVE  IsFiniteSet(S) /\ Cardinality(S) \in Nat
<1>1. IsFiniteSet(1..n)
  BY FS_Interval
<1> QED
  BY <1>1, FS_Subset, FS_CardinalityType

LEMMA ShiftKeepsSize ==
  ASSUME NEW n \in Nat, NEW S \in SUBSET (1..n)
  PROVE  LET T == {k \in 2..(n + 1) : k - 1 \in S}
         IN  IsFiniteSet(T) /\ Cardinality(T) = Cardinality(S)
<1> DEFINE T == {k \in 2..(n + 1) : k - 1 \in S}
           f == [k \in S |-> k + 1]
<1>1. IsFiniteSet(S)
  BY FirstNumbersFinite
<1>2. f \in [S -> T]
  OBVIOUS
<1>3. \A a, b \in S : f[a] = f[b] => a = b
  OBVIOUS
<1>4. \A u \in T : \E a \in S : f[a] = u
  <2> TAKE u \in T
  <2>1. u - 1 \in S /\ f[u - 1] = u
    OBVIOUS
  <2> QED
    BY <2>1
<1>5. f \in Bijection(S, T)
  BY <1>2, <1>3, <1>4 DEF Bijection, Injection, Surjection, IsInjective
<1> QED
  BY <1>1, <1>5, FS_Bijection DEF ExistsBijection

LEMMA LostNextAdd ==
  ASSUME IInv, QueueInv, NEW c \in Callers, AddTask(c)
  PROVE  NoTaskLostOrRepeated'
<1>1. /\ TypeOK /\ TypeOK' /\ RingConsistent /\ NoTaskLostOrRepeated
      /\ arg[c] \in Tasks /\ arg[c] \notin accepted
  BY TypeOKNext DEF IInv, QueueInv, OffersDistinct, Adding, AddTask, Arguments, Next, Proceed, Add
<1>2. count \in Nat /\ count' = count + 1
  BY <1>1, AddShape, Sizes DEF TypeOK
<1>3. accepted' = accepted \cup {arg[c]} /\ ran' = ran
  BY DEF AddTask
<1> SUFFICES ASSUME NEW t \in Tasks
             PROVE  Cardinality(Places(t)') + ran'[t] = IF t \in accepted' THEN 1 ELSE 0
  BY DEF NoTaskLostOrRepeated, Places
<1>4. Cardinality(Places(t)) + ran[t] = IF t \in accepted THEN 1 ELSE 0
  BY <1>1 DEF NoTaskLostOrRepeated, Places
<1>5. ran[t] \in Nat /\ Cardinality(Places(t)) \in Nat /\ IsFiniteSet(Places(t))
  <2>1. Places(t) \in SUBSET (1..count)
    BY DEF Places
  <2> QED
    BY <1>1, <1>2, <2>1, FirstNumbersFinite DEF TypeOK
<1>6. Places(t)' = IF t = arg[c] THEN Places(t) \cup {count + 1} ELSE Places(t)
  BY <1>1, <1>2, AddShape DEF Places
<1>7. count + 1 \notin Places(t)
  BY <1>2 DEF Places
<1>8. CASE t = arg[c]
  <2>1. Cardinality(Places(t)') = Cardinality(Places(t)) + 1
    BY <1>5, <1>6, <1>7, <1>8, FS_AddElement
  <2> QED
    BY <1>1, <1>3, <1>4, <1>5, <1>8, <2>1
<1>9. CASE t # arg[c]
  BY <1>3, <1>4, <1>6, <1>9
<1> QED
  BY <1>8, <1>9

LEMMA LostNextTake ==
  ASSUME IInv, QueueInv, NEW w \in Workers, WorkerTake(w)
  PROVE  NoTaskLostOrRepeated'
<1>1. TypeOK /\ TypeOK' /\ RingConsistent /\ NoTaskLostOrRepeated
  BY TypeOKNext DEF IInv, QueueInv, Next, Worker
<1>2. count \in Nat \ {0} /\ count' = count - 1 /\ queue[head] = Pending[1]
  BY <1>1, TakeShape, Sizes DEF TypeOK
<1>3. /\ accepted' = accepted
      /\ \A t \in Tasks : ran'[t] = IF t = Pending[1] THEN ran[t] + 1 ELSE ran[t]
  BY <1>1, <1>2 DEF WorkerTake, TypeOK
<1> SUFFICES ASSUME NEW t \in Tasks
             PROVE  Cardinality(Places(t)') + ran'[t] = IF t \in accepted' THEN 1 ELSE 0
  BY DEF NoTaskLostOrRepeated, Places
<1> DEFINE shifted == {k \in 2..(count' + 1) : k - 1 \in Places(t)'}
<1>4. Cardinality(Places(t)) + ran[t] = IF t \in accepted THEN 1 ELSE 0
  BY <1>1 DEF NoTaskLostOrRepeated, Places
<1>5. ran[t] \in Nat /\ count' \in Nat /\ Places(t)' \in SUBSET (1..count')
  BY <1>1, <1>2 DEF TypeOK, Places
<1>6. /\ IsFiniteSet(shifted) /\ Cardinality(shifted) = Cardinality(Places(t)')
      /\ Cardinality(Places(t)') \in Nat
  BY <1>5, ShiftKeepsSize, FirstNumbersFinite
<1>7. Places(t) = IF t = Pending[1] THEN shifted \cup {1} ELSE shifted
  <2>1. \A k \in 2..count : k - 1 \in 1..(count - 1) /\ (k - 1) + 1 = k
    BY <1>2
  <2>2. \A k \in 2..count : k - 1 \in Places(t)' <=> Pending[k] = t
    BY <1>1, <1>2, <2>1, TakeShape DEF Places
  <2>3. shifted = {k \in 2..count : Pending[k] = t}
    BY <1>2, <2>2
  <2>4. 1..count = 2..count \cup {1}
    BY <1>2
  <2> QED
    BY <2>3, <2>4 DEF Places
<1>8. 1 \notin shifted
  OBVIOUS
<1>9. CASE t = Pending[1]
  <2>1. Cardinality(Places(t)) = Cardinality(Places(t)') + 1
    BY <1>6, <1>7, <1>8, <1>9, FS_AddElement
  <2> QED
    BY <1>3, <1>4, <1>5, <1>6, <1>9, <2>1
<1>10. CASE t # Pending[1]
  BY <1>3, <1>4, <1>6, <1>7, <1>10
<1> QED
  BY <1>9, <1>10

LEMMA LostNext ==
  ASSUME IInv, QueueInv, [Next]_vars
  PROVE  NoTaskLostOrRepeated' /\ RingConsistent'
<1>1. CASE UNCHANGED TaskVars
  BY <1>1 DEF TaskVars, QueueInv, RingConsistent, NoTaskLostOrRepeated, Pending
<1>2. ASSUME NEW c \in Callers, AddTask(c)
      PROVE  NoTaskLostOrRepeated' /\ RingConsistent'
  <2>1. RingConsistent /\ count \in Nat /\ arg[c] \in Tasks
    BY <1>2, Sizes DEF QueueInv, IInv, TypeOK, Arguments, AddTask
  <2>2. \A k \in 1..count' : Pending'[k] \in Tasks
    <3>1. \A k \in 1..count : Pending'[k] \in Tasks
      BY <1>2, <2>1, AddShape DEF RingConsistent
    <3>2. count' = count + 1 /\ Pending'[count + 1] \in Tasks
      BY <1>2, <2>1, AddShape
    <3> QED
      BY <2>1, <3>1, <3>2
  <2>3. tail' = (head' + count') % QueueSize
    BY <1>2, <2>1, AddShape
  <2> QED
    BY <1>2, <2>2, <2>3, LostNextAdd DEF RingConsistent
<1>3. ASSUME NEW w \in Workers, WorkerTake(w)
      PROVE  NoTaskLostOrRepeated' /\ RingConsistent'
  <2>1. RingConsistent /\ count \in Nat
    BY Sizes DEF QueueInv, IInv, TypeOK
  <2>2. \A k \in 1..count' : Pending'[k] \in Tasks
    <3>1. \A k \in 1..(count - 1) : Pending[k + 1] \in Tasks
      BY <2>1 DEF RingConsistent
    <3> QED
      BY <1>3, <2>1, <3>1, TakeShape
  <2>3. tail' = (head' + count') % QueueSize
    BY <1>3, <2>1, TakeShape
  <2> QED
    BY <1>3, <2>2, <2>3, LostNextTake DEF RingConsistent
<1> QED
  BY <1>1, <1>2, <1>3, TaskFrame

LEMMA OffersNext ==
  ASSUME TypeOK, OffersDistinct, [Next]_vars
  PROVE  OffersDistinct'
<1> USE DEF TypeOK, OffersDistinct, Adding, poolVars, createVars, callerVars, workerVars,
         historyVars
<1>1. ASSUME NEW c \in Callers, Allocate(c) PROVE OffersDistinct'
  BY <1>1 DEF Allocate, Goto
<1>2. ASSUME NEW c \in Callers, Unwind(c) PROVE OffersDistinct'
  BY <1>2 DEF Unwind, Goto
<1>3. ASSUME NEW c \in Callers, UnwindUndefined(c) PROVE OffersDistinct'
  BY <1>3 DEF UnwindUndefined, Goto
<1>4. ASSUME NEW c \in Callers, Spawn(c) PROVE OffersDistinct'
  BY <1>4 DEF Spawn, Goto
<1>5. ASSUME NEW c \in Callers, SpawnFails(c) PROVE OffersDistinct'
  BY <1>5 DEF SpawnFails, Goto
<1>6. ASSUME NEW c \in Callers, Count(c) PROVE OffersDistinct'
  BY <1>6 DEF Count, Goto
<1>7. ASSUME NEW c \in Callers, Acquire(c) PROVE OffersDistinct'
  BY <1>7 DEF Acquire, Goto
<1>8. ASSUME NEW c \in Callers, LockFails(c) PROVE OffersDistinct'
  BY <1>8 DEF LockFails, Goto
<1>9. ASSUME NEW c \in Callers, UseFreed(c) PROVE OffersDistinct'
  BY <1>9 DEF UseFreed, Goto
<1>10. ASSUME NEW c \in Callers, AddRefused(c) PROVE OffersDistinct'
  BY <1>10 DEF AddRefused, Goto
<1>11. ASSUME NEW c \in Callers, AddTask(c) PROVE OffersDistinct'
  BY <1>11 DEF AddTask, Goto
<1>12. ASSUME NEW c \in Callers, DestroyRefused(c) PROVE OffersDistinct'
  BY <1>12 DEF DestroyRefused, Goto
<1>13. ASSUME NEW c \in Callers, DestroyBegin(c) PROVE OffersDistinct'
  BY <1>13 DEF DestroyBegin, Goto
<1>14. ASSUME NEW c \in Callers, BroadcastFails(c) PROVE OffersDistinct'
  BY <1>14 DEF BroadcastFails, Goto
<1>15. ASSUME NEW c \in Callers, Join(c) PROVE OffersDistinct'
  BY <1>15 DEF Join, Goto
<1>16. ASSUME NEW c \in Callers, JoinFails(c) PROVE OffersDistinct'
  BY <1>16 DEF JoinFails, Goto
<1>17. ASSUME NEW c \in Callers, DestroyEnd(c) PROVE OffersDistinct'
  BY <1>17 DEF DestroyEnd, Goto
<1>18. ASSUME NEW c \in Callers, NEW t \in Tasks, AddCall(c, t) PROVE OffersDistinct'
  BY <1>18 DEF AddCall, MayCall, Goto
<1>19. ASSUME NEW c \in Callers, NEW mode \in Shutdowns, DestroyCall(c, mode) PROVE OffersDistinct'
  BY <1>19 DEF DestroyCall, MayCall, Goto
<1>20. ASSUME NEW w \in Workers, Worker(w) \/ SpuriousWakeup(w) PROVE OffersDistinct'
  BY <1>20 DEF Worker, WorkerLock, WorkerWait, WorkerTake, WorkerRun, WorkerExit, SpuriousWakeup
<1>21. ASSUME UNCHANGED vars PROVE OffersDistinct'
  BY <1>21 DEF vars
<1> QED
  BY <1>1, <1>2, <1>3, <1>4, <1>5, <1>6, <1>7, <1>8, <1>9, <1>10, <1>11,
     <1>12, <1>13, <1>14, <1>15, <1>16, <1>17, <1>18, <1>19, <1>20, <1>21
  DEF Next, Call, Proceed, Create, Add, Destroy, Finished

LEMMA RunningNext ==
  ASSUME IInv, QueueInv, [Next]_vars
  PROVE  RunningHaveTasks'
<1>a. TypeOK /\ WorkersBorn /\ RunningHaveTasks /\ RingConsistent /\ None \notin Tasks
  BY PoolAssumption DEF IInv, QueueInv
<1> USE <1>a DEF TypeOK, RunningHaveTasks, poolVars, createVars, callerVars, workerVars,
         historyVars
<1>1. ASSUME NEW c \in Callers, Allocate(c) PROVE RunningHaveTasks'
  BY <1>1 DEF Allocate, Goto
<1>2. ASSUME NEW c \in Callers, Unwind(c) PROVE RunningHaveTasks'
  BY <1>2 DEF Unwind, Goto
<1>3. ASSUME NEW c \in Callers, UnwindUndefined(c) PROVE RunningHaveTasks'
  BY <1>3 DEF UnwindUndefined, Goto
<1>4. ASSUME NEW c \in Callers, Spawn(c) PROVE RunningHaveTasks'
  BY <1>4, SpawnFrame DEF Spawn
<1>5. ASSUME NEW c \in Callers, SpawnFails(c) PROVE RunningHaveTasks'
  BY <1>5 DEF SpawnFails, Goto
<1>6. ASSUME NEW c \in Callers, Count(c) PROVE RunningHaveTasks'
  BY <1>6 DEF Count, Goto
<1>7. ASSUME NEW c \in Callers, Acquire(c) PROVE RunningHaveTasks'
  BY <1>7 DEF Acquire, Goto
<1>8. ASSUME NEW c \in Callers, LockFails(c) PROVE RunningHaveTasks'
  BY <1>8 DEF LockFails, Goto
<1>9. ASSUME NEW c \in Callers, UseFreed(c) PROVE RunningHaveTasks'
  BY <1>9 DEF UseFreed, Goto
<1>10. ASSUME NEW c \in Callers, AddRefused(c) PROVE RunningHaveTasks'
  BY <1>10 DEF AddRefused, Goto
<1>11. ASSUME NEW c \in Callers, AddTask(c) PROVE RunningHaveTasks'
  BY <1>11 DEF AddTask, Goto, Signal, Waiting, Step
<1>12. ASSUME NEW c \in Callers, DestroyRefused(c) PROVE RunningHaveTasks'
  BY <1>12 DEF DestroyRefused, Goto
<1>13. ASSUME NEW c \in Callers, DestroyBegin(c) PROVE RunningHaveTasks'
  BY <1>13 DEF DestroyBegin, Goto, Broadcast
<1>14. ASSUME NEW c \in Callers, BroadcastFails(c) PROVE RunningHaveTasks'
  BY <1>14 DEF BroadcastFails, Goto
<1>15. ASSUME NEW c \in Callers, Join(c) PROVE RunningHaveTasks'
  BY <1>15 DEF Join, Goto
<1>16. ASSUME NEW c \in Callers, JoinFails(c) PROVE RunningHaveTasks'
  BY <1>16 DEF JoinFails, Goto
<1>17. ASSUME NEW c \in Callers, DestroyEnd(c) PROVE RunningHaveTasks'
  BY <1>17 DEF DestroyEnd, Goto
<1>18. ASSUME NEW c \in Callers, NEW t \in Tasks, AddCall(c, t) PROVE RunningHaveTasks'
  BY <1>18 DEF AddCall, MayCall, Goto
<1>19. ASSUME NEW c \in Callers, NEW mode \in Shutdowns, DestroyCall(c, mode) PROVE RunningHaveTasks'
  BY <1>19 DEF DestroyCall, MayCall, Goto
<1>20. ASSUME NEW w \in Workers, WorkerLock(w) PROVE RunningHaveTasks'
  BY <1>20 DEF WorkerLock, Step
<1>21. ASSUME NEW w \in Workers, WorkerWait(w) PROVE RunningHaveTasks'
  BY <1>21 DEF WorkerWait, Step
<1>22. ASSUME NEW w \in Workers, WorkerTake(w) PROVE RunningHaveTasks'
  <2>1. queue[head] \in Tasks
    BY <1>22, TakeShape DEF RingConsistent
  <2> QED
    BY <1>22, <2>1 DEF WorkerTake, Step
<1>23. ASSUME NEW w \in Workers, WorkerRun(w) PROVE RunningHaveTasks'
  BY <1>23 DEF WorkerRun, Step
<1>24. ASSUME NEW w \in Workers, WorkerExit(w) PROVE RunningHaveTasks'
  BY <1>24 DEF WorkerExit, Step
<1>25. ASSUME NEW w \in Workers, SpuriousWakeup(w) PROVE RunningHaveTasks'
  BY <1>25 DEF SpuriousWakeup, Step
<1>26. ASSUME UNCHANGED vars PROVE RunningHaveTasks'
  BY <1>26 DEF vars
<1> QED
  BY <1>1, <1>2, <1>3, <1>4, <1>5, <1>6, <1>7, <1>8, <1>9, <1>10, <1>11,
     <1>12, <1>13, <1>14, <1>15, <1>16, <1>17, <1>18, <1>19, <1>20, <1>21,
     <1>22, <1>23, <1>24, <1>25, <1>26
  DEF Next, Call, Proceed, Create, Add, Destroy, Finished, Worker

-----------------------------------------------------------------------------
(* Sleeping workers *)

SleepVars == <<wpc, count, shutdown>>

LEMMA SleepFrame ==
  ASSUME [Next]_vars
  PROVE  \/ \E c \in Callers :
              Spawn(c) \/ AddTask(c) \/ DestroyBegin(c) \/ BroadcastFails(c)
         \/ \E w \in Workers : Worker(w) \/ SpuriousWakeup(w)
         \/ UNCHANGED SleepVars
BY DEF Next, Call, Proceed, Create, Add, Destroy, Finished, Allocate, Unwind,
  UnwindUndefined, SpawnFails, Count, Acquire, LockFails, UseFreed, AddRefused,
  DestroyRefused, Join, JoinFails, DestroyEnd, AddCall, DestroyCall, SleepVars,
  poolVars, workerVars, vars

LEMMA OnTheirWayFinite ==
  ASSUME NEW S \in SUBSET Workers
  PROVE  IsFiniteSet(S) /\ Cardinality(S) \in Nat
BY Sizes, FirstNumbersFinite DEF Workers

LEMMA HeardNext ==
  ASSUME IInv, ShutdownHeard, [Next]_vars
  PROVE  ShutdownHeard'
<1>a. TypeOK /\ ShutdownHeard
  BY DEF IInv
<1> USE <1>a DEF TypeOK, ShutdownHeard, Waiting, poolVars, createVars, callerVars, workerVars,
         historyVars
<1>1. ASSUME NEW c \in Callers, Spawn(c) PROVE ShutdownHeard'
  BY <1>1, SpawnFrame DEF Spawn
<1>2. ASSUME NEW c \in Callers, AddTask(c) PROVE ShutdownHeard'
  BY <1>2 DEF AddTask
<1>3. ASSUME NEW c \in Callers, DestroyBegin(c) PROVE ShutdownHeard'
  BY <1>3 DEF DestroyBegin, Broadcast
<1>4. ASSUME NEW c \in Callers, BroadcastFails(c) PROVE ShutdownHeard'
  BY <1>4 DEF BroadcastFails
<1>5. ASSUME NEW w \in Workers, Worker(w) \/ SpuriousWakeup(w) PROVE ShutdownHeard'
  BY <1>5 DEF Worker, WorkerLock, WorkerWait, WorkerTake, WorkerRun, WorkerExit,
     SpuriousWakeup, Step
<1>6. CASE UNCHANGED SleepVars
  BY <1>6 DEF SleepVars
<1> QED
  BY <1>1, <1>2, <1>3, <1>4, <1>5, <1>6, SleepFrame

(* A step that adds to the workers on their way keeps the balance. *)
LEMMA MoreOnTheirWay ==
  ASSUME NoLostWakeup, count' = count, count \in Nat, Waiting' \subseteq Waiting,
         OnTheirWay \subseteq OnTheirWay'
  PROVE  NoLostWakeup'
<1>1. OnTheirWay' \in SUBSET Workers /\ OnTheirWay \in SUBSET Workers
  BY DEF OnTheirWay
<1>2. Cardinality(OnTheirWay) <= Cardinality(OnTheirWay')
  BY <1>1, OnTheirWayFinite, FS_Subset
<1>3. Cardinality(OnTheirWay) \in Nat /\ Cardinality(OnTheirWay') \in Nat
  BY <1>1, OnTheirWayFinite
<1> QED
  BY <1>2, <1>3 DEF NoLostWakeup

LEMMA WakeupNext ==
  ASSUME IInv, QueueInv, ShutdownHeard, NoLostWakeup, [Next]_vars
  PROVE  NoLostWakeup'
<1>a. TypeOK /\ count \in Nat /\ OnTheirWay \in SUBSET Workers
  BY Sizes DEF IInv, TypeOK, OnTheirWay
<1>b. IsFiniteSet(OnTheirWay) /\ Cardinality(OnTheirWay) \in Nat
  BY <1>a, OnTheirWayFinite
<1>1. ASSUME NEW c \in Callers, Spawn(c) PROVE NoLostWakeup'
  BY <1>1, <1>a, SpawnFrame, MoreOnTheirWay
  DEF Spawn, poolVars, Waiting, OnTheirWay, TypeOK
<1>2. ASSUME NEW c \in Callers, AddTask(c), {"signal", "broadcast"} \cap Faults = {},
             Waiting' # {}
      PROVE  count' <= Cardinality(OnTheirWay')
  <2>1. Signal /\ count' = count + 1
    BY <1>2 DEF AddTask
  <2>2. Waiting # {}
    BY <1>2, <2>1 DEF Signal, Waiting
  <2>3. PICK w \in Waiting : wpc' = [wpc EXCEPT ![w] = "woken"]
    BY <2>1, <2>2 DEF Signal, Step
  <2>4. OnTheirWay' = OnTheirWay \cup {w} /\ w \notin OnTheirWay
    BY <1>a, <2>3 DEF OnTheirWay, Waiting, TypeOK
  <2>5. Cardinality(OnTheirWay') = Cardinality(OnTheirWay) + 1
    BY <1>b, <2>4, FS_AddElement
  <2>6. count <= Cardinality(OnTheirWay)
    BY <1>2, <2>2 DEF NoLostWakeup
  <2> QED
    BY <1>a, <1>b, <2>1, <2>5, <2>6
<1>3. ASSUME NEW c \in Callers, DestroyBegin(c) PROVE Waiting' = {}
  BY <1>3, <1>a DEF DestroyBegin, Broadcast, Waiting
<1>4. ASSUME NEW c \in Callers, BroadcastFails(c) PROVE "broadcast" \in Faults
  BY <1>4 DEF BroadcastFails
<1>5. ASSUME NEW w \in Workers, WorkerLock(w) \/ WorkerRun(w) \/ SpuriousWakeup(w)
      PROVE  NoLostWakeup'
  <2>1. /\ Waiting' \subseteq Waiting /\ OnTheirWay \subseteq OnTheirWay' /\ count' = count
    BY <1>5, <1>a DEF WorkerLock, WorkerRun, SpuriousWakeup, Step, Waiting, OnTheirWay,
       TypeOK, poolVars
  <2> QED
    BY <1>a, <2>1, MoreOnTheirWay
<1>6. ASSUME NEW w \in Workers, WorkerWait(w) PROVE NoLostWakeup'
  <2>1. count' = 0 /\ OnTheirWay' \in SUBSET Workers
    BY <1>6 DEF WorkerWait, poolVars, OnTheirWay
  <2>2. Cardinality(OnTheirWay') \in Nat
    BY <2>1, OnTheirWayFinite
  <2> QED
    BY <2>1, <2>2 DEF NoLostWakeup
<1>7. ASSUME NEW w \in Workers, WorkerTake(w) PROVE NoLostWakeup'
  <2>1. Waiting' = Waiting /\ OnTheirWay' = OnTheirWay \ {w} /\ w \in OnTheirWay
    BY <1>7, <1>a DEF WorkerTake, Step, Waiting, OnTheirWay, TypeOK
  <2>2. Cardinality(OnTheirWay') = Cardinality(OnTheirWay) - 1
    BY <1>b, <2>1, FS_RemoveElement
  <2>3. count' = count - 1
    BY <1>7 DEF WorkerTake
  <2> QED
    BY <1>a, <1>b, <2>1, <2>2, <2>3 DEF NoLostWakeup
<1>8. ASSUME NEW w \in Workers, WorkerExit(w), "broadcast" \notin Faults
      PROVE  Waiting' = {}
  <2>1. shutdown # "no"
    BY <1>8 DEF WorkerExit, Quits
  <2>2. Waiting = {}
    BY <1>8, <2>1 DEF ShutdownHeard
  <2> QED
    BY <1>8, <1>a, <2>2 DEF WorkerExit, Step, Waiting, TypeOK
<1>9. CASE UNCHANGED SleepVars
  BY <1>9 DEF SleepVars, NoLostWakeup, Waiting, OnTheirWay
<1>10. SUFFICES ASSUME {"signal", "broadcast"} \cap Faults = {}, Waiting' # {}
                PROVE  count' <= Cardinality(OnTheirWay')
  BY DEF NoLostWakeup
<1>11. "signal" \notin Faults /\ "broadcast" \notin Faults
  BY <1>10
<1>12. NoLostWakeup' => count' <= Cardinality(OnTheirWay')
  BY <1>10 DEF NoLostWakeup
<1> QED
  BY <1>1, <1>2, <1>3, <1>4, <1>5, <1>6, <1>7, <1>8, <1>9, <1>10, <1>11, <1>12, SleepFrame
  DEF Worker

LEMMA DrainedNext ==
  ASSUME IInv, ExitsDrained, [Next]_vars
  PROVE  ExitsDrained'
<1>a. TypeOK /\ ShutdownFirst /\ ExitsDrained
  BY DEF IInv
<1> USE <1>a DEF TypeOK, ExitsDrained, poolVars, createVars, callerVars, workerVars, historyVars
<1>1. ASSUME NEW c \in Callers, Spawn(c) PROVE ExitsDrained'
  BY <1>1, SpawnFrame DEF Spawn
<1>2. ASSUME NEW c \in Callers, AddTask(c) PROVE ExitsDrained'
  BY <1>2 DEF AddTask
<1>3. ASSUME NEW c \in Callers, DestroyBegin(c) PROVE ExitsDrained'
  BY <1>3 DEF DestroyBegin, Broadcast, ShutdownFirst
<1>4. ASSUME NEW c \in Callers, BroadcastFails(c) PROVE ExitsDrained'
  BY <1>4 DEF BroadcastFails, ShutdownFirst
<1>5. ASSUME NEW w \in Workers, Worker(w) \/ SpuriousWakeup(w) PROVE ExitsDrained'
  BY <1>5 DEF Worker, WorkerLock, WorkerWait, WorkerTake, WorkerRun, WorkerExit,
     SpuriousWakeup, Step, Quits
<1>6. CASE UNCHANGED SleepVars
  BY <1>6 DEF SleepVars
<1> QED
  BY <1>1, <1>2, <1>3, <1>4, <1>5, <1>6, SleepFrame

LEMMA PublishedNext ==
  ASSUME IInv, PublishedWhole, [Next]_vars
  PROVE  PublishedWhole'
<1>a. TypeOK /\ CreationAlone /\ Arguments /\ PublishedWhole
  BY DEF IInv
<1> USE <1>a DEF TypeOK, PublishedWhole, poolVars, createVars, callerVars, workerVars,
         historyVars
<1>1. ASSUME NEW c \in Callers, Allocate(c) PROVE PublishedWhole'
  BY <1>1 DEF Allocate, Goto, CreationAlone, Creating, Resources
<1>2. ASSUME NEW c \in Callers, Unwind(c) PROVE PublishedWhole'
  BY <1>2 DEF Unwind, Goto, ReleasePool, Resources
<1>3. ASSUME NEW c \in Callers, UnwindUndefined(c) PROVE PublishedWhole'
  BY <1>3 DEF UnwindUndefined, Goto
<1>4. ASSUME NEW c \in Callers, Spawn(c) PROVE PublishedWhole'
  BY <1>4 DEF Spawn, Goto
<1>5. ASSUME NEW c \in Callers, SpawnFails(c) PROVE PublishedWhole'
  BY <1>5 DEF SpawnFails, Goto
<1>6. ASSUME NEW c \in Callers, Count(c) PROVE PublishedWhole'
  BY <1>6 DEF Count, Goto, CreationAlone, Creating
<1>7. ASSUME NEW c \in Callers, Acquire(c) PROVE PublishedWhole'
  BY <1>7 DEF Acquire, Goto
<1>8. ASSUME NEW c \in Callers, LockFails(c) PROVE PublishedWhole'
  BY <1>8 DEF LockFails, Goto
<1>9. ASSUME NEW c \in Callers, UseFreed(c) PROVE PublishedWhole'
  BY <1>9 DEF UseFreed, Goto
<1>10. ASSUME NEW c \in Callers, AddRefused(c) PROVE PublishedWhole'
  BY <1>10 DEF AddRefused, Goto
<1>11. ASSUME NEW c \in Callers, AddTask(c) PROVE PublishedWhole'
  BY <1>11 DEF AddTask, Goto
<1>12. ASSUME NEW c \in Callers, DestroyRefused(c) PROVE PublishedWhole'
  BY <1>12 DEF DestroyRefused, Goto
<1>13. ASSUME NEW c \in Callers, DestroyBegin(c) PROVE PublishedWhole'
  BY <1>13 DEF DestroyBegin, Goto
<1>14. ASSUME NEW c \in Callers, BroadcastFails(c) PROVE PublishedWhole'
  BY <1>14 DEF BroadcastFails, Goto
<1>15. ASSUME NEW c \in Callers, Join(c) PROVE PublishedWhole'
  BY <1>15 DEF Join, Goto
<1>16. ASSUME NEW c \in Callers, JoinFails(c) PROVE PublishedWhole'
  BY <1>16 DEF JoinFails, Goto
<1>17. ASSUME NEW c \in Callers, DestroyEnd(c) PROVE PublishedWhole'
  BY <1>17 DEF DestroyEnd, Goto, ReleasePool, Resources
<1>18. ASSUME NEW c \in Callers, NEW t \in Tasks, AddCall(c, t) PROVE PublishedWhole'
  BY <1>18 DEF AddCall, MayCall, Goto
<1>19. ASSUME NEW c \in Callers, NEW mode \in Shutdowns, DestroyCall(c, mode) PROVE PublishedWhole'
  BY <1>19 DEF DestroyCall, MayCall, Goto
<1>20. ASSUME NEW w \in Workers, Worker(w) \/ SpuriousWakeup(w) PROVE PublishedWhole'
  BY <1>20, WorkerFrame
<1>21. ASSUME UNCHANGED vars PROVE PublishedWhole'
  BY <1>21 DEF vars
<1> QED
  BY <1>1, <1>2, <1>3, <1>4, <1>5, <1>6, <1>7, <1>8, <1>9, <1>10, <1>11,
     <1>12, <1>13, <1>14, <1>15, <1>16, <1>17, <1>18, <1>19, <1>20, <1>21
  DEF Next, Call, Proceed, Create, Add, Destroy, Finished

(* Resources change hands only when create allocates and when a pool goes. *)
LEMMA ReleasesOnly ==
  ASSUME [Next]_vars, \A c \in Callers : ~(Allocate(c) \/ Unwind(c) \/ DestroyEnd(c))
  PROVE  res' = res
BY DEF Next, Call, Proceed, Create, Add, Destroy, Worker, Finished, UnwindUndefined, Spawn,
  SpawnFails, Count, Acquire, LockFails, UseFreed, AddRefused, AddTask, DestroyRefused,
  DestroyBegin, BroadcastFails, Join, JoinFails, AddCall, DestroyCall, WorkerLock,
  WorkerWait, WorkerTake, WorkerRun, WorkerExit, SpuriousWakeup, vars

LEMMA GoesLastNext ==
  ASSUME IInv, PoolGoesLast, [Next]_vars
  PROVE  PoolGoesLast'
<1>1. ASSUME res' = res PROVE PoolGoesLast'
  BY <1>1 DEF PoolGoesLast
<1>2. ASSUME NEW c \in Callers, Allocate(c) PROVE PoolGoesLast'
  BY <1>2 DEF Allocate, PoolGoesLast, Resources
<1>3. ASSUME NEW c \in Callers, ReleasePool(c) PROVE PoolGoesLast'
  BY <1>3 DEF IInv, TypeOK, PoolGoesLast, ReleasePool, FreedResources, Resources
<1>4. ASSUME \A c \in Callers : ~(Allocate(c) \/ Unwind(c) \/ DestroyEnd(c))
      PROVE  res' = res
  BY <1>4, ReleasesOnly
<1> QED
  BY <1>1, <1>2, <1>3, <1>4 DEF Unwind, DestroyEnd

-----------------------------------------------------------------------------
(* A create that fails *)

LEMMA LockHeldNext ==
  ASSUME IInv, LockHeld, [Next]_vars
  PROVE  LockHeld'
<1>a. TypeOK
  BY DEF IInv
<1>b. \A w \in Workers, c \in Callers : w # c /\ w # None /\ c # None
  BY PoolAssumption DEF Workers
<1>c. lock = None => /\ \A w \in Workers : wpc[w] # "held"
                     /\ \A c \in Callers : cpc[c] \notin {"add", "destroy"}
  BY PoolAssumption DEF LockHeld, Workers
<1> USE <1>a DEF TypeOK, LockHeld, poolVars, createVars, callerVars, workerVars, historyVars
<1>1. ASSUME NEW c \in Callers, Allocate(c) PROVE LockHeld'
  BY <1>1 DEF Allocate, Goto
<1>2. ASSUME NEW c \in Callers, Unwind(c) PROVE LockHeld'
  BY <1>2, <1>c DEF Unwind, Goto, ReleasePool
<1>3. ASSUME NEW c \in Callers, UnwindUndefined(c) PROVE LockHeld'
  BY <1>3 DEF UnwindUndefined, Goto
<1>4. ASSUME NEW c \in Callers, Spawn(c) PROVE LockHeld'
  BY <1>4, SpawnFrame DEF Spawn, Goto
<1>5. ASSUME NEW c \in Callers, SpawnFails(c) PROVE LockHeld'
  BY <1>5 DEF SpawnFails, Goto
<1>6. ASSUME NEW c \in Callers, Count(c) PROVE LockHeld'
  BY <1>6 DEF Count, Goto
<1>7. ASSUME NEW c \in Callers, Acquire(c) PROVE LockHeld'
  BY <1>7, <1>c DEF Acquire, Goto
<1>8. ASSUME NEW c \in Callers, LockFails(c) PROVE LockHeld'
  BY <1>8 DEF LockFails, Goto
<1>9. ASSUME NEW c \in Callers, UseFreed(c) PROVE LockHeld'
  BY <1>9 DEF UseFreed, Goto
<1>10. ASSUME NEW c \in Callers, AddRefused(c) PROVE LockHeld'
  BY <1>10, <1>b DEF AddRefused, Goto
<1>11. ASSUME NEW c \in Callers, AddTask(c) PROVE LockHeld'
  BY <1>11, <1>b DEF AddTask, Goto, Signal, Waiting, Step
<1>12. ASSUME NEW c \in Callers, DestroyRefused(c) PROVE LockHeld'
  BY <1>12 DEF DestroyRefused, Goto
<1>13. ASSUME NEW c \in Callers, DestroyBegin(c) PROVE LockHeld'
  BY <1>13, <1>b DEF DestroyBegin, Goto, Broadcast
<1>14. ASSUME NEW c \in Callers, BroadcastFails(c) PROVE LockHeld'
  BY <1>14 DEF BroadcastFails, Goto
<1>15. ASSUME NEW c \in Callers, Join(c) \/ JoinFails(c) PROVE LockHeld'
  BY <1>15 DEF Join, JoinFails
<1>16. ASSUME NEW c \in Callers, DestroyEnd(c) PROVE LockHeld'
  BY <1>16, <1>c DEF DestroyEnd, Goto, ReleasePool
<1>17. ASSUME NEW c \in Callers, NEW t \in Tasks, AddCall(c, t) PROVE LockHeld'
  BY <1>17 DEF AddCall, MayCall, Goto
<1>18. ASSUME NEW c \in Callers, NEW mode \in Shutdowns, DestroyCall(c, mode) PROVE LockHeld'
  BY <1>18 DEF DestroyCall, MayCall, Goto
<1>19. ASSUME NEW w \in Workers, WorkerLock(w) PROVE LockHeld'
  BY <1>19, <1>c DEF WorkerLock, Step
<1>20. ASSUME NEW w \in Workers, WorkerWait(w) \/ WorkerTake(w) \/ WorkerExit(w)
       PROVE  LockHeld'
  BY <1>20, <1>b DEF WorkerWait, WorkerTake, WorkerExit, Step
<1>21. ASSUME NEW w \in Workers, WorkerRun(w) \/ SpuriousWakeup(w) PROVE LockHeld'
  BY <1>21 DEF WorkerRun, SpuriousWakeup, Step
<1>22. ASSUME UNCHANGED vars PROVE LockHeld'
  BY <1>22 DEF vars
<1> QED
  BY <1>1, <1>2, <1>3, <1>4, <1>5, <1>6, <1>7, <1>8, <1>9, <1>10, <1>11,
     <1>12, <1>13, <1>14, <1>15, <1>16, <1>17, <1>18, <1>19, <1>20, <1>21, <1>22
  DEF Next, Call, Proceed, Create, Add, Destroy, Finished, Worker

(* Only the join loop moves joined and err, and a thread that ended stays so. *)
LEMMA JoinFrame ==
  ASSUME IInv, [Next]_vars, \A c \in Callers : ~(Join(c) \/ JoinFails(c))
  PROVE  /\ UNCHANGED <<joined, err>>
         /\ \A w \in Workers : wpc[w] = "exited" => wpc'[w] = "exited"
<1>1. UNCHANGED <<joined, err>>
  BY DEF Next, Call, Proceed, Create, Add, Destroy, Finished, Worker, Allocate, Unwind,
    UnwindUndefined, Spawn, SpawnFails, Count, Acquire, LockFails, UseFreed, AddRefused,
    AddTask, DestroyRefused, DestroyBegin, BroadcastFails, DestroyEnd, AddCall, DestroyCall,
    WorkerLock, WorkerWait, WorkerTake, WorkerRun, WorkerExit, SpuriousWakeup, callerVars, vars
<1>2. ASSUME NEW c \in Callers, Spawn(c)
      PROVE  \A w \in Workers : wpc[w] = "exited" => wpc'[w] = "exited"
  BY <1>2, SpawnFrame DEF IInv, TypeOK
<1>3. ASSUME NEW c \in Callers, AddTask(c)
      PROVE  \A w \in Workers : wpc[w] = "exited" => wpc'[w] = "exited"
  BY <1>3 DEF AddTask, Signal, Waiting, Step, IInv, TypeOK
<1>4. ASSUME NEW c \in Callers, DestroyBegin(c)
      PROVE  \A w \in Workers : wpc[w] = "exited" => wpc'[w] = "exited"
  BY <1>4 DEF DestroyBegin, Broadcast
<1>5. ASSUME NEW c \in Callers, BroadcastFails(c)
      PROVE  \A w \in Workers : wpc[w] = "exited" => wpc'[w] = "exited"
  BY <1>5 DEF BroadcastFails, workerVars
<1>6. ASSUME NEW v \in Workers, Worker(v) \/ SpuriousWakeup(v)
      PROVE  \A w \in Workers : wpc[w] = "exited" => wpc'[w] = "exited"
  BY <1>6 DEF Worker, WorkerLock, WorkerWait, WorkerTake, WorkerRun, WorkerExit,
    SpuriousWakeup, Step, IInv, TypeOK
<1>7. ASSUME UNCHANGED SleepVars
      PROVE  \A w \in Workers : wpc[w] = "exited" => wpc'[w] = "exited"
  BY <1>7 DEF SleepVars
<1> QED
  BY <1>1, <1>2, <1>3, <1>4, <1>5, <1>6, <1>7, SleepFrame

LEMMA JoinedNext ==
  ASSUME IInv, JoinedEnded, [Next]_vars
  PROVE  JoinedEnded'
<1>1. ASSUME NEW c \in Callers, Join(c) PROVE JoinedEnded'
  <2>1. joined \in Nat /\ joined' = joined + 1 /\ wpc[joined + 1] = "exited"
    BY <1>1, Sizes DEF Join, IInv, TypeOK
  <2>2. err' = err /\ wpc' = wpc
    BY <1>1 DEF Join, workerVars
  <2>3. ~err => \A w \in Workers : w <= joined' => wpc[w] = "exited"
    BY <2>1, Sizes DEF Workers, JoinedEnded
  <2> QED
    BY <2>2, <2>3 DEF JoinedEnded
<1>2. ASSUME NEW c \in Callers, JoinFails(c) PROVE JoinedEnded'
  BY <1>2 DEF JoinFails, JoinedEnded
<1>3. ASSUME \A c \in Callers : ~(Join(c) \/ JoinFails(c)) PROVE JoinedEnded'
  BY <1>3, JoinFrame DEF JoinedEnded
<1> QED
  BY <1>1, <1>2, <1>3

(* Before create has returned a pool no other caller takes a step, so a    *)
(* step is one of the creator, of a worker, or changes nothing.            *)
LEMMA CreatorSteps ==
  ASSUME IInv, ~published, [Next]_vars
  PROVE  \/ Create(Creator) \/ Acquire(Creator) \/ LockFails(Creator)
         \/ UseFreed(Creator) \/ Add(Creator) \/ Destroy(Creator)
         \/ \E w \in Workers : Worker(w) \/ SpuriousWakeup(w)
         \/ UNCHANGED vars
<1>1. ASSUME NEW c \in Callers, c # Creator PROVE cpc[c] = "idle"
  BY <1>1 DEF IInv, CreationAlone
<1>2. ASSUME NEW c \in Callers, Call(c) PROVE FALSE
  BY <1>2 DEF Call, AddCall, DestroyCall, MayCall
<1>3. ASSUME NEW c \in Callers, c # Creator, Proceed(c) PROVE FALSE
  BY <1>1, <1>3 DEF Proceed, Create, Allocate, Unwind, UnwindUndefined, Spawn, SpawnFails,
    Count, Acquire, LockFails, UseFreed, Add, AddRefused, AddTask, Destroy, DestroyRefused,
    DestroyBegin, BroadcastFails, Join, JoinFails, DestroyEnd
<1> QED
  BY <1>2, <1>3 DEF Next, Finished, Proceed

(* When no pool was published, threadpool_free on the error path finds      *)
(* nobody counted.                                                          *)
LEMMA UnwindReleases ==
  ASSUME IInv, PoolGoesLast, CreatedWhole, ~published, Unwind(Creator)
  PROVE  \/ \A r \in Resources : res'[r] # "live"
         \/ res'["threads"] = "absent" /\ res'["pool"] = "gone"
<1>1. Creator \in Callers /\ cpc[Creator] = "unwind" /\ res["pool"] = "live"
  BY PoolAssumption DEF Unwind, CreatedWhole
<1>2. thread_count = 0 /\ Counting = {}
  BY <1>1, CountingIsCreator DEF IInv, CreationAlone
<1>3. \A w \in Workers : wpc[w] = "unborn"
  BY <1>2, Sizes DEF IInv, WorkersBorn, Born, Workers
<1>4. Alive = {}
  BY <1>3 DEF Alive
<1>5. started = 0
  BY <1>2, <1>4, FS_EmptySet, Sizes DEF IInv, TypeOK, StartedCountsLiveWorkers
<1>6. res["threads"] # "gone"
  BY <1>1 DEF PoolGoesLast
<1>7. res \in [Resources -> {"absent", "live", "gone"}] /\ ReleasePool(Creator)
  BY DEF IInv, TypeOK, Unwind
<1> QED
  BY <1>1, <1>5, <1>6, <1>7 DEF ReleasePool, FreedResources, Resources

(* The destroy of a failed pthread_create joins every worker there is. *)
LEMMA DestroyEndReleases ==
  ASSUME IInv, JoinedEnded, CreatedWhole, ~published, ~err, DestroyEnd(Creator)
  PROVE  \A r \in Resources : res'[r] = "gone"
<1>1. Creator \in Callers /\ cpc[Creator] = "join"
  BY PoolAssumption DEF DestroyEnd
<1>2. \A r \in Resources : res[r] = "live"
  BY <1>1 DEF CreatedWhole
<1>3. Counting = {}
  BY <1>1, CountingIsCreator DEF IInv
<1>4. thread_count <= joined /\ thread_count \in Nat /\ joined \in Nat
  BY Sizes DEF DestroyEnd, MoreToJoin, IInv, TypeOK
<1>5. ASSUME NEW w \in Workers PROVE wpc[w] \in {"unborn", "exited"}
  <2>1. CASE w <= joined
    BY <2>1 DEF JoinedEnded
  <2>2. CASE ~(w <= joined)
    <3>1. w > thread_count
      BY <1>4, <2>2 DEF Workers
    <3> QED
      BY <1>3, <3>1 DEF IInv, WorkersBorn, Born
  <2> QED
    BY <2>1, <2>2
<1>6. Alive = {}
  BY <1>5 DEF Alive
<1>7. started = 0
  BY <1>3, <1>6, FS_EmptySet, Sizes DEF IInv, TypeOK, StartedCountsLiveWorkers
<1>8. ReleasePool(Creator)
  BY DEF DestroyEnd
<1> QED
  BY <1>2, <1>7, <1>8 DEF ReleasePool, FreedResources, Resources

LEMMA PublishedStays ==
  ASSUME IInv, published, [Next]_vars
  PROVE  published'
<1>1. ASSUME NEW c \in Callers PROVE ~Count(c)
  BY DEF Count, IInv, CreationAlone, Creating
<1> QED
  BY <1>1 DEF Next, Call, Proceed, Create, Add, Destroy, Worker, Finished, Allocate, Unwind,
    UnwindUndefined, Spawn, SpawnFails, Acquire, LockFails, UseFreed, AddRefused, AddTask,
    DestroyRefused, DestroyBegin, BroadcastFails, Join, JoinFails, DestroyEnd, AddCall,
    DestroyCall, WorkerLock, WorkerWait, WorkerTake, WorkerRun, WorkerExit, SpuriousWakeup,
    createVars, vars

(* The creator's way through create and its error paths, with the workers  *)
(* it may already have running beside it.                                  *)
LEMMA CreatedNext ==
  ASSUME IInv, PoolGoesLast, CreateInv, [Next]_vars
  PROVE  CreatedWhole' /\ FailedCreateReleases'
<1>1. CASE published
  BY <1>1, PublishedStays DEF CreatedWhole, FailedCreateReleases
<1>2. CASE ~published
  <2>a. /\ TypeOK /\ CreationAlone /\ Creator \in Callers /\ ~published
        /\ LockHeld /\ JoinedEnded /\ CreatedWhole /\ FailedCreateReleases
    BY <1>2, PoolAssumption DEF IInv, CreateInv
  <2> USE <2>a DEF TypeOK, CreatedWhole, FailedCreateReleases, Goto, poolVars, createVars,
           callerVars, workerVars, historyVars
  <2>1. ASSUME Allocate(Creator) PROVE CreatedWhole' /\ FailedCreateReleases'
    <3>1. cpc[Creator] = "create" /\ thread_count = 0 /\ Alive' = Alive
      BY <2>1 DEF Allocate, CreationAlone, Alive
    <3>2. Counting = {}
      BY <3>1, CountingIsCreator
    <3>3. \A w \in Workers : wpc[w] = "unborn"
      BY <3>1, <3>2, Sizes DEF IInv, WorkersBorn, Born, Workers
    <3>4. Alive' = {}
      BY <3>1, <3>3 DEF Alive
    <3>5. CASE cpc' = [cpc EXCEPT ![Creator] = "returned"] /\ res' = res
      BY <3>1, <3>4, <3>5
    <3>6. ASSUME NEW got \in SUBSET (Resources \ {"pool"}),
                 res' = [r \in Resources |->
                           IF r \in got \cup {"pool"} THEN "live" ELSE "absent"],
                 Goto(Creator, IF got \cup {"pool"} = Resources THEN "spawn" ELSE "unwind")
          PROVE  CreatedWhole' /\ FailedCreateReleases'
      BY <3>6 DEF Resources
    <3> QED
      BY <2>1, <3>5, <3>6 DEF Allocate
  <2>2. ASSUME Unwind(Creator) PROVE CreatedWhole' /\ FailedCreateReleases'
    <3>1. cpc' = [cpc EXCEPT ![Creator] = "returned"] /\ Alive' = Alive
      BY <2>2 DEF Unwind, Alive
    <3>2. thread_count = 0 /\ Counting = {}
      BY <2>2, CountingIsCreator DEF Unwind, CreationAlone
    <3>3. \A w \in Workers : wpc[w] = "unborn"
      BY <3>2, Sizes DEF IInv, WorkersBorn, Born, Workers
    <3>4. Alive' = {}
      BY <3>1, <3>3 DEF Alive
    <3>5. \/ \A r \in Resources : res'[r] # "live"
          \/ res'["threads"] = "absent" /\ res'["pool"] = "gone"
      BY <2>2, UnwindReleases
    <3> QED
      BY <3>1, <3>4, <3>5
  <2>3. ASSUME UnwindUndefined(Creator) \/ UseFreed(Creator)
        PROVE  CreatedWhole' /\ FailedCreateReleases'
    BY <2>3 DEF UnwindUndefined, UseFreed
  <2>4. ASSUME Spawn(Creator) PROVE CreatedWhole' /\ FailedCreateReleases'
    BY <2>4 DEF Spawn
  <2>5. ASSUME SpawnFails(Creator) PROVE CreatedWhole' /\ FailedCreateReleases'
    BY <2>5 DEF SpawnFails, CreationAlone, Creating
  <2>6. ASSUME Count(Creator) PROVE CreatedWhole' /\ FailedCreateReleases'
    BY <2>6 DEF Count
  <2>7. ASSUME Acquire(Creator) PROVE CreatedWhole' /\ FailedCreateReleases'
    BY <2>7 DEF Acquire
  <2>8. ASSUME LockFails(Creator) PROVE CreatedWhole' /\ FailedCreateReleases'
    BY <2>8 DEF LockFails
  <2>9. ASSUME AddRefused(Creator) \/ AddTask(Creator)
        PROVE  CreatedWhole' /\ FailedCreateReleases'
    BY <2>9 DEF AddRefused, AddTask
  <2>10. ASSUME DestroyRefused(Creator) PROVE FALSE
    BY <2>10 DEF DestroyRefused
  <2>11. ASSUME DestroyBegin(Creator) PROVE CreatedWhole' /\ FailedCreateReleases'
    BY <2>11 DEF DestroyBegin
  <2>12. ASSUME BroadcastFails(Creator) PROVE CreatedWhole' /\ FailedCreateReleases'
    BY <2>12 DEF BroadcastFails, LockHeld
  <2>13. ASSUME Join(Creator) PROVE CreatedWhole' /\ FailedCreateReleases'
    BY <2>13 DEF Join
  <2>14. ASSUME JoinFails(Creator) PROVE CreatedWhole' /\ FailedCreateReleases'
    BY <2>14 DEF JoinFails
  <2>15. ASSUME DestroyEnd(Creator) PROVE CreatedWhole' /\ FailedCreateReleases'
    <3>1. cpc[Creator] = "join" /\ cpc' = [cpc EXCEPT ![Creator] = "returned"]
          /\ err' = err
      BY <2>15 DEF DestroyEnd
    <3>2. CASE err
      BY <2>15, <3>1, <3>2 DEF DestroyEnd
    <3>3. CASE ~err
      <4>1. \A r \in Resources : res'[r] = "gone"
        BY <2>15, <3>3, DestroyEndReleases
      <4>2. Alive' = {}
        BY <2>15, <4>1, OutlivesNext DEF Resources, PoolOutlivesWorkers, Alive
      <4> QED
        BY <3>1, <4>1, <4>2
    <3> QED
      BY <3>2, <3>3
  <2>16. ASSUME NEW w \in Workers, Worker(w) \/ SpuriousWakeup(w)
         PROVE  CreatedWhole' /\ FailedCreateReleases'
    <3>1. UNCHANGED <<cpc, published, shutdown, res, err>>
      BY <2>16 DEF Worker, WorkerLock, WorkerWait, WorkerTake, WorkerRun, WorkerExit,
         SpuriousWakeup
    <3>2. Alive = {} => Alive' = {}
      BY <2>16 DEF Alive, Worker, WorkerLock, WorkerWait, WorkerTake, WorkerRun, WorkerExit,
         SpuriousWakeup
    <3>3. w # Creator /\ Creator # None
      BY PoolAssumption DEF Workers
    <3>4. lock = Creator => lock' = Creator
      BY <2>16, <3>3 DEF LockHeld, Worker, WorkerLock, WorkerWait, WorkerTake, WorkerRun,
         WorkerExit, SpuriousWakeup
    <3> QED
      BY <3>1, <3>2, <3>4
  <2>17. ASSUME UNCHANGED vars PROVE CreatedWhole' /\ FailedCreateReleases'
    BY <2>17 DEF vars, Alive
  <2> QED
    BY <1>2, <2>1, <2>2, <2>3, <2>4, <2>5, <2>6, <2>7, <2>8, <2>9, <2>10, <2>11,
       <2>12, <2>13, <2>14, <2>15, <2>16, <2>17, CreatorSteps
    DEF Create, Add, Destroy
<1> QED
  BY <1>1, <1>2

-----------------------------------------------------------------------------
(* One destroyer, no failing call *)

(* When the join loop is over, every worker has ended and nobody is counted. *)
LEMMA AllJoined ==
  ASSUME IInv, PublishedWhole, DestroyInv, Faults = {},
         NEW c \in Callers, DestroyEnd(c)
  PROVE  started = 0 /\ res'["pool"] = "gone"
<1>1. /\ published /\ thread_count = ThreadCount /\ res["pool"] # "absent"
      /\ err = FALSE /\ joined \in 0..ThreadCount
  BY DEF IInv, TypeOK, PublishedWhole, DestroyInv, DestroyEnd
<1>2. \A w \in Workers : wpc[w] = "exited"
  <2>1. \A w \in Workers : w <= joined
    BY <1>1, Sizes DEF DestroyEnd, MoreToJoin, Workers
  <2> QED
    BY <2>1 DEF DestroyInv
<1>3. Alive = {} /\ Counting = {}
  BY <1>1, <1>2 DEF Alive, Counting, IInv, CreationAlone, Creating
<1>4. started = 0
  BY <1>3, FS_EmptySet, Sizes DEF IInv, TypeOK, StartedCountsLiveWorkers
<1>5. ReleasePool(c) /\ res \in [Resources -> {"absent", "live", "gone"}]
  BY <1>1 DEF DestroyEnd, IInv, TypeOK
<1> QED
  BY <1>1, <1>4, <1>5 DEF ReleasePool, FreedResources, Resources

(* Without failing calls everything is acquired. *)
LEMMA AllAcquired ==
  ASSUME Faults = {}, TypeOK, NEW c \in Callers, Allocate(c)
  PROVE  cpc' = [cpc EXCEPT ![c] = "spawn"] /\ res'["pool"] = "live"
<1>1. PICK got \in SUBSET (Resources \ {"pool"}) :
        /\ Acquired(got)
        /\ res' = [r \in Resources |-> IF r \in got \cup {"pool"} THEN "live" ELSE "absent"]
        /\ Goto(c, IF got \cup {"pool"} = Resources THEN "spawn" ELSE "unwind")
  BY DEF Allocate
<1>2. got \cup {"pool"} = Resources
  <2>1. "threads" \in got /\ "queue" \in got /\ "mutex" \in got /\ "cond" \in got
    BY <1>1 DEF Acquired
  <2> QED
    BY <1>1, <2>1 DEF Resources
<1> QED
  BY <1>1, <1>2 DEF Goto, Resources

LEMMA DestroyInvNext ==
  ASSUME \A a, b \in Destroyers : a = b, Faults = {},
         IInv, PublishedWhole, DestroyInv, [Next]_vars
  PROVE  DestroyInv'
<1>a. TypeOK /\ CreationAlone /\ Arguments
  BY DEF IInv
<1> USE <1>a DEF TypeOK, DestroyInv, poolVars, createVars, callerVars, workerVars,
         historyVars
<1>1. ASSUME NEW c \in Callers, Allocate(c) PROVE DestroyInv'
  BY <1>1, AllAcquired DEF Allocate, CreationAlone, Creating
<1>2. ASSUME NEW c \in Callers, Unwind(c) PROVE DestroyInv'
  BY <1>2 DEF Unwind, Goto
<1>3. ASSUME NEW c \in Callers, UnwindUndefined(c) PROVE DestroyInv'
  BY <1>3 DEF UnwindUndefined, Goto
<1>4. ASSUME NEW c \in Callers, Spawn(c) PROVE DestroyInv'
  <2>1. wpc[thread_count + 1] = "unborn" /\ wpc' = [wpc EXCEPT ![thread_count + 1] = "lock"]
    BY <1>4, SpawnFrame
  <2>2. \A w \in Workers : w <= joined => wpc'[w] = "exited"
    BY <2>1
  <2> QED
    BY <1>4, <2>2 DEF Spawn, Goto
<1>5. ASSUME NEW c \in Callers, SpawnFails(c) PROVE DestroyInv'
  BY <1>5 DEF SpawnFails, Goto
<1>6. ASSUME NEW c \in Callers, Count(c) PROVE DestroyInv'
  BY <1>6 DEF Count, Goto, CreationAlone, Creating
<1>7. ASSUME NEW c \in Callers, Acquire(c) PROVE DestroyInv'
  BY <1>7 DEF Acquire, Goto
<1>8. ASSUME NEW c \in Callers, LockFails(c) PROVE DestroyInv'
  BY <1>8 DEF LockFails, Goto
<1>9. ASSUME NEW c \in Callers, UseFreed(c) PROVE DestroyInv'
  BY <1>9 DEF UseFreed, Goto
<1>10. ASSUME NEW c \in Callers, AddRefused(c) PROVE DestroyInv'
  BY <1>10 DEF AddRefused, Goto
<1>11. ASSUME NEW c \in Callers, AddTask(c) PROVE DestroyInv'
  BY <1>11 DEF AddTask, Goto, Signal, Waiting, Step
<1>12. ASSUME NEW c \in Callers, DestroyRefused(c) PROVE DestroyInv'
  BY <1>12 DEF DestroyRefused, Goto
<1>13. ASSUME NEW c \in Callers, DestroyBegin(c) PROVE DestroyInv'
  BY <1>13 DEF DestroyBegin, Goto, Broadcast
<1>14. ASSUME NEW c \in Callers, BroadcastFails(c) PROVE DestroyInv'
  BY <1>14 DEF BroadcastFails, Goto
<1>15. ASSUME NEW c \in Callers, Join(c) PROVE DestroyInv'
  <2>1. joined \in Nat /\ joined' = joined + 1 /\ wpc[joined + 1] = "exited"
    BY <1>15, Sizes DEF Join
  <2>2. \A w \in Workers : w <= joined' => wpc[w] = "exited"
    BY <2>1, Sizes DEF Workers
  <2> QED
    BY <1>15, <2>2 DEF Join
<1>16. ASSUME NEW c \in Callers, JoinFails(c) PROVE DestroyInv'
  BY <1>16 DEF JoinFails, Goto
<1>17. ASSUME NEW c \in Callers, DestroyEnd(c) PROVE DestroyInv'
  BY <1>17, AllJoined DEF DestroyEnd, Goto, ReleasePool
<1>18. ASSUME NEW c \in Callers, NEW t \in Tasks, AddCall(c, t) PROVE DestroyInv'
  BY <1>18 DEF AddCall, MayCall, Goto
<1>19. ASSUME NEW c \in Callers, NEW mode \in Shutdowns, DestroyCall(c, mode) PROVE DestroyInv'
  BY <1>19 DEF DestroyCall, MayCall, Goto
<1>20. ASSUME NEW w \in Workers, WorkerLock(w) PROVE DestroyInv'
  BY <1>20 DEF WorkerLock, Step
<1>21. ASSUME NEW w \in Workers, WorkerWait(w) PROVE DestroyInv'
  BY <1>21 DEF WorkerWait, Step
<1>22. ASSUME NEW w \in Workers, WorkerTake(w) PROVE DestroyInv'
  BY <1>22 DEF WorkerTake, Step
<1>23. ASSUME NEW w \in Workers, WorkerRun(w) PROVE DestroyInv'
  BY <1>23 DEF WorkerRun, Step
<1>24. ASSUME NEW w \in Workers, WorkerExit(w) PROVE DestroyInv'
  BY <1>24 DEF WorkerExit, Step
<1>25. ASSUME NEW w \in Workers, SpuriousWakeup(w) PROVE DestroyInv'
  BY <1>25 DEF SpuriousWakeup, Step
<1>26. ASSUME UNCHANGED vars PROVE DestroyInv'
  BY <1>26 DEF vars
<1> QED
  BY <1>1, <1>2, <1>3, <1>4, <1>5, <1>6, <1>7, <1>8, <1>9, <1>10, <1>11,
     <1>12, <1>13, <1>14, <1>15, <1>16, <1>17, <1>18, <1>19, <1>20, <1>21,
     <1>22, <1>23, <1>24, <1>25, <1>26
  DEF Next, Call, Proceed, Create, Add, Destroy, Finished, Worker

-----------------------------------------------------------------------------
(* The invariants *)

LEMMA QueueInvInit == Init => QueueInv
<1> SUFFICES ASSUME Init PROVE QueueInv
  OBVIOUS
<1>1. RingConsistent
  <2>1. 0 \in Slots /\ 0 \in 0..QueueSize /\ QueueSize \in Nat \ {0}
    BY Sizes
  <2>2. (0 + 0) % QueueSize = 0
    BY <2>1, SlotWraps
  <2> QED
    BY <2>2 DEF Init, RingConsistent
<1>2. OffersDistinct /\ RunningHaveTasks
  BY DEF Init, OffersDistinct, Adding, RunningHaveTasks
<1>3. NoTaskLostOrRepeated
  <2>1. \A t \in Tasks : {k \in 1..count : Pending[k] = t} = {}
    BY DEF Init
  <2> QED
    BY <2>1, FS_EmptySet DEF Init, NoTaskLostOrRepeated
<1> QED
  BY <1>1, <1>2, <1>3 DEF QueueInv

LEMMA ShutdownInvInit == Init => ShutdownInv /\ CreateInv /\ DestroyInv
<1> SUFFICES ASSUME Init PROVE ShutdownInv /\ CreateInv /\ DestroyInv
  OBVIOUS
<1>1. Waiting = {} /\ joined = 0 /\ err = FALSE
  BY DEF Init, Waiting
<1>2. ShutdownHeard /\ NoLostWakeup /\ ExitsDrained
  BY <1>1 DEF Init, ShutdownHeard, NoLostWakeup, ExitsDrained
<1>3. PublishedWhole /\ PoolGoesLast
  BY DEF Init, PublishedWhole, PoolGoesLast, Resources
<1>4. DestroyInv
  BY <1>1, Sizes DEF Init, DestroyInv, Workers
<1>5. LockHeld /\ JoinedEnded
  BY <1>1, Sizes DEF Init, LockHeld, JoinedEnded, Workers
<1>6. CreatedWhole /\ FailedCreateReleases
  BY PoolAssumption DEF Init, CreatedWhole, FailedCreateReleases
<1> QED
  BY <1>2, <1>3, <1>4, <1>5, <1>6 DEF ShutdownInv, CreateInv

(* The inductive invariant of the pool: the bookkeeping of the workers, the *)
(* ring and what a shutdown relies on hold together after every step.       *)
THEOREM WholePoolInvariant == Spec => []PoolInv
<1>1. Init => PoolInv
  BY InitIInv, QueueInvInit, ShutdownInvInit DEF PoolInv
<1>2. PoolInv /\ [Next]_vars => PoolInv'
  <2> SUFFICES ASSUME PoolInv, [Next]_vars PROVE PoolInv'
    OBVIOUS
  <2>1. IInv /\ QueueInv /\ ShutdownInv /\ CreateInv /\ TypeOK
    BY DEF PoolInv, IInv
  <2>2. IInv'
    BY <2>1, TypeOKNext, CreationAloneNext, ArgumentsNext, WorkersBornNext,
       ShutdownFirstNext, StartedNext, OutlivesNext DEF IInv
  <2>3. QueueInv'
    BY <2>1, LostNext, OffersNext, RunningNext DEF QueueInv
  <2>4. ShutdownInv'
    BY <2>1, HeardNext, WakeupNext, PublishedNext, DrainedNext, GoesLastNext DEF ShutdownInv
  <2>5. LockHeld' /\ JoinedEnded'
    BY <2>1, LockHeldNext, JoinedNext DEF CreateInv
  <2>6. CreatedWhole' /\ FailedCreateReleases'
    BY <2>1, CreatedNext DEF ShutdownInv
  <2> QED
    BY <2>2, <2>3, <2>4, <2>5, <2>6 DEF PoolInv, CreateInv
<1> QED
  BY <1>1, <1>2, PTL DEF Spec

(* Every accepted task is at exactly one place of the ring or was started  *)
(* once, for every queue size and any number of callers and workers: the   *)
(* indices of threadpool_add and threadpool_thread never meet.             *)
THEOREM TasksKept == Spec => []NoTaskLostOrRepeated
<1>1. PoolInv => NoTaskLostOrRepeated
  BY DEF PoolInv, QueueInv
<1> QED
  BY <1>1, WholePoolInvariant, PTL

(* One pthread_cond_signal per task suffices: no worker sleeps while more  *)
(* tasks are queued than workers are on their way to the queue.            *)
THEOREM WakeupsSuffice == Spec => []NoLostWakeup
<1>1. PoolInv => NoLostWakeup
  BY DEF PoolInv, ShutdownInv
<1> QED
  BY <1>1, WholePoolInvariant, PTL

(* A graceful destroy that releases the pool has drained it, whichever     *)
(* library calls failed.                                                   *)
THEOREM GracefulDrains == Spec => []GracefulDestroyDrains
<1>1. PoolInv => GracefulDestroyDrains
  <2> SUFFICES ASSUME PoolInv, res["pool"] = "gone", shutdown = "graceful"
               PROVE  /\ \A t \in accepted : ran[t] = 1
                      /\ \A w \in Workers : task[w] = None
    BY DEF GracefulDestroyDrains
  <2>1. \A w \in Workers : wpc[w] \in {"unborn", "exited"}
    BY DEF PoolInv, IInv, PoolOutlivesWorkers
  <2>2. thread_count = ThreadCount /\ Counting = {}
    BY DEF PoolInv, ShutdownInv, PublishedWhole, IInv, CreationAlone, Creating, Counting
  <2>3. 1 \in Workers /\ ~(1 > ThreadCount)
    BY Sizes DEF Workers
  <2>4. wpc[1] = "exited"
    BY <2>1, <2>2, <2>3 DEF PoolInv, IInv, WorkersBorn, Born
  <2>5. count = 0
    BY <2>3, <2>4 DEF PoolInv, ShutdownInv, ExitsDrained
  <2>6. ASSUME NEW t \in accepted PROVE ran[t] = 1
    <3>1. t \in Tasks /\ ran[t] \in Nat
      BY DEF PoolInv, IInv, TypeOK
    <3>2. Places(t) = {}
      BY <2>5 DEF Places
    <3>3. Cardinality(Places(t)) + ran[t] = 1
      BY <3>1 DEF PoolInv, QueueInv, NoTaskLostOrRepeated, Places
    <3> QED
      BY <3>1, <3>2, <3>3, FS_EmptySet
  <2>7. \A w \in Workers : task[w] = None
    BY <2>1 DEF PoolInv, QueueInv, RunningHaveTasks
  <2> QED
    BY <2>6, <2>7
<1> QED
  BY <1>1, WholePoolInvariant, PTL

(* A threadpool_create that fails, at whichever call and with however many  *)
(* workers already running, has ended every worker and released everything, *)
(* with two exceptions: without the thread array the queue, the mutex and   *)
(* the condition variable stay behind, and when a call of the destroy that  *)
(* cleans up fails too, the whole pool does.                                *)
THEOREM FailedCreateCleansUp == Spec => []FailedCreateReleases
<1>1. PoolInv => FailedCreateReleases
  BY DEF PoolInv, CreateInv
<1> QED
  BY <1>1, WholePoolInvariant, PTL

(* With one thread that destroys the pool, and no failing call, a destroy   *)
(* call that has returned has released it.  With two such threads it is     *)
(* false: the refused call returns first.                                   *)
THEOREM DestroyReleases ==
  ASSUME \A a, b \in Destroyers : a = b
  PROVE  Spec => []DestroyFrees
<1>1. Init => PoolInv /\ DestroyInv
  BY InitIInv, QueueInvInit, ShutdownInvInit DEF PoolInv
<1>2. IInv /\ PublishedWhole /\ DestroyInv /\ [Next]_vars => DestroyInv'
  BY DestroyInvNext DEF DestroyInv
<1>3. PoolInv => IInv /\ PublishedWhole
  BY DEF PoolInv, ShutdownInv
<1>4. DestroyInv => DestroyFrees
  BY DEF DestroyInv, DestroyFrees
<1> QED
  BY <1>1, <1>2, <1>3, <1>4, WholePoolInvariant, PTL DEF Spec

-----------------------------------------------------------------------------
(* The refinement *)

(* Pending is a sequence: what is queued, oldest first. *)
LEMMA PendingIsSeq ==
  TypeOK /\ RingConsistent => Pending \in Seq(Tasks) /\ Len(Pending) = count
<1> SUFFICES ASSUME TypeOK, RingConsistent
             PROVE  Pending \in Seq(Tasks) /\ Len(Pending) = count
  OBVIOUS
<1>1. count \in Nat
  BY Sizes DEF TypeOK
<1>2. DOMAIN Pending = 1..count /\ \A k \in 1..count : Pending[k] \in Tasks
  BY DEF Pending, RingConsistent
<1>3. Pending = [k \in 1..count |-> Pending[k]]
  BY DEF Pending
<1>4. Pending \in [1..count -> Tasks]
  BY <1>2, <1>3
<1>5. Pending \in Seq(Tasks)
  BY <1>1, <1>4, SeqDef
<1> QED
  BY <1>1, <1>2, <1>5, LenProperties

LEMMA AddIsSubmit ==
  ASSUME IInv, QueueInv, RingConsistent', TypeOK', NEW c \in Callers, AddTask(c)
  PROVE  arg[c] \in Tasks /\ TQ!Submit(arg[c])
<1>1. /\ Pending \in Seq(Tasks) /\ Len(Pending) = count /\ count \in Nat
      /\ RingConsistent /\ arg[c] \in Tasks
  BY PendingIsSeq, Sizes DEF IInv, QueueInv, TypeOK, Arguments, AddTask
<1>2. Pending' \in Seq(Tasks) /\ Len(Pending') = count'
  <2>1. (TypeOK /\ RingConsistent)'
    OBVIOUS
  <2>2. (Pending \in Seq(Tasks) /\ Len(Pending) = count)'
    BY <2>1, PendingIsSeq, PTL
  <2> QED
    BY <2>2
<1>3. /\ count < QueueSize /\ count' = count + 1
      /\ \A k \in 1..count : Pending'[k] = Pending[k]
      /\ Pending'[count + 1] = arg[c]
  BY <1>1, AddShape
<1>4. Pending' = Append(Pending, arg[c])
  <2>1. /\ Append(Pending, arg[c]) \in Seq(Tasks)
        /\ Len(Append(Pending, arg[c])) = count + 1
        /\ \A k \in 1..count : Append(Pending, arg[c])[k] = Pending[k]
        /\ Append(Pending, arg[c])[count + 1] = arg[c]
    BY <1>1, AppendProperties
  <2>2. \A k \in 1..(count + 1) : k \in 1..count \/ k = count + 1
    BY <1>1
  <2>3. \A k \in 1..(count + 1) : Pending'[k] = Append(Pending, arg[c])[k]
    BY <1>3, <2>1, <2>2
  <2> QED
    BY <1>2, <1>3, <2>1, <2>3, SeqEqual
<1> QED
  BY <1>1, <1>3, <1>4 DEF TQ!Submit, AddTask

LEMMA TakeIsTake ==
  ASSUME IInv, QueueInv, RingConsistent', TypeOK', NEW w \in Workers, WorkerTake(w)
  PROVE  TQ!Take(w)
<1>1. /\ Pending \in Seq(Tasks) /\ Len(Pending) = count
      /\ RingConsistent
  BY PendingIsSeq DEF IInv, QueueInv
<1>2. Pending' \in Seq(Tasks) /\ Len(Pending') = count'
  <2>1. (TypeOK /\ RingConsistent)'
    OBVIOUS
  <2>2. (Pending \in Seq(Tasks) /\ Len(Pending) = count)'
    BY <2>1, PendingIsSeq, PTL
  <2> QED
    BY <2>2
<1>3. /\ count \in 1..QueueSize /\ count' = count - 1 /\ queue[head] = Pending[1]
      /\ \A k \in 1..(count - 1) : Pending'[k] = Pending[k + 1]
  BY <1>1, TakeShape
<1>4. count \in Nat \ {0} /\ Pending # <<>>
  BY <1>1, <1>3, Sizes, EmptySeq
<1>5. Pending' = Tail(Pending) /\ Head(Pending) = queue[head]
  <2>1. /\ Tail(Pending) \in Seq(Tasks) /\ Len(Tail(Pending)) = Len(Pending) - 1
        /\ \A k \in 1..Len(Tail(Pending)) : Tail(Pending)[k] = Pending[k + 1]
        /\ Head(Pending) = Pending[1]
    BY <1>1, <1>4, HeadTailProperties
  <2>2. Len(Tail(Pending)) = count - 1 /\ Len(Pending') = count - 1
    BY <1>1, <1>2, <1>3, <2>1
  <2>3. \A k \in 1..Len(Tail(Pending)) : Pending'[k] = Tail(Pending)[k]
    BY <1>3, <2>1, <2>2
  <2> QED
    BY <1>2, <1>3, <2>1, <2>2, <2>3, SeqEqual
<1>6. task[w] = None /\ shutdown # "immediate" /\ task' = [task EXCEPT ![w] = queue[head]]
      /\ shutdown' = shutdown
  BY DEF WorkerTake, Quits, QueueInv, RunningHaveTasks
<1> QED
  BY <1>4, <1>5, <1>6 DEF TQ!Take

RefinedVars == <<queue, head, count, task, shutdown>>

LEMMA RefinementFrame ==
  ASSUME [Next]_vars
  PROVE  \/ \E c \in Callers : AddTask(c) \/ DestroyBegin(c) \/ BroadcastFails(c)
         \/ \E w \in Workers : WorkerTake(w) \/ WorkerRun(w)
         \/ UNCHANGED RefinedVars
BY DEF Next, Call, Proceed, Create, Add, Destroy, Worker, Finished, Allocate, Unwind,
  UnwindUndefined, Spawn, SpawnFails, Count, Acquire, LockFails, UseFreed, AddRefused,
  DestroyRefused, Join, JoinFails, DestroyEnd, AddCall, DestroyCall, WorkerLock, WorkerWait,
  WorkerExit, SpuriousWakeup, RefinedVars, poolVars, workerVars, vars

LEMMA RefinementStep ==
  ASSUME IInv, QueueInv, QueueInv', TypeOK', [Next]_vars
  PROVE  [TQ!Next]_(TQ!vars)
<1>a. RingConsistent'
  BY DEF QueueInv
<1>1. ASSUME NEW c \in Callers, AddTask(c) PROVE TQ!Next
  BY <1>1, <1>a, AddIsSubmit DEF TQ!Next
<1>2. ASSUME NEW c \in Callers, DestroyBegin(c) \/ BroadcastFails(c) PROVE TQ!Next
  <2>1. arg[c] \in Shutdowns
    BY <1>2 DEF IInv, Arguments, DestroyBegin, BroadcastFails
  <2>2. /\ shutdown = "no" /\ shutdown' = arg[c] /\ Pending' = Pending /\ task' = task
    BY <1>2 DEF DestroyBegin, BroadcastFails, poolVars, workerVars, Pending
  <2> QED
    BY <2>1, <2>2 DEF TQ!Next, TQ!Close, TQ!Shutdowns, Shutdowns
<1>3. ASSUME NEW w \in Workers, WorkerTake(w) PROVE TQ!Next
  BY <1>3, <1>a, TakeIsTake DEF TQ!Next
<1>4. ASSUME NEW w \in Workers, WorkerRun(w) PROVE TQ!Next
  <2>1. task[w] # None /\ task' = [task EXCEPT ![w] = None]
    BY <1>4 DEF WorkerRun, QueueInv, RunningHaveTasks
  <2>2. Pending' = Pending /\ shutdown' = shutdown
    BY <1>4 DEF WorkerRun, poolVars, Pending
  <2> QED
    BY <2>1, <2>2 DEF TQ!Next, TQ!Finish
<1>5. CASE UNCHANGED RefinedVars
  BY <1>5 DEF RefinedVars, Pending, TQ!vars
<1> QED
  BY <1>1, <1>2, <1>3, <1>4, <1>5, RefinementFrame

(* The ring, the mutex and the condition variable implement the bounded    *)
(* FIFO of TaskQueue, step by step, whatever fails and for every size.     *)
THEOREM RefinesTaskQueue == Spec => TQ!Spec
<1>1. Init => TQ!Init
  <2> SUFFICES ASSUME Init PROVE TQ!Init
    OBVIOUS
  <2>1. Pending = <<>>
    BY DEF Init, Pending
  <2> QED
    BY <2>1 DEF Init, TQ!Init
<1>2. PoolInv /\ PoolInv' /\ [Next]_vars => [TQ!Next]_(TQ!vars)
  BY RefinementStep DEF PoolInv, IInv
<1> QED
  BY <1>1, <1>2, WholePoolInvariant, PTL DEF Spec, TQ!Spec
=============================================================================
