----------------------------- MODULE ThreadPool -----------------------------
(***************************************************************************)
(* threadpool.c: worker threads that take tasks from a ring buffer under   *)
(* one mutex and one condition variable, the caller's side (create, add,   *)
(* destroy) and the release of the pool's memory.                          *)
(*                                                                         *)
(* A thread inside a critical section takes one step to acquire the mutex  *)
(* and one step for the body and the release, so that every interleaving   *)
(* of lock holders, sleepers and unlocked accesses (thread creation, the   *)
(* join loop, the release of memory) is explored.                          *)
(***************************************************************************)
EXTENDS Naturals, Sequences, FiniteSets

CONSTANTS
  ThreadCount,  \* thread_count passed to threadpool_create
  QueueSize,    \* queue_size passed to threadpool_create
  Tasks,        \* one element per task a caller may submit
  Callers,      \* the threads that call add and destroy
  Creator,      \* the caller that runs threadpool_create
  Destroyers,   \* the callers that may call threadpool_destroy
  Faults,       \* the library calls that may fail
  MaxSpurious,  \* bound: spurious wakeups of pthread_cond_wait in a run
  None          \* no task, no thread, no argument

MAX_THREADS == 64
MAX_QUEUE   == 65536

Shutdowns == {"immediate", "graceful"}

FallibleCalls ==
  {"pool", "threads", "queue", "mutex", "cond", "spawn",
   "lock", "signal", "broadcast", "join"}

(* The argument check of threadpool_create, and who the threads are. *)
ASSUME PoolAssumption ==
  /\ ThreadCount \in 1..MAX_THREADS
  /\ QueueSize \in 1..MAX_QUEUE
  /\ Creator \in Callers
  /\ Destroyers \subseteq Callers
  /\ Faults \subseteq FallibleCalls
  /\ MaxSpurious \in Nat
  /\ None \notin Tasks
  /\ None \notin Callers
  /\ None \notin 1..ThreadCount
  /\ \A c \in Callers : c \notin 1..ThreadCount

Workers == 1..ThreadCount
Slots   == 0..(QueueSize - 1)

(* What threadpool_create acquires and threadpool_free gives back. *)
Resources == {"pool", "threads", "queue", "mutex", "cond"}

VARIABLES
  lock,          \* the thread that holds pool->lock, or None
  queue,         \* pool->queue
  head,          \* pool->head
  tail,          \* pool->tail
  count,         \* pool->count
  shutdown,      \* pool->shutdown: "no", "immediate" or "graceful"
  thread_count,  \* pool->thread_count
  started,       \* pool->started
  res,           \* state of each resource: "absent", "live" or "gone"
  wpc,           \* where each worker is in threadpool_thread
  task,          \* the task each worker runs, or None
  cpc,           \* where each caller is
  arg,           \* the argument of the caller's pending call
  joined,        \* i of the join loop, in the destroy call that gets there
  err,           \* err of that destroy call: a join failed
  published,     \* threadpool_create has returned the pool
  spurious,      \* spurious wakeups so far
  offered,       \* history: tasks passed to threadpool_add
  accepted,      \* history: tasks put in the queue
  ran            \* history: how often each task was started

poolVars    == <<queue, head, tail, count>>
createVars  == <<thread_count, started, published>>
callerVars  == <<cpc, arg, joined, err>>
workerVars  == <<wpc, task>>
historyVars == <<offered, accepted, ran>>
vars == <<lock, queue, head, tail, count, shutdown, thread_count, started, res,
          wpc, task, cpc, arg, joined, err, published, spurious, offered,
          accepted, ran>>

WorkerPCs == {"unborn", "lock", "held", "waiting", "woken", "run", "exited"}
CallerPCs == {"create", "unwind", "spawn", "count", "idle", "add_lock", "add",
              "destroy_lock", "destroy", "join", "free", "returned",
              "undefined"}

TypeOK ==
  /\ lock \in Workers \cup Callers \cup {None}
  /\ queue \in [Slots -> Tasks \cup {None}]
  /\ head \in Slots
  /\ tail \in Slots
  /\ count \in 0..QueueSize
  /\ shutdown \in Shutdowns \cup {"no"}
  /\ thread_count \in 0..ThreadCount
  /\ started \in 0..ThreadCount
  /\ res \in [Resources -> {"absent", "live", "gone"}]
  /\ wpc \in [Workers -> WorkerPCs]
  /\ task \in [Workers -> Tasks \cup {None}]
  /\ cpc \in [Callers -> CallerPCs]
  /\ arg \in [Callers -> Tasks \cup Shutdowns \cup {None}]
  /\ joined \in 0..ThreadCount
  /\ err \in BOOLEAN
  /\ published \in BOOLEAN
  /\ spurious \in 0..MaxSpurious
  /\ offered \subseteq Tasks
  /\ accepted \subseteq Tasks
  /\ ran \in [Tasks -> Nat]

Init ==
  /\ lock = None
  /\ queue = [s \in Slots |-> None]
  /\ head = 0 /\ tail = 0 /\ count = 0
  /\ shutdown = "no"
  /\ thread_count = 0 /\ started = 0
  /\ res = [r \in Resources |-> "absent"]
  /\ wpc = [w \in Workers |-> "unborn"]
  /\ task = [w \in Workers |-> None]
  /\ cpc = [c \in Callers |-> IF c = Creator THEN "create" ELSE "idle"]
  /\ arg = [c \in Callers |-> None]
  /\ joined = 0 /\ err = FALSE
  /\ published = FALSE
  /\ spurious = 0
  /\ offered = {} /\ accepted = {}
  /\ ran = [t \in Tasks |-> 0]

-----------------------------------------------------------------------------
(* Helpers *)

Goto(c, label) == cpc' = [cpc EXCEPT ![c] = label]
Step(w, label) == wpc' = [wpc EXCEPT ![w] = label]

(* Definitions named Bug... are deliberate mistakes that no action uses:   *)
(* each, put in the place of the definition after it, breaks a property.   *)

BugNextSlot(i) == i + 1

(* The ring index after i. *)
NextSlot(i) == (i + 1) % QueueSize

BugQueueFull == count > QueueSize

QueueFull == count = QueueSize

Waiting == {w \in Workers : wpc[w] = "waiting"}

(* pthread_cond_signal wakes one of the sleeping workers, if there is one, *)
(* and pthread_cond_broadcast all of them.                                 *)
BugSignalNever == UNCHANGED wpc

BugSignalOnlyFirst ==
  IF count > 0 \/ Waiting = {} THEN UNCHANGED wpc
  ELSE \E w \in Waiting : Step(w, "woken")

Signal ==
  IF Waiting = {} THEN UNCHANGED wpc ELSE \E w \in Waiting : Step(w, "woken")

BugBroadcast == Signal

Broadcast ==
  wpc' = [w \in Workers |-> IF wpc[w] = "waiting" THEN "woken" ELSE wpc[w]]

(* The test that ends a worker's loop. *)
BugQuitsAtOnce == shutdown # "no"
BugQuitsDrained == shutdown # "no" /\ count = 0
Quits == shutdown = "immediate" \/ (shutdown = "graceful" /\ count = 0)

(* threadpool_free: refuses while workers are counted as started; without *)
(* the thread array it frees the pool alone, else it locks the mutex and   *)
(* destroys it, so it waits for whoever holds it.                          *)
FreedResources == IF res["threads"] = "live" THEN Resources ELSE {"pool"}

ReleasePool(c) ==
  IF started > 0
  THEN UNCHANGED <<res, lock>>
  ELSE /\ res["threads"] = "live" => lock = None
       /\ lock' = IF res["threads"] = "live" THEN c ELSE lock
       /\ res' = [r \in Resources |->
                    IF r \in FreedResources /\ res[r] = "live"
                    THEN "gone" ELSE res[r]]

-----------------------------------------------------------------------------
(* threadpool_create *)

(* The initialisers run as one || chain, mutex before condition variable, *)
(* and after both allocations; got is what was acquired besides the pool.  *)
Acquired(got) ==
  /\ ({"threads", "queue"} \ got) \subseteq Faults
  /\ "mutex" \notin got => "mutex" \in Faults /\ "cond" \notin got
  /\ "mutex" \in got /\ "cond" \notin got => "cond" \in Faults

Allocate(c) ==
  /\ cpc[c] = "create"
  /\ \/ /\ "pool" \in Faults
        /\ Goto(c, "returned")
        /\ UNCHANGED res
     \/ \E got \in SUBSET (Resources \ {"pool"}) :
          /\ Acquired(got)
          /\ res' = [r \in Resources |->
                       IF r \in got \cup {"pool"} THEN "live" ELSE "absent"]
          /\ Goto(c, IF got \cup {"pool"} = Resources THEN "spawn" ELSE "unwind")
  /\ UNCHANGED <<lock, poolVars, shutdown, createVars, workerVars, arg, joined,
                 err, spurious, historyVars>>

(* The err label: threadpool_free on a partly built pool. *)
Unwind(c) ==
  /\ cpc[c] = "unwind"
  /\ ReleasePool(c)
  /\ Goto(c, "returned")
  /\ UNCHANGED <<poolVars, shutdown, createVars, workerVars, arg, joined, err,
                 spurious, historyVars>>

(* ... which, when the thread array exists but an init failed, locks or     *)
(* destroys what was never initialised: undefined, for one the call may not *)
(* return.                                                                  *)
UnwindUndefined(c) ==
  /\ cpc[c] = "unwind"
  /\ res["threads"] = "live"
  /\ res["cond"] = "absent"
  /\ Goto(c, "undefined")
  /\ UNCHANGED <<lock, poolVars, shutdown, createVars, res, workerVars, arg,
                 joined, err, spurious, historyVars>>

(* pthread_create: the new worker may run before it is counted. *)
Spawn(c) ==
  /\ cpc[c] = "spawn"
  /\ Step(thread_count + 1, "lock")
  /\ Goto(c, "count")
  /\ UNCHANGED <<lock, poolVars, shutdown, createVars, res, task, arg, joined,
                 err, spurious, historyVars>>

(* A worker cannot be created: threadpool_destroy(pool, 0). *)
SpawnFails(c) ==
  /\ cpc[c] = "spawn"
  /\ "spawn" \in Faults
  /\ Goto(c, "destroy_lock")
  /\ arg' = [arg EXCEPT ![c] = "immediate"]
  /\ UNCHANGED <<lock, poolVars, shutdown, createVars, res, workerVars, joined,
                 err, spurious, historyVars>>

BugCount(c) ==
  /\ cpc[c] = "count"
  /\ thread_count' = thread_count + 1
  /\ started' = 1
  /\ published' = (thread_count + 1 = ThreadCount)
  /\ Goto(c, IF thread_count + 1 = ThreadCount THEN "idle" ELSE "spawn")
  /\ UNCHANGED <<lock, poolVars, shutdown, res, workerVars, arg, joined, err,
                 spurious, historyVars>>

(* thread_count++ and started++, without the lock. *)
Count(c) ==
  /\ cpc[c] = "count"
  /\ thread_count' = thread_count + 1
  /\ started' = started + 1
  /\ published' = (thread_count + 1 = ThreadCount)
  /\ Goto(c, IF thread_count + 1 = ThreadCount THEN "idle" ELSE "spawn")
  /\ UNCHANGED <<lock, poolVars, shutdown, res, workerVars, arg, joined, err,
                 spurious, historyVars>>

-----------------------------------------------------------------------------
(* threadpool_add *)

(* A caller starts no call on a pool that is already destroyed; each task  *)
(* is offered once, which bounds the run.                                  *)
MayCall(c) == cpc[c] = "idle" /\ published /\ res["pool"] = "live"

AddCall(c, t) ==
  /\ MayCall(c)
  /\ t \notin offered
  /\ offered' = offered \cup {t}
  /\ arg' = [arg EXCEPT ![c] = t]
  /\ Goto(c, "add_lock")
  /\ UNCHANGED <<lock, poolVars, shutdown, createVars, res, workerVars, joined,
                 err, spurious, accepted, ran>>

(* pthread_mutex_lock at the head of add and of destroy. *)
Acquire(c) ==
  /\ cpc[c] \in {"add_lock", "destroy_lock"}
  /\ res["pool"] = "live"
  /\ lock = None
  /\ lock' = c
  /\ Goto(c, IF cpc[c] = "add_lock" THEN "add" ELSE "destroy")
  /\ UNCHANGED <<poolVars, shutdown, createVars, res, workerVars, arg, joined,
                 err, spurious, historyVars>>

LockFails(c) ==
  /\ cpc[c] \in {"add_lock", "destroy_lock"}
  /\ "lock" \in Faults
  /\ Goto(c, IF cpc[c] = "add_lock" THEN "idle" ELSE "returned")
  /\ arg' = [arg EXCEPT ![c] = None]
  /\ UNCHANGED <<lock, poolVars, shutdown, createVars, res, workerVars, joined,
                 err, spurious, historyVars>>

(* A call that was waiting for the lock while another caller destroyed and *)
(* freed the pool goes on with freed memory.                               *)
UseFreed(c) ==
  /\ cpc[c] \in {"add_lock", "destroy_lock"}
  /\ res["pool"] = "gone"
  /\ Goto(c, "undefined")
  /\ UNCHANGED <<lock, poolVars, shutdown, createVars, res, workerVars, arg,
                 joined, err, spurious, historyVars>>

(* threadpool_queue_full or threadpool_shutdown. *)
AddRefused(c) ==
  /\ cpc[c] = "add"
  /\ QueueFull \/ shutdown # "no"
  /\ lock' = None
  /\ Goto(c, "idle")
  /\ arg' = [arg EXCEPT ![c] = None]
  /\ UNCHANGED <<poolVars, shutdown, createVars, res, workerVars, joined, err,
                 spurious, historyVars>>

(* The task stays queued when the signal fails, though an error is returned. *)
AddTask(c) ==
  /\ cpc[c] = "add"
  /\ ~QueueFull
  /\ shutdown = "no"
  /\ queue' = [queue EXCEPT ![tail] = arg[c]]
  /\ tail' = NextSlot(tail)
  /\ count' = count + 1
  /\ Signal \/ ("signal" \in Faults /\ UNCHANGED wpc)
  /\ lock' = None
  /\ Goto(c, "idle")
  /\ arg' = [arg EXCEPT ![c] = None]
  /\ accepted' = accepted \cup {arg[c]}
  /\ UNCHANGED <<head, shutdown, createVars, res, task, joined, err, spurious,
                 offered, ran>>

-----------------------------------------------------------------------------
(* threadpool_destroy *)

DestroyCall(c, mode) ==
  /\ MayCall(c)
  /\ c \in Destroyers
  /\ arg' = [arg EXCEPT ![c] = mode]
  /\ Goto(c, "destroy_lock")
  /\ UNCHANGED <<lock, poolVars, shutdown, createVars, res, workerVars, joined,
                 err, spurious, historyVars>>

(* "Already shutting down": the break leaves the mutex locked. *)
DestroyRefused(c) ==
  /\ cpc[c] = "destroy"
  /\ shutdown # "no"
  /\ Goto(c, "returned")
  /\ UNCHANGED <<lock, poolVars, shutdown, createVars, res, workerVars, arg,
                 joined, err, spurious, historyVars>>

DestroyBegin(c) ==
  /\ cpc[c] = "destroy"
  /\ shutdown = "no"
  /\ shutdown' = arg[c]
  /\ Broadcast
  /\ lock' = None
  /\ Goto(c, "join")
  /\ UNCHANGED <<poolVars, createVars, res, task, arg, joined, err, spurious,
                 historyVars>>

(* A failing broadcast skips the unlock: the mutex stays locked. *)
BroadcastFails(c) ==
  /\ cpc[c] = "destroy"
  /\ shutdown = "no"
  /\ "broadcast" \in Faults
  /\ shutdown' = arg[c]
  /\ Goto(c, "returned")
  /\ UNCHANGED <<lock, poolVars, createVars, res, workerVars, arg, joined, err,
                 spurious, historyVars>>

BugMoreToJoin == joined + 1 < thread_count
MoreToJoin == joined < thread_count

(* pthread_join(threads[i]) returns once that thread has ended. *)
Join(c) ==
  /\ cpc[c] = "join"
  /\ MoreToJoin
  /\ wpc[joined + 1] = "exited"
  /\ joined' = joined + 1
  /\ UNCHANGED <<lock, poolVars, shutdown, createVars, res, workerVars, cpc,
                 arg, err, spurious, historyVars>>

JoinFails(c) ==
  /\ cpc[c] = "join"
  /\ MoreToJoin
  /\ "join" \in Faults
  /\ joined' = joined + 1
  /\ err' = TRUE
  /\ UNCHANGED <<lock, poolVars, shutdown, createVars, res, workerVars, cpc,
                 arg, spurious, historyVars>>

BugDestroyEnd(c) ==
  /\ cpc[c] = "join"
  /\ res' = [r \in Resources |-> IF res[r] = "live" THEN "gone" ELSE res[r]]
  /\ Goto(c, "returned")
  /\ UNCHANGED <<lock, poolVars, shutdown, createVars, workerVars, arg, joined,
                 err, spurious, historyVars>>

(* Only if everything went well is the pool released. *)
DestroyEnd(c) ==
  /\ cpc[c] = "join"
  /\ ~MoreToJoin
  /\ IF err THEN UNCHANGED <<res, lock>> ELSE ReleasePool(c)
  /\ Goto(c, "returned")
  /\ UNCHANGED <<poolVars, shutdown, createVars, workerVars, arg, joined, err,
                 spurious, historyVars>>

-----------------------------------------------------------------------------
(* threadpool_thread *)

(* pthread_mutex_lock, or pthread_cond_wait taking the mutex back. *)
WorkerLock(w) ==
  /\ wpc[w] \in {"lock", "woken"}
  /\ lock = None
  /\ lock' = w
  /\ Step(w, "held")
  /\ UNCHANGED <<poolVars, shutdown, createVars, res, task, callerVars,
                 spurious, historyVars>>

WorkerWait(w) ==
  /\ wpc[w] = "held"
  /\ count = 0
  /\ shutdown = "no"
  /\ lock' = None
  /\ Step(w, "waiting")
  /\ UNCHANGED <<poolVars, shutdown, createVars, res, task, callerVars,
                 spurious, historyVars>>

(* pthread_cond_wait may return without a signal. *)
SpuriousWakeup(w) ==
  /\ wpc[w] = "waiting"
  /\ spurious < MaxSpurious
  /\ spurious' = spurious + 1
  /\ Step(w, "woken")
  /\ UNCHANGED <<lock, poolVars, shutdown, createVars, res, task, callerVars,
                 historyVars>>

WorkerTake(w) ==
  /\ wpc[w] = "held"
  /\ count > 0 \/ shutdown # "no"
  /\ ~Quits
  /\ task' = [task EXCEPT ![w] = queue[head]]
  /\ ran' = [ran EXCEPT ![queue[head]] = @ + 1]
  /\ head' = NextSlot(head)
  /\ count' = count - 1
  /\ lock' = None
  /\ Step(w, "run")
  /\ UNCHANGED <<queue, tail, shutdown, createVars, res, callerVars, spurious,
                 offered, accepted>>

(* The call of the task's function returns. *)
WorkerRun(w) ==
  /\ wpc[w] = "run"
  /\ task' = [task EXCEPT ![w] = None]
  /\ Step(w, "lock")
  /\ UNCHANGED <<lock, poolVars, shutdown, createVars, res, callerVars,
                 spurious, historyVars>>

WorkerExit(w) ==
  /\ wpc[w] = "held"
  /\ Quits
  /\ started' = started - 1
  /\ lock' = None
  /\ Step(w, "exited")
  /\ UNCHANGED <<poolVars, shutdown, thread_count, published, res, task,
                 callerVars, spurious, historyVars>>

-----------------------------------------------------------------------------

Create(c) ==
  \/ Allocate(c) \/ Unwind(c) \/ UnwindUndefined(c)
  \/ Spawn(c) \/ SpawnFails(c) \/ Count(c)

Add(c) == AddRefused(c) \/ AddTask(c)

Destroy(c) ==
  \/ DestroyRefused(c) \/ DestroyBegin(c) \/ BroadcastFails(c)
  \/ Join(c) \/ JoinFails(c) \/ DestroyEnd(c)

(* The steps of a call in progress, and the steps of a worker; starting a *)
(* call is up to the program and spurious wakeups are up to nobody.       *)
Proceed(c) ==
  Create(c) \/ Acquire(c) \/ LockFails(c) \/ UseFreed(c) \/ Add(c) \/ Destroy(c)

Worker(w) ==
  WorkerLock(w) \/ WorkerWait(w) \/ WorkerTake(w) \/ WorkerRun(w) \/ WorkerExit(w)

Call(c) ==
  \/ \E t \in Tasks : AddCall(c, t)
  \/ \E mode \in Shutdowns : DestroyCall(c, mode)

(* Every call has returned and every worker has ended. *)
Finished ==
  /\ \A c \in Callers : cpc[c] \in {"idle", "returned", "undefined"}
  /\ \A w \in Workers : wpc[w] \in {"unborn", "exited"}
  /\ UNCHANGED vars

Next ==
  \/ \E c \in Callers : Call(c) \/ Proceed(c)
  \/ \E w \in Workers : Worker(w) \/ SpuriousWakeup(w)
  \/ Finished

Spec == Init /\ [][Next]_vars

Fairness ==
  /\ \A c \in Callers : WF_vars(Proceed(c))
  /\ \A w \in Workers : WF_vars(Worker(w))

FairSpec == Spec /\ Fairness

-----------------------------------------------------------------------------
(* Properties *)

(* The queued tasks, oldest first. *)
Pending == [k \in 1..count |-> queue[(head + k - 1) % QueueSize]]

(* Every accepted task is, at every moment, either at exactly one place of *)
(* the ring or already started, once; a task that was never accepted is    *)
(* nowhere.  Wrapping indices, a full ring and racing workers could lose,  *)
(* overwrite or repeat a task.                                             *)
NoTaskLostOrRepeated ==
  \A t \in Tasks :
    Cardinality({k \in 1..count : Pending[k] = t}) + ran[t]
      = IF t \in accepted THEN 1 ELSE 0

(* threadpool_add signals one worker per task and a busy worker may take   *)
(* the task first: still no worker sleeps while there are more queued      *)
(* tasks than workers on their way to the queue.                           *)
OnTheirWay == {w \in Workers : wpc[w] \in {"lock", "woken", "held"}}

NoLostWakeup ==
  {"signal", "broadcast"} \cap Faults = {} /\ Waiting # {}
    => count <= Cardinality(OnTheirWay)

(* The memory of the pool (and the mutex a worker locks at the head of its *)
(* loop) is released only after every worker that was created has ended.   *)
PoolOutlivesWorkers ==
  res["pool"] = "gone" => \A w \in Workers : wpc[w] \in {"unborn", "exited"}

(* A destroy call that returns has given the pool's memory back: the join   *)
(* loop and the unlocked counting add up, so that threadpool_free never     *)
(* refuses and keeps the pool.                                              *)
DestroyFrees ==
  Faults = {} => \A c \in Callers : cpc[c] = "returned" => res["pool"] = "gone"

(* When a graceful destroy has released the pool, every task that was      *)
(* accepted has been run to its end.                                       *)
GracefulDestroyDrains ==
  res["pool"] = "gone" /\ shutdown = "graceful"
    => /\ \A t \in accepted : ran[t] = 1
       /\ \A w \in Workers : task[w] = None

(* pool->started is written by threadpool_create without the lock and by   *)
(* ending workers under it: it still counts the live workers, but for the  *)
(* one created and not yet counted.                                        *)
Alive    == {w \in Workers : wpc[w] \notin {"unborn", "exited"}}
Counting == {c \in Callers : cpc[c] = "count"}

StartedCountsLiveWorkers ==
  Cardinality(Alive) = started + Cardinality(Counting)

(* What a threadpool_create that returned NULL leaves, wherever it failed:  *)
(* no worker and no memory; or, when the thread array could not be          *)
(* allocated, no worker and no pool, but the queue, the mutex and the       *)
(* condition variable (threadpool_free looks at pool->threads alone); or    *)
(* the whole pool, but only if a call failed inside the threadpool_destroy  *)
(* that followed a failed pthread_create: its lock, its broadcast (the      *)
(* mutex stays locked) or a join.                                           *)
FailedCreateReleases ==
  cpc[Creator] = "returned" /\ ~published =>
    \/ /\ Alive = {}
       /\ \A r \in Resources : res[r] # "live"
    \/ /\ Alive = {}
       /\ res["threads"] = "absent"
       /\ res["pool"] = "gone"
    \/ /\ \A r \in Resources : res[r] = "live"
       /\ shutdown = "no" \/ lock = Creator \/ err

(* Every accepted task is started unless the pool is shut down immediately. *)
AcceptedTaskStarts ==
  \A t \in Tasks : t \in accepted ~> (ran[t] = 1 \/ shutdown = "immediate")

(* A call of threadpool_destroy returns: all workers hear of the shutdown. *)
DestroyReturns ==
  \A c \in Callers : cpc[c] = "destroy_lock" ~> cpc[c] = "returned"

(* threadpool.h: with threadpool_graceful the pool "processes all pending  *)
(* tasks before shutdown".                                                 *)
GracefulRunsPending ==
  shutdown = "graceful" ~> \A t \in accepted : ran[t] = 1

(* The ring, the mutex and the condition variable implement the bounded    *)
(* FIFO of TaskQueue, step by step and with its fairness.                  *)
TQ == INSTANCE TaskQueue
        WITH Capacity <- QueueSize, pending <- Pending, running <- task,
             phase <- shutdown

ImplementsTaskQueue == TQ!FairSpec

-----------------------------------------------------------------------------
(* The inductive invariant of ThreadPoolProofs.                            *)

Creating == {"create", "unwind", "spawn", "count"}

(* threadpool_create runs before anybody else has the pool. *)
CreationAlone ==
  \A c \in Callers :
    /\ c # Creator /\ cpc[c] # "idle" => published
    /\ cpc[c] \in Creating =>
         c = Creator /\ ~published /\ shutdown = "no" /\ res["pool"] # "gone"
    /\ cpc[c] \in {"spawn", "count"} => thread_count < ThreadCount
    /\ cpc[c] \in {"create", "unwind"} => thread_count = 0

Arguments ==
  \A c \in Callers :
    /\ cpc[c] \in {"add_lock", "add"} => arg[c] \in Tasks
    /\ cpc[c] \in {"destroy_lock", "destroy"} => arg[c] \in Shutdowns

(* The workers that exist are the first ones of the thread array. *)
Born == IF Counting = {} THEN thread_count ELSE thread_count + 1

WorkersBorn == \A w \in Workers : wpc[w] = "unborn" <=> w > Born

(* Nobody joins and no worker ends before the shutdown flag is set. *)
ShutdownFirst ==
  shutdown = "no" => /\ \A w \in Workers : wpc[w] # "exited"
                     /\ \A c \in Callers : cpc[c] # "join"

(* What the unlocked code of create, destroy and free relies on, together. *)
IInv ==
  /\ TypeOK
  /\ CreationAlone
  /\ Arguments
  /\ WorkersBorn
  /\ ShutdownFirst
  /\ StartedCountsLiveWorkers
  /\ PoolOutlivesWorkers

(* The ring: count tasks lie between head and tail. *)
RingConsistent ==
  /\ tail = (head + count) % QueueSize
  /\ \A k \in 1..count : Pending[k] \in Tasks

(* A task on its way to the queue is not there yet, and in one call only. *)
Adding(c) == cpc[c] \in {"add_lock", "add"}

OffersDistinct ==
  /\ accepted \subseteq offered
  /\ \A c \in Callers : Adding(c) => arg[c] \in offered \ accepted
  /\ \A c, d \in Callers : Adding(c) /\ Adding(d) /\ c # d => arg[c] # arg[d]

RunningHaveTasks == \A w \in Workers : task[w] = None <=> wpc[w] # "run"

(* What AddTask and WorkerTake rely on. *)
QueueInv ==
  /\ RingConsistent
  /\ OffersDistinct
  /\ RunningHaveTasks
  /\ NoTaskLostOrRepeated

(* No worker sleeps through the shutdown unless the broadcast failed. *)
ShutdownHeard ==
  "broadcast" \notin Faults /\ shutdown # "no" => Waiting = {}

(* Only a complete pool is shut down gracefully. *)
PublishedWhole ==
  /\ published => thread_count = ThreadCount /\ res["pool"] # "absent"
  /\ shutdown = "graceful" => published
  /\ \A c \in Callers :
       /\ ~published /\ cpc[c] \in {"destroy_lock", "destroy"} => arg[c] = "immediate"
       /\ cpc[c] \in {"spawn", "count"} => res["pool"] # "absent"

(* A worker ends a graceful shutdown on an empty queue, which stays empty. *)
ExitsDrained ==
  shutdown = "graceful" /\ (\E w \in Workers : wpc[w] = "exited") => count = 0

(* The pool structure is the first resource acquired and the last released. *)
PoolGoesLast ==
  /\ res["threads"] = "live" => res["pool"] # "absent"
  /\ res["threads"] = "gone" => res["pool"] = "gone"

(* What the promises of a shutdown rely on. *)
ShutdownInv ==
  /\ ShutdownHeard
  /\ NoLostWakeup
  /\ PublishedWhole
  /\ ExitsDrained
  /\ PoolGoesLast

(* A thread inside a critical section holds the mutex. *)
LockHeld ==
  /\ \A w \in Workers : wpc[w] = "held" => lock = w
  /\ \A c \in Callers : cpc[c] \in {"add", "destroy"} => lock = c

(* Until a join fails, the threads joined so far have ended. *)
JoinedEnded == ~err => \A w \in Workers : w <= joined => wpc[w] = "exited"

(* Until create returns a pool, nobody but its error paths releases anything *)
(* and nobody but the destroy of a failed pthread_create shuts it down.      *)
CreatedWhole ==
  ~published =>
    /\ cpc[Creator] = "create" => \A r \in Resources : res[r] = "absent"
    /\ cpc[Creator] = "unwind" => res["pool"] = "live"
    /\ cpc[Creator] \in {"spawn", "count", "destroy_lock", "destroy", "join"}
         => \A r \in Resources : res[r] = "live"
    /\ cpc[Creator] \in {"destroy_lock", "destroy"} => shutdown = "no"

(* What the promise of a failed create relies on. *)
CreateInv ==
  /\ LockHeld
  /\ JoinedEnded
  /\ CreatedWhole
  /\ FailedCreateReleases

(* The destroy call of a pool whose library calls do not fail. *)
DestroyInv ==
  Faults = {} =>
    /\ err = FALSE
    /\ \A c \in Callers :
         /\ cpc[c] # "unwind"
         /\ cpc[c] \in {"destroy_lock", "destroy", "join", "returned"} =>
              c \in Destroyers /\ published
         /\ cpc[c] = "returned" => res["pool"] = "gone"
    /\ shutdown # "no" => \E c \in Destroyers : cpc[c] \in {"join", "returned"}
    /\ \A w \in Workers : w <= joined => wpc[w] = "exited"

(* The inductive invariant of the pool. *)
PoolInv == IInv /\ QueueInv /\ ShutdownInv /\ CreateInv
=============================================================================
