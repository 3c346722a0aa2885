----------------------------- MODULE ThreadPool -----------------------------
(***************************************************************************)
(* threadpool.c: a mutex, a condition variable, a LIFO list of task nodes  *)
(* and thread_num workers.  One action per critical section or per step    *)
(* taken outside the lock; a thread that blocks (mutex, condition          *)
(* variable, join) is a thread whose action is not enabled.                *)
(*                                                                         *)
(* The mutex is a variable of its own because two error returns of the     *)
(* code leave it locked (threadpool.c:109 and :171).                       *)
(***************************************************************************)
EXTENDS Integers, Sequences, FiniteSets

CONSTANTS
  thread_num,   \* the argument of threadpool_init
  Callers,      \* threads that call threadpool_add
  Main,         \* the one that calls threadpool_init
  Destroyers,   \* the callers that may call threadpool_destroy
  Tasks,        \* task_t nodes of the heap; bounds how many are outstanding
  Faults,       \* which calls may fail: "malloc", "pthread_create"
  None

Workers == 1 .. thread_num

ASSUME PoolAssumption ==
  /\ thread_num \in Nat \ {0}
  /\ Main \in Callers
  /\ Destroyers \subseteq Callers
  /\ Callers \cap Workers = {}
  /\ None \notin Callers \cup Workers \cup Tasks
  /\ Faults \subseteq {"malloc", "pthread_create"}

VARIABLES
  pool,          \* how far the pool has come, see PoolStates
  lock,          \* who holds pool->lock, or None
  queue,         \* the list behind the dummy head, first node first
  queue_size, shutdown, thread_count, start_size,   \* fields of threadpool_t
  wpc,           \* where each worker is in threadpool_worker
  task,          \* the worker's local variable task, while it runs it
  cpc            \* where each caller is in the pool's API

vars == <<pool, lock, queue, queue_size, shutdown, thread_count, start_size,
          wpc, task, cpc>>

\* "NULL": threadpool_init returned NULL; "crash": its error path
\* dereferenced a list head that was never set up; "freed": destroyed, but
\* its mutex was held and survived pthread_mutex_destroy (EBUSY).
PoolStates == {"unbuilt", "starting", "open", "destroyed", "freed", "NULL", "crash"}
WorkerStates == {"none", "loop", "locked", "waiting", "woken", "run", "done"}
CallerStates == {"init", "create", "count", "idle", "add", "adding", "destroy",
                 "destroying", "join", "free", "gone"}

immediate_shutdown == 1
graceful_shutdown == 2

TypeOK ==
  /\ pool \in PoolStates
  /\ lock \in Workers \cup Callers \cup {None}
  /\ queue \in Seq(Tasks)
  /\ queue_size \in Int
  /\ shutdown \in {0, immediate_shutdown, graceful_shutdown}
  /\ thread_count \in 0 .. thread_num
  /\ start_size \in Int
  /\ wpc \in [Workers -> WorkerStates]
  /\ task \in [Workers -> Tasks \cup {None}]
  /\ cpc \in [Callers -> CallerStates]

Init ==
  /\ pool = "unbuilt"
  /\ lock = None
  /\ queue = << >>
  /\ queue_size = 0
  /\ shutdown = 0
  /\ thread_count = 0
  /\ start_size = 0
  /\ wpc = [w \in Workers |-> "none"]
  /\ task = [w \in Workers |-> None]
  /\ cpc = [c \in Callers |-> IF c = Main THEN "init" ELSE "idle"]

-----------------------------------------------------------------------------
(* Views of the state *)

Queued == {queue[i] : i \in 1 .. Len(queue)}
Running == {task[w] : w \in Workers} \ {None}
\* Mutant: free(task) before the function is called.
FreeNodes_FreedBeforeRun == Tasks \ Queued
FreeNodes == Tasks \ (Queued \cup Running)
Waiting == {w \in Workers : wpc[w] = "waiting"}
\* Workers that are awake and on their way to look at the list.
Seeking == {w \in Workers : wpc[w] \in {"loop", "woken", "locked"}}

CallerAt(c, from, to) ==
  /\ cpc[c] = from
  /\ cpc' = [cpc EXCEPT ![c] = to]

-----------------------------------------------------------------------------
(* threadpool_init, run by Main *)

InitAlloc ==
  /\ CallerAt(Main, "init", "create")
  /\ pool' = "starting"
  /\ UNCHANGED <<lock, queue, queue_size, shutdown, thread_count, start_size, wpc, task>>

\* goto err: without a pool NULL is returned; without pool->threads or
\* pool->head, threadpool_free reads a head->next nobody has written.
InitAllocFails ==
  /\ "malloc" \in Faults
  /\ CallerAt(Main, "init", "gone")
  /\ pool' \in {"NULL", "crash"}
  /\ UNCHANGED <<lock, queue, queue_size, shutdown, thread_count, start_size, wpc, task>>

\* The new thread runs before its creator has counted it.
InitCreate ==
  /\ thread_count < thread_num
  /\ CallerAt(Main, "create", "count")
  /\ wpc' = [wpc EXCEPT ![thread_count + 1] = "loop"]
  /\ UNCHANGED <<pool, lock, queue, queue_size, shutdown, thread_count, start_size, task>>

InitCount ==
  /\ CallerAt(Main, "count", "create")
  /\ thread_count' = thread_count + 1
  /\ start_size' = start_size + 1
  /\ UNCHANGED <<pool, lock, queue, queue_size, shutdown, wpc, task>>

\* threadpool_destroy(pool, 0) on what was built so far.
InitCreateFails ==
  /\ "pthread_create" \in Faults
  /\ thread_count < thread_num
  /\ CallerAt(Main, "create", "destroy")
  /\ UNCHANGED <<pool, lock, queue, queue_size, shutdown, thread_count, start_size, wpc, task>>

InitDone ==
  /\ thread_count = thread_num
  /\ CallerAt(Main, "create", "idle")
  /\ pool' = "open"
  /\ UNCHANGED <<lock, queue, queue_size, shutdown, thread_count, start_size, wpc, task>>

-----------------------------------------------------------------------------
(* pthread_mutex_lock at the top of threadpool_add and threadpool_destroy *)

LockPool(c) ==
  /\ pool # "destroyed"
  /\ lock = None
  /\ lock' = c
  /\ \/ CallerAt(c, "add", "adding")
     \/ CallerAt(c, "destroy", "destroying")
  /\ UNCHANGED <<pool, queue, queue_size, shutdown, thread_count, start_size, wpc, task>>

\* A destroyed mutex is refused with EINVAL; the call returns its error.
LockRefused(c) ==
  /\ pool = "destroyed"
  /\ \/ CallerAt(c, "add", "idle")
     \/ CallerAt(c, "destroy", "idle")
  /\ UNCHANGED <<pool, lock, queue, queue_size, shutdown, thread_count, start_size, wpc, task>>

-----------------------------------------------------------------------------
(* threadpool_add *)

\* The bound on outstanding tasks: a call starts only if a node is left for it.
RoomForTask ==
  Cardinality({c \in Callers : cpc[c] \in {"add", "adding"}}) < Cardinality(FreeNodes)

AddCall(c) ==
  /\ pool = "open"
  /\ RoomForTask
  /\ CallerAt(c, "idle", "add")
  /\ UNCHANGED <<pool, lock, queue, queue_size, shutdown, thread_count, start_size, wpc, task>>

\* Mutant: no signal.
CondSignal_Dropped == UNCHANGED wpc

\* pthread_cond_signal: one waiter, any of them, is woken if there is one.
CondSignal ==
  IF Waiting = {} THEN UNCHANGED wpc
  ELSE \E w \in Waiting : wpc' = [wpc EXCEPT ![w] = "woken"]

\* The node goes to the front of the list.
LinkTask(t) == queue' = <<t>> \o queue

AddTask(c) ==
  /\ shutdown = 0
  /\ CallerAt(c, "adding", "idle")
  /\ \E t \in FreeNodes : LinkTask(t)
  /\ queue_size' = queue_size + 1
  /\ CondSignal
  /\ lock' = None
  /\ UNCHANGED <<pool, shutdown, thread_count, start_size, task>>

AddRefused(c) ==
  /\ shutdown # 0
  /\ CallerAt(c, "adding", "idle")
  /\ lock' = None
  /\ UNCHANGED <<pool, queue, queue_size, shutdown, thread_count, start_size, wpc, task>>

\* Mutant: queue_size++ ahead of the malloc.
AddMallocFails_Counted(c) ==
  /\ "malloc" \in Faults
  /\ shutdown = 0
  /\ CallerAt(c, "adding", "idle")
  /\ queue_size' = queue_size + 1
  /\ UNCHANGED <<pool, lock, queue, shutdown, thread_count, start_size, wpc, task>>

\* return -1 without passing the label out: the mutex stays locked.
AddMallocFails(c) ==
  /\ "malloc" \in Faults
  /\ shutdown = 0
  /\ CallerAt(c, "adding", "idle")
  /\ UNCHANGED <<pool, lock, queue, queue_size, shutdown, thread_count, start_size, wpc, task>>

-----------------------------------------------------------------------------
(* threadpool_destroy *)

DestroyCall(c) ==
  /\ c \in Destroyers
  /\ pool = "open"
  /\ CallerAt(c, "idle", "destroy")
  /\ UNCHANGED <<pool, lock, queue, queue_size, shutdown, thread_count, start_size, wpc, task>>

\* Mutant: pthread_cond_signal instead.
CondBroadcast_WakesOne == CondSignal

CondBroadcast ==
  wpc' = [w \in Workers |-> IF wpc[w] = "waiting" THEN "woken" ELSE wpc[w]]

\* threadpool_init passes graceful = 0, other callers choose.
DestroyBegin(c) ==
  /\ shutdown = 0
  /\ CallerAt(c, "destroying", "join")
  /\ shutdown' \in IF pool = "starting" THEN {immediate_shutdown}
                   ELSE {immediate_shutdown, graceful_shutdown}
  /\ CondBroadcast
  /\ lock' = None
  /\ UNCHANGED <<pool, queue, queue_size, thread_count, start_size, task>>

\* break out of the do loop and return tp_already_shutdown: no unlock.
DestroyAgain(c) ==
  /\ shutdown # 0
  /\ CallerAt(c, "destroying", "idle")
  /\ UNCHANGED <<pool, lock, queue, queue_size, shutdown, thread_count, start_size, wpc, task>>

\* Mutant: the last thread is not joined.
DestroyJoin_AllButLast(c) ==
  /\ \A w \in 1 .. thread_count - 1 : wpc[w] = "done"
  /\ CallerAt(c, "join", "free")
  /\ UNCHANGED <<pool, lock, queue, queue_size, shutdown, thread_count, start_size, wpc, task>>

DestroyJoin(c) ==
  /\ \A w \in 1 .. thread_count : wpc[w] = "done"
  /\ CallerAt(c, "join", "free")
  /\ UNCHANGED <<pool, lock, queue, queue_size, shutdown, thread_count, start_size, wpc, task>>

\* pthread_mutex_destroy, pthread_cond_destroy, threadpool_free, which
\* refuses while start_size is positive; queue_size is left as it was.
DestroyFree(c) ==
  /\ CallerAt(c, "free", "gone")
  /\ pool' = IF pool = "starting" THEN "NULL"
             ELSE IF lock = None THEN "destroyed" ELSE "freed"
  /\ queue' = IF start_size > 0 THEN queue ELSE << >>
  /\ UNCHANGED <<lock, queue_size, shutdown, thread_count, start_size, wpc, task>>

-----------------------------------------------------------------------------
(* threadpool_worker *)

MustWait == queue_size = 0 /\ shutdown = 0

\* Mutant: a graceful shutdown leaves like an immediate one.
MustExit_Always == shutdown # 0
\* Mutant: an immediate shutdown drains like a graceful one.
MustExit_WhenDrained == shutdown # 0 /\ queue_size = 0

MustExit ==
  \/ shutdown = immediate_shutdown
  \/ shutdown = graceful_shutdown /\ queue_size = 0

WorkerLock(w) ==
  /\ wpc[w] \in {"loop", "woken"}
  /\ lock = None
  /\ lock' = w
  /\ wpc' = [wpc EXCEPT ![w] = "locked"]
  /\ UNCHANGED <<pool, queue, queue_size, shutdown, thread_count, start_size, task, cpc>>

\* pthread_cond_wait releases the mutex and blocks in one step.
WorkerWait(w) ==
  /\ wpc[w] = "locked"
  /\ MustWait
  /\ wpc' = [wpc EXCEPT ![w] = "waiting"]
  /\ lock' = None
  /\ UNCHANGED <<pool, queue, queue_size, shutdown, thread_count, start_size, task, cpc>>

\* POSIX lets pthread_cond_wait return without a signal.
SpuriousWakeup(w) ==
  /\ wpc[w] = "waiting"
  /\ wpc' = [wpc EXCEPT ![w] = "woken"]
  /\ UNCHANGED <<pool, lock, queue, queue_size, shutdown, thread_count, start_size, task, cpc>>

WorkerExit(w) ==
  /\ wpc[w] = "locked"
  /\ MustExit
  /\ start_size' = start_size - 1
  /\ wpc' = [wpc EXCEPT ![w] = "done"]
  /\ lock' = None
  /\ UNCHANGED <<pool, queue, queue_size, shutdown, thread_count, task, cpc>>

\* The first node is unlinked; a NULL head->next sends the worker round again.
WorkerTake(w) ==
  /\ wpc[w] = "locked"
  /\ ~MustWait
  /\ ~MustExit
  /\ lock' = None
  /\ IF queue = << >>
     THEN /\ wpc' = [wpc EXCEPT ![w] = "loop"]
          /\ UNCHANGED <<queue, queue_size, task>>
     ELSE /\ wpc' = [wpc EXCEPT ![w] = "run"]
          /\ task' = [task EXCEPT ![w] = Head(queue)]
          /\ queue' = Tail(queue)
          /\ queue_size' = queue_size - 1
  /\ UNCHANGED <<pool, shutdown, thread_count, start_size, cpc>>

\* (*(task->func))(task->arg) has returned; free(task).
WorkerFinish(w) ==
  /\ wpc[w] = "run"
  /\ wpc' = [wpc EXCEPT ![w] = "loop"]
  /\ task' = [task EXCEPT ![w] = None]
  /\ UNCHANGED <<pool, lock, queue, queue_size, shutdown, thread_count, start_size, cpc>>

-----------------------------------------------------------------------------
InitStep == InitAlloc \/ InitCreate \/ InitCount \/ InitDone
InitFault == InitAllocFails \/ InitCreateFails

\* What a caller does on its own once it is inside a call.
CallerStep(c) ==
  \/ LockPool(c) \/ LockRefused(c)
  \/ AddTask(c) \/ AddRefused(c) \/ AddMallocFails(c)
  \/ DestroyBegin(c) \/ DestroyAgain(c) \/ DestroyJoin(c) \/ DestroyFree(c)

WorkerStep(w) ==
  WorkerLock(w) \/ WorkerWait(w) \/ WorkerExit(w) \/ WorkerTake(w) \/ WorkerFinish(w)

\* The program is over when Main has returned from threadpool_destroy, and
\* the pool is out of use when threadpool_init has failed.
Finished ==
  /\ cpc[Main] = "gone"
  /\ UNCHANGED vars

Next ==
  \/ InitStep \/ InitFault
  \/ \E c \in Callers : AddCall(c) \/ DestroyCall(c) \/ CallerStep(c)
  \/ \E w \in Workers : WorkerStep(w) \/ SpuriousWakeup(w)
  \/ Finished

\* A runnable thread is eventually scheduled.  Nothing forces a caller to
\* call, a call to fail or a wakeup to be spurious; that WorkerFinish is
\* fair says that the functions run by the pool return.
Fairness ==
  /\ WF_vars(InitStep)
  /\ \A c \in Callers : WF_vars(CallerStep(c))
  /\ \A w \in Workers : WF_vars(WorkerStep(w))

Spec == Init /\ [][Next]_vars
FairSpec == Spec /\ Fairness

-----------------------------------------------------------------------------
(* Safety *)

\* No wakeup is lost: while some worker sleeps in pthread_cond_wait, every
\* task in the list has an awake worker on its way to the list, and the
\* shutdown flag is not up.  One signal per added task, sent under the lock,
\* has to be enough although other workers may overtake the woken one.
NoLostWakeup ==
  Waiting # {} => /\ shutdown = 0
                  /\ Len(queue) <= Cardinality(Seeking)

\* The counter that the workers test outside the list (queue_size) and the
\* list itself agree as long as the pool lives, so that the worker's
\* "task == NULL" branch is dead and no worker sleeps on a non-empty list.
CounterMatchesList ==
  pool \in {"starting", "open"} => queue_size = Len(queue)

\* A task node is in one place: linked once in the list or held by one
\* worker.  Otherwise a task would be run twice or freed while in use.
TaskOwnedOnce ==
  /\ \A i, j \in 1 .. Len(queue) : queue[i] = queue[j] => i = j
  /\ \A v, w \in Workers : task[v] = task[w] /\ task[v] # None => v = w
  /\ Queued \cap Running = {}

\* When threadpool_destroy goes on to destroy the mutex and to free, every
\* thread that was created has left the pool for good, start_size is 0, so
\* that threadpool_free does not refuse, and no other thread is destroying.
QuiescentAtFree ==
  \A c \in Callers : cpc[c] = "free" =>
    /\ start_size = 0
    /\ \A w \in Workers : wpc[w] \in {"none", "done"}
    /\ \A d \in Callers \ {c} : cpc[d] \notin {"join", "free"}

\* Graceful shutdown: no worker leaves while a task is in the list, hence
\* threadpool_free finds nothing to throw away.
GracefulDrains ==
  shutdown = graceful_shutdown /\ (\E w \in Workers : wpc[w] = "done") => queue = << >>

\* The pool keeps the promises of TaskPool: tasks are started at most once,
\* by an idle worker, never after an immediate shutdown, and are discarded
\* only by an immediate shutdown with all workers idle.
Abstract == INSTANCE TaskPool WITH
  pending <- Queued,
  running <- task,
  mode <- IF shutdown = 0 THEN "open"
          ELSE IF shutdown = immediate_shutdown THEN "immediate" ELSE "graceful"

ImplementsTaskPool == Abstract!Spec

-----------------------------------------------------------------------------
(* Liveness *)

NoMoreCalls == <>[][~\E c \in Callers : AddCall(c)]_vars
NoMoreSpuriousWakeups == <>[][~\E w \in Workers : SpuriousWakeup(w)]_vars

\* Once tasks stop arriving, the list drains: each task is taken by a worker
\* (or the pool is shut down).
QuietDrain ==
  NoMoreCalls /\ NoMoreSpuriousWakeups =>
    \A t \in Tasks : (t \in Queued) ~> (t \notin Queued \/ shutdown # 0)

\* "set the showdown flag of pool and wake up all thread": after the flag is
\* raised every worker leaves, so that threadpool_destroy can return.
ShutdownCompletes ==
  (shutdown # 0) ~> (\A w \in Workers : wpc[w] \in {"none", "done"})

\* The worker "waits until there is a task and then runs that task": with
\* tasks still arriving, each task in the list is taken in the end.
EveryTaskRuns ==
  NoMoreSpuriousWakeups =>
    \A t \in Tasks : (t \in Queued) ~> (t \notin Queued \/ shutdown # 0)
=============================================================================
