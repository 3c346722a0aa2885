-------------------------- MODULE ThreadPoolProof ---------------------------
(***************************************************************************)
(* Proofs about ThreadPool for every number of workers, callers and tasks  *)
(* and for every choice of failing calls.                                  *)
(*                                                                         *)
(* The inductive invariant IInv is built in layers.  The first (TypeOK,    *)
(* Phases, Counts) says which thread can be where; the second (the         *)
(* properties of ThreadPool) is inductive relative to the first.           *)
(***************************************************************************)
EXTENDS ThreadPool, FiniteSetTheorems, SequenceTheorems, TLAPS

-----------------------------------------------------------------------------
(* Lists *)

\* Linking a node at the front (threadpool_add): length, elements, positions.
LEMMA LinkFacts ==
  ASSUME NEW S, NEW q \in Seq(S), NEW t \in S
  PROVE  /\ <<t>> \o q \in Seq(S)
         /\ Len(<<t>> \o q) = Len(q) + 1
         /\ (<<t>> \o q)[1] = t
         /\ \A i \in 2 .. Len(q) + 1 : (<<t>> \o q)[i] = q[i - 1]
<1>1. <<t>> \in Seq(S) /\ Len(<<t>>) = 1 /\ <<t>>[1] = t
  OBVIOUS
<1>2. Len(q) \in Nat
  BY LenProperties
<1> QED
  BY <1>1, <1>2, ConcatProperties

\* Taking the first node (threadpool_worker).
LEMMA UnlinkFacts ==
  ASSUME NEW S, NEW q \in Seq(S), q # << >>
  PROVE  /\ Len(q) \in Nat \ {0}
         /\ Head(q) = q[1] /\ Head(q) \in S
         /\ Tail(q) \in Seq(S)
         /\ Len(Tail(q)) = Len(q) - 1
         /\ \A i \in 1 .. Len(q) - 1 : Tail(q)[i] = q[i + 1]
<1>1. Len(q) \in Nat \ {0}
  BY EmptySeq
<1> QED
  BY <1>1, HeadTailProperties

-----------------------------------------------------------------------------
(* The invariant *)

\* Threads created so far; between pthread_create and thread_count++ the
\* field lags one behind.
Created == IF cpc[Main] = "count" THEN thread_count + 1 ELSE thread_count

\* Where the threads can be while the pool goes through its life.
Phases ==
  /\ cpc[Main] = "init" => pool = "unbuilt"
  /\ cpc[Main] \in {"create", "count"} => pool = "starting"
  /\ cpc[Main] \in {"init", "create", "count"} => shutdown = 0
  /\ pool \notin {"open", "destroyed", "freed"} => \A c \in Callers \ {Main} : cpc[c] = "idle"
  /\ pool \in {"open", "destroyed", "freed"} => thread_count = thread_num
  /\ \A c \in Callers : cpc[c] \in {"destroy", "destroying", "join", "free"} =>
       pool \in {"starting", "open", "destroyed", "freed"}
  /\ \A c \in Callers : cpc[c] \in {"join", "free"} => shutdown # 0
  /\ \A c, d \in Callers : cpc[c] \in {"join", "free"} /\ cpc[d] \in {"join", "free"} => c = d
  /\ shutdown = graceful_shutdown => thread_count = thread_num
  /\ cpc[Main] = "count" => thread_count < thread_num

\* What the counters count, and what a worker's place says about the rest.
Live == {w \in 1 .. thread_count : wpc[w] # "done"}

Counts ==
  /\ \A w \in Workers : wpc[w] = "none" <=> w > Created
  /\ \A w \in Workers : wpc[w] = "done" => shutdown # 0
  /\ \A w \in Workers : task[w] # None => wpc[w] = "run"
  /\ start_size = Cardinality(Live)

\* The counter of the list: exact until the list is freed.
ListCounted ==
  /\ shutdown = 0 \/ pool \in {"starting", "open"} => queue_size = Len(queue)
  /\ queue_size = Len(queue) \/ queue = << >>

IInv == /\ TypeOK /\ Phases /\ Counts /\ ListCounted
        /\ TaskOwnedOnce /\ NoLostWakeup /\ QuiescentAtFree /\ GracefulDrains

-----------------------------------------------------------------------------
(* The invariant, layer by layer *)

\* Each step of threadpool.c keeps the types; InitCount needs Phases, which
\* bounds thread_count while a thread is created but not yet counted.
LEMMA TypeStep ==
  ASSUME TypeOK, Phases, [Next]_vars
  PROVE  TypeOK'
<1> USE PoolAssumption DEF TypeOK, Workers, PoolStates, WorkerStates, CallerStates,
                           immediate_shutdown, graceful_shutdown, CallerAt
<1>1. CASE InitStep
  <2>1. CASE InitAlloc \/ InitDone
    BY <2>1 DEF InitAlloc, InitDone
  <2>2. CASE InitCreate
    BY <2>2 DEF InitCreate
  <2>3. CASE InitCount
    BY <2>3 DEF InitCount, Phases
  <2> QED
    BY <1>1, <2>1, <2>2, <2>3 DEF InitStep
<1>2. CASE InitFault
  BY <1>2, ZenonT(30) DEF InitFault, InitAllocFails, InitCreateFails
<1>3. ASSUME NEW c \in Callers, AddCall(c) \/ DestroyCall(c)
      PROVE  TypeOK'
  BY <1>3 DEF AddCall, DestroyCall
<1>4. ASSUME NEW c \in Callers, CallerStep(c)
      PROVE  TypeOK'
  <2>1. CASE AddTask(c)
    <3>1. PICK t \in FreeNodes : LinkTask(t)
      BY <2>1 DEF AddTask
    <3>2. queue' \in Seq(Tasks)
      BY <3>1, LinkFacts DEF LinkTask, FreeNodes
    <3>3. wpc' \in [Workers -> WorkerStates]
      BY <2>1 DEF AddTask, CondSignal, Waiting
    <3> QED
      BY <2>1, <3>2, <3>3 DEF AddTask
  <2>2. CASE LockPool(c) \/ LockRefused(c) \/ AddRefused(c) \/ AddMallocFails(c)
    BY <2>2, ZenonT(30) DEF LockPool, LockRefused, AddRefused, AddMallocFails
  <2>3. CASE DestroyBegin(c)
    BY <2>3 DEF DestroyBegin, CondBroadcast
  <2>4. CASE DestroyAgain(c) \/ DestroyJoin(c)
    BY <2>4 DEF DestroyAgain, DestroyJoin
  <2>5. CASE DestroyFree(c)
    BY <2>5, EmptySeq DEF DestroyFree
  <2> QED
    BY <1>4, <2>1, <2>2, <2>3, <2>4, <2>5 DEF CallerStep
<1>5. ASSUME NEW w \in Workers, WorkerStep(w) \/ SpuriousWakeup(w)
      PROVE  TypeOK'
  <2>1. CASE WorkerTake(w)
    <3>1. CASE queue = << >>
      BY <2>1, <3>1 DEF WorkerTake
    <3>2. CASE queue # << >>
      <4>1. Head(queue) \in Tasks /\ Tail(queue) \in Seq(Tasks)
        BY <3>2, UnlinkFacts
      <4>2. task' \in [Workers -> Tasks \cup {None}]
        BY <2>1, <3>2, <4>1 DEF WorkerTake
      <4>3. queue' = Tail(queue) /\ queue_size' = queue_size - 1
        BY <2>1, <3>2 DEF WorkerTake
      <4>4. wpc' \in [Workers -> WorkerStates] /\ lock' = None
        BY <2>1, <3>2 DEF WorkerTake
      <4>5. UNCHANGED <<pool, shutdown, thread_count, start_size, cpc>>
        BY <2>1 DEF WorkerTake
      <4> QED
        BY <4>1, <4>2, <4>3, <4>4, <4>5
    <3> QED
      BY <3>1, <3>2
  <2>2. CASE WorkerLock(w) \/ WorkerWait(w) \/ SpuriousWakeup(w)
    BY <2>2, ZenonT(30) DEF WorkerLock, WorkerWait, SpuriousWakeup
  <2>3. CASE WorkerExit(w)
    BY <2>3 DEF WorkerExit
  <2>4. CASE WorkerFinish(w)
    BY <2>4 DEF WorkerFinish
  <2> QED
    BY <1>5, <2>1, <2>2, <2>3, <2>4 DEF WorkerStep
<1>6. CASE UNCHANGED vars
  BY <1>6 DEF vars
<1> QED
  BY <1>1, <1>2, <1>3, <1>4, <1>5, <1>6 DEF Next, Finished

\* Each step keeps Phases: only callers move the pool through its life.
LEMMA PhasesStep ==
  ASSUME TypeOK, Phases, [Next]_vars
  PROVE  Phases'
<1> USE PoolAssumption DEF TypeOK, PoolStates, CallerStates, CallerAt,
                           immediate_shutdown, graceful_shutdown
<1>1. CASE InitStep
  <2>1. CASE InitAlloc
    BY <2>1 DEF InitAlloc, Phases
  <2>2. CASE InitCreate
    BY <2>2 DEF InitCreate, Phases
  <2>3. CASE InitCount
    BY <2>3 DEF InitCount, Phases
  <2>4. CASE InitDone
    BY <2>4 DEF InitDone, Phases
  <2> QED
    BY <1>1, <2>1, <2>2, <2>3, <2>4 DEF InitStep
<1>2. CASE InitFault
  <2>1. CASE InitAllocFails
    <3>1. pool' = "NULL" \/ pool' = "crash"
      BY <2>1 DEF InitAllocFails
    <3>2. cpc[Main] = "init" /\ cpc' = [cpc EXCEPT ![Main] = "gone"] /\ UNCHANGED <<shutdown, thread_count>>
      BY <2>1 DEF InitAllocFails
    <3> QED
      BY <3>1, <3>2 DEF Phases
  <2>2. CASE InitCreateFails
    BY <2>2 DEF InitCreateFails, Phases
  <2> QED
    BY <1>2, <2>1, <2>2 DEF InitFault
<1>3. ASSUME NEW c \in Callers, AddCall(c) \/ DestroyCall(c)
      PROVE  Phases'
  <2>1. CASE AddCall(c)
    BY <2>1 DEF AddCall, Phases
  <2>2. CASE DestroyCall(c)
    BY <2>2 DEF DestroyCall, Phases
  <2> QED
    BY <1>3, <2>1, <2>2
<1>4. ASSUME NEW c \in Callers, CallerStep(c)
      PROVE  Phases'
  <2>1. CASE LockPool(c)
    BY <2>1 DEF LockPool, Phases
  <2>2. CASE LockRefused(c)
    BY <2>2 DEF LockRefused, Phases
  <2>3. CASE AddTask(c)
    BY <2>3 DEF AddTask, Phases
  <2>4. CASE AddRefused(c) \/ AddMallocFails(c) \/ DestroyAgain(c)
    BY <2>4 DEF AddRefused, AddMallocFails, DestroyAgain, Phases
  <2>5. CASE DestroyBegin(c)
    BY <2>5 DEF DestroyBegin, Phases
  <2>6. CASE DestroyJoin(c)
    BY <2>6 DEF DestroyJoin, Phases
  <2>7. CASE DestroyFree(c)
    <3>1. \/ pool = "starting" /\ pool' = "NULL"
          \/ pool \in {"open", "destroyed", "freed"} /\ pool' \in {"destroyed", "freed"}
      BY <2>7 DEF DestroyFree, Phases
    <3>2. cpc[c] = "free" /\ cpc' = [cpc EXCEPT ![c] = "gone"] /\ UNCHANGED <<shutdown, thread_count>>
      BY <2>7 DEF DestroyFree
    <3> QED
      BY <3>1, <3>2 DEF Phases
  <2> QED
    BY <1>4, <2>1, <2>2, <2>3, <2>4, <2>5, <2>6, <2>7 DEF CallerStep
<1>5. ASSUME NEW w \in Workers, WorkerStep(w) \/ SpuriousWakeup(w)
      PROVE  Phases'
  <2>1. UNCHANGED <<pool, shutdown, thread_count, cpc>>
    BY <1>5 DEF WorkerStep, WorkerLock, WorkerWait, SpuriousWakeup, WorkerExit,
                WorkerTake, WorkerFinish
  <2> QED
    BY <2>1 DEF Phases
<1>6. CASE UNCHANGED vars
  BY <1>6 DEF vars, Phases
<1> QED
  BY <1>1, <1>2, <1>3, <1>4, <1>5, <1>6 DEF Next, Finished

\* A signal or a broadcast only turns sleeping workers into woken ones.
LEMMA WakeFacts ==
  ASSUME TypeOK, CondSignal \/ CondBroadcast
  PROVE  \A w \in Workers : \/ wpc'[w] = wpc[w]
                            \/ wpc[w] = "waiting" /\ wpc'[w] = "woken"
BY DEF TypeOK, CondSignal, CondBroadcast, Waiting

\* Steps that neither create nor end a thread nor touch its task.
LEMMA CountsKept ==
  ASSUME TypeOK, Counts,
         UNCHANGED <<thread_count, start_size, task>>,
         shutdown # 0 => shutdown' # 0,
         cpc'[Main] = "count" <=> cpc[Main] = "count",
         \A w \in Workers : \/ wpc'[w] = wpc[w]
                            \/ /\ wpc[w] \notin {"none", "done", "run"}
                               /\ wpc'[w] \notin {"none", "done"}
  PROVE  Counts'
<1> USE PoolAssumption DEF TypeOK, Workers
<1>1. Created' = Created
  BY DEF Created
<1>2. Live' = Live
  BY DEF Live
<1> QED
  BY <1>1, <1>2 DEF Counts

\* The threads counted by start_size are finitely many.
LEMMA LiveFinite ==
  ASSUME TypeOK
  PROVE  IsFiniteSet(Live)
<1>1. thread_count \in Int
  BY PoolAssumption DEF TypeOK
<1>2. IsFiniteSet(1 .. thread_count)
  BY <1>1, FS_Interval
<1>3. Live \in SUBSET (1 .. thread_count)
  BY DEF Live
<1> QED
  BY <1>2, <1>3, FS_Subset

\* Each step keeps Counts: start_size is raised with thread_count and
\* lowered by a worker that leaves, and by nothing else.
LEMMA CountsStep ==
  ASSUME TypeOK, TypeOK', Phases, Phases', Counts, [Next]_vars
  PROVE  Counts'
<1> USE PoolAssumption DEF TypeOK, CallerAt
<1>1. CASE InitStep
  <2>1. CASE InitAlloc
    BY <2>1, CountsKept DEF InitAlloc
  <2>2. CASE InitCreate
    <3>1. /\ Created = thread_count /\ Created' = thread_count + 1
          /\ wpc' = [wpc EXCEPT ![thread_count + 1] = "loop"]
          /\ thread_count + 1 \in Workers
          /\ UNCHANGED <<shutdown, thread_count, start_size, task>>
      BY <2>2 DEF InitCreate, Created, Workers
    <3>2. wpc[thread_count + 1] = "none"
      BY <3>1 DEF Counts, Workers
    <3>3. Live' = Live
      BY <3>1 DEF Live, Workers
    <3> QED
      BY <3>1, <3>2, <3>3 DEF Counts, Workers
  <2>3. CASE InitCount
    <3>1. /\ Created = thread_count + 1 /\ Created' = thread_count + 1
          /\ thread_count' = thread_count + 1 /\ start_size' = start_size + 1
          /\ thread_count + 1 \in Workers
          /\ shutdown = 0
          /\ UNCHANGED <<shutdown, wpc, task>>
      BY <2>3 DEF InitCount, Created, Workers, Phases
    <3>2. wpc[thread_count + 1] # "done"
      BY <3>1 DEF Counts
    <3>3. Live' = Live \cup {thread_count + 1} /\ thread_count + 1 \notin Live
      BY <3>1, <3>2 DEF Live, Workers
    <3>4. IsFiniteSet(Live)
      BY LiveFinite
    <3>5. Cardinality(Live') = Cardinality(Live) + 1
      BY <3>3, <3>4, FS_AddElement
    <3> QED
      BY <3>1, <3>5 DEF Counts
  <2>4. CASE InitDone
    BY <2>4, CountsKept DEF InitDone
  <2> QED
    BY <1>1, <2>1, <2>2, <2>3, <2>4 DEF InitStep
<1>2. CASE InitFault
  BY <1>2, CountsKept DEF InitFault, InitAllocFails, InitCreateFails
<1>3. ASSUME NEW c \in Callers, AddCall(c) \/ DestroyCall(c)
      PROVE  Counts'
  BY <1>3, CountsKept DEF AddCall, DestroyCall
<1>4. ASSUME NEW c \in Callers, CallerStep(c)
      PROVE  Counts'
  <2>1. CASE LockPool(c) \/ LockRefused(c)
    BY <2>1, CountsKept DEF LockPool, LockRefused
  <2>2. CASE AddTask(c)
    BY <2>2, WakeFacts, CountsKept DEF AddTask
  <2>3. CASE AddRefused(c) \/ AddMallocFails(c) \/ DestroyAgain(c)
    BY <2>3, CountsKept DEF AddRefused, AddMallocFails, DestroyAgain
  <2>4. CASE DestroyBegin(c)
    BY <2>4, WakeFacts, CountsKept DEF DestroyBegin
  <2>5. CASE DestroyJoin(c) \/ DestroyFree(c)
    BY <2>5, CountsKept DEF DestroyJoin, DestroyFree
  <2> QED
    BY <1>4, <2>1, <2>2, <2>3, <2>4, <2>5 DEF CallerStep
<1>5. ASSUME NEW w \in Workers, WorkerStep(w) \/ SpuriousWakeup(w)
      PROVE  Counts'
  <2>1. CASE WorkerLock(w) \/ WorkerWait(w) \/ SpuriousWakeup(w)
    BY <2>1, CountsKept DEF WorkerLock, WorkerWait, SpuriousWakeup
  <2>2. CASE WorkerExit(w)
    <3>1. /\ wpc[w] = "locked" /\ wpc' = [wpc EXCEPT ![w] = "done"]
          /\ start_size' = start_size - 1 /\ shutdown # 0
          /\ UNCHANGED <<shutdown, thread_count, cpc, task>>
      BY <2>2 DEF WorkerExit, MustExit, immediate_shutdown, graceful_shutdown
    <3>2. Created = thread_count /\ Created' = thread_count
      BY <3>1 DEF Phases, Created
    <3>3. w \in Live /\ Live' = Live \ {w}
      BY <3>1, <3>2 DEF Counts, Live, Workers
    <3>4. IsFiniteSet(Live)
      BY LiveFinite
    <3>5. Cardinality(Live') = Cardinality(Live) - 1
      BY <3>3, <3>4, FS_RemoveElement
    <3> QED
      BY <3>1, <3>2, <3>5 DEF Counts
  <2>3. CASE WorkerTake(w)
    <3>1. CASE queue = << >>
      BY <2>3, <3>1, CountsKept DEF WorkerTake
    <3>2. CASE queue # << >>
      <4>1. /\ wpc[w] = "locked" /\ wpc' = [wpc EXCEPT ![w] = "run"]
            /\ task' = [task EXCEPT ![w] = Head(queue)]
            /\ UNCHANGED <<shutdown, thread_count, start_size, cpc>>
        BY <2>3, <3>2 DEF WorkerTake
      <4>2. Created' = Created /\ Live' = Live
        BY <4>1 DEF Created, Live, Workers
      <4> QED
        BY <4>1, <4>2 DEF Counts
    <3> QED
      BY <3>1, <3>2
  <2>4. CASE WorkerFinish(w)
    <3>1. /\ wpc[w] = "run" /\ wpc' = [wpc EXCEPT ![w] = "loop"]
          /\ task' = [task EXCEPT ![w] = None]
          /\ UNCHANGED <<shutdown, thread_count, start_size, cpc>>
      BY <2>4 DEF WorkerFinish
    <3>2. Created' = Created /\ Live' = Live
      BY <3>1 DEF Created, Live, Workers
    <3> QED
      BY <3>1, <3>2 DEF Counts
  <2> QED
    BY <1>5, <2>1, <2>2, <2>3, <2>4 DEF WorkerStep
<1>6. CASE UNCHANGED vars
  BY <1>6, CountsKept DEF vars
<1> QED
  BY <1>1, <1>2, <1>3, <1>4, <1>5, <1>6 DEF Next, Finished

-----------------------------------------------------------------------------
(* The list and its counter *)

\* What threadpool_add does to the list.
LEMMA AddFacts ==
  ASSUME TypeOK, NEW c \in Callers, AddTask(c)
  PROVE  \E t \in FreeNodes :
           /\ t \in Tasks
           /\ queue' = <<t>> \o queue
           /\ Len(queue') = Len(queue) + 1
           /\ Queued' = Queued \cup {t}
<1>1. PICK t \in FreeNodes : queue' = <<t>> \o queue
  BY DEF AddTask, LinkTask
<1>2. t \in Tasks /\ queue \in Seq(Tasks) /\ Len(queue) \in Nat
  BY LenProperties DEF TypeOK, FreeNodes
<1>3. /\ Len(queue') = Len(queue) + 1
      /\ queue'[1] = t
      /\ \A i \in 2 .. Len(queue) + 1 : queue'[i] = queue[i - 1]
  BY <1>1, <1>2, LinkFacts
<1>4. Queued' = Queued \cup {t}
  <2>1. ASSUME NEW x \in Queued' PROVE x \in Queued \cup {t}
    <3>1. PICK i \in 1 .. Len(queue) + 1 : x = queue'[i]
      BY <1>3 DEF Queued
    <3>2. CASE i = 1
      BY <1>3, <3>1, <3>2
    <3>3. CASE i # 1
      BY <1>2, <1>3, <3>1, <3>3 DEF Queued
    <3> QED
      BY <3>2, <3>3
  <2>2. ASSUME NEW x \in Queued PROVE x \in Queued'
    <3>1. PICK i \in 1 .. Len(queue) : x = queue[i]
      BY DEF Queued
    <3>2. i + 1 \in 1 .. Len(queue') /\ queue'[i + 1] = x
      BY <1>2, <1>3, <3>1
    <3> QED
      BY <3>2 DEF Queued
  <2>3. t \in Queued'
    BY <1>2, <1>3 DEF Queued
  <2> QED
    BY <2>1, <2>2, <2>3
<1> QED
  BY <1>1, <1>2, <1>3, <1>4

\* What a worker does to the list when it takes a task.
LEMMA TakeFacts ==
  ASSUME TypeOK, TaskOwnedOnce, NEW w \in Workers, WorkerTake(w), queue # << >>
  PROVE  /\ queue' = Tail(queue)
         /\ queue_size' = queue_size - 1
         /\ task' = [task EXCEPT ![w] = Head(queue)]
         /\ Len(queue) \in Nat \ {0}
         /\ Len(queue') = Len(queue) - 1
         /\ Head(queue) \in Queued /\ Head(queue) \in Tasks
         /\ Queued' = Queued \ {Head(queue)}
<1>1. queue' = Tail(queue) /\ queue_size' = queue_size - 1 /\ task' = [task EXCEPT ![w] = Head(queue)]
  BY DEF WorkerTake
<1>2. queue \in Seq(Tasks)
  BY DEF TypeOK
<1>3. /\ Len(queue) \in Nat \ {0}
      /\ Head(queue) = queue[1] /\ Head(queue) \in Tasks
      /\ Len(queue') = Len(queue) - 1
      /\ \A i \in 1 .. Len(queue) - 1 : queue'[i] = queue[i + 1]
  BY <1>1, <1>2, UnlinkFacts
<1>4. Head(queue) \in Queued
  BY <1>3 DEF Queued
<1>5. ASSUME NEW x \in Queued' PROVE x \in Queued \ {Head(queue)}
  <2>1. PICK i \in 1 .. Len(queue) - 1 : x = queue[i + 1]
    BY <1>3 DEF Queued
  <2>2. i + 1 \in 1 .. Len(queue) /\ i + 1 # 1 /\ 1 \in 1 .. Len(queue)
    BY <1>3
  <2> QED
    BY <1>3, <2>1, <2>2 DEF Queued, TaskOwnedOnce
<1>6. ASSUME NEW x \in Queued \ {Head(queue)} PROVE x \in Queued'
  <2>1. PICK i \in 1 .. Len(queue) : x = queue[i]
    BY DEF Queued
  <2>2. i # 1
    BY <1>3, <2>1
  <2>3. i - 1 \in 1 .. Len(queue') /\ queue'[i - 1] = x
    BY <1>3, <2>1, <2>2
  <2> QED
    BY <2>3 DEF Queued
<1> QED
  BY <1>1, <1>3, <1>4, <1>5, <1>6

\* All other steps leave the list and the workers' tasks alone.
LEMMA ListFrame ==
  ASSUME [Next]_vars
  PROVE  \/ \E c \in Callers : AddTask(c) \/ DestroyFree(c)
         \/ \E w \in Workers : WorkerTake(w) \/ WorkerFinish(w)
         \/ UNCHANGED <<queue, queue_size, task>>
<1>1. CASE InitStep \/ InitFault
  BY <1>1 DEF InitStep, InitFault, InitAlloc, InitCreate, InitCount, InitDone,
              InitAllocFails, InitCreateFails
<1>2. ASSUME NEW c \in Callers, AddCall(c) \/ DestroyCall(c)
      PROVE  UNCHANGED <<queue, queue_size, task>>
  BY <1>2 DEF AddCall, DestroyCall
<1>3. ASSUME NEW c \in Callers, CallerStep(c), ~AddTask(c), ~DestroyFree(c)
      PROVE  UNCHANGED <<queue, queue_size, task>>
  BY <1>3 DEF CallerStep, LockPool, LockRefused, AddRefused, AddMallocFails,
              DestroyBegin, DestroyAgain, DestroyJoin
<1>4. ASSUME NEW w \in Workers, WorkerStep(w) \/ SpuriousWakeup(w), ~WorkerTake(w), ~WorkerFinish(w)
      PROVE  UNCHANGED <<queue, queue_size, task>>
  BY <1>4 DEF WorkerStep, SpuriousWakeup, WorkerLock, WorkerWait, WorkerExit
<1>5. CASE UNCHANGED vars
  BY <1>5 DEF vars
<1> QED
  BY <1>1, <1>2, <1>3, <1>4, <1>5 DEF Next, Finished

\* Each step keeps queue_size in step with the list.
LEMMA ListCountedStep ==
  ASSUME TypeOK, Phases, ListCounted, TaskOwnedOnce, [Next]_vars
  PROVE  ListCounted'
<1>1. ASSUME NEW c \in Callers, AddTask(c)
      PROVE  ListCounted'
  <2>1. shutdown = 0 /\ UNCHANGED <<pool, shutdown>> /\ queue_size' = queue_size + 1
    BY <1>1 DEF AddTask
  <2>2. Len(queue') = Len(queue) + 1
    BY <1>1, AddFacts
  <2> QED
    BY <2>1, <2>2 DEF ListCounted
<1>2. ASSUME NEW c \in Callers, DestroyFree(c)
      PROVE  ListCounted'
  <2>1. /\ shutdown # 0 /\ shutdown' = shutdown /\ queue_size' = queue_size
        /\ pool' \notin {"starting", "open"}
        /\ queue' = queue \/ queue' = << >>
    BY <1>2 DEF DestroyFree, Phases, CallerAt
  <2> QED
    BY <2>1 DEF ListCounted
<1>3. ASSUME NEW w \in Workers, WorkerTake(w)
      PROVE  ListCounted'
  <2>1. UNCHANGED <<pool, shutdown>>
    BY <1>3 DEF WorkerTake
  <2>2. CASE queue = << >>
    BY <1>3, <2>1, <2>2 DEF WorkerTake, ListCounted
  <2>3. CASE queue # << >>
    <3>1. queue_size' = queue_size - 1 /\ Len(queue') = Len(queue) - 1
      BY <1>3, <2>3, TakeFacts
    <3> QED
      BY <2>1, <2>3, <3>1 DEF ListCounted
  <2> QED
    BY <2>2, <2>3
<1>4. CASE UNCHANGED <<queue, queue_size>>
  <2>1. CASE queue_size = Len(queue)
    BY <1>4, <2>1 DEF ListCounted
  <2>2. CASE queue_size # Len(queue)
    <3>1. shutdown # 0 /\ pool \notin {"starting", "open"} /\ queue = << >>
      BY <2>2 DEF ListCounted
    <3>2. shutdown' # 0 /\ pool' \notin {"starting", "open"}
      BY <3>1 DEF Next, vars, InitStep, InitFault, InitAlloc, InitCreate, InitCount, InitDone,
            InitAllocFails, InitCreateFails, AddCall, DestroyCall, CallerStep,
            LockPool, LockRefused, AddTask, AddRefused, AddMallocFails, DestroyBegin,
            DestroyAgain, DestroyJoin, DestroyFree, WorkerStep, SpuriousWakeup, WorkerLock,
            WorkerWait, WorkerExit, WorkerTake, WorkerFinish, Finished, CallerAt, Phases
    <3> QED
      BY <1>4, <3>1, <3>2 DEF ListCounted
  <2> QED
    BY <2>1, <2>2
<1>5. ASSUME NEW w \in Workers, WorkerFinish(w)
      PROVE  UNCHANGED <<queue, queue_size>>
  BY <1>5 DEF WorkerFinish
<1> QED
  BY <1>1, <1>2, <1>3, <1>4, <1>5, ListFrame

\* Each step keeps every task node in one place: threadpool_add links a
\* node that is free, a worker unlinks the node it takes.
LEMMA TaskOwnedOnceStep ==
  ASSUME TypeOK, TaskOwnedOnce, [Next]_vars
  PROVE  TaskOwnedOnce'
<1> USE PoolAssumption
<1>1. ASSUME NEW c \in Callers, AddTask(c)
      PROVE  TaskOwnedOnce'
  <2>1. PICK t \in FreeNodes : /\ t \in Tasks /\ queue' = <<t>> \o queue
                              /\ Len(queue') = Len(queue) + 1
                              /\ Queued' = Queued \cup {t}
    BY <1>1, AddFacts
  <2>2. task' = task /\ Running' = Running
    BY <1>1 DEF AddTask, Running
  <2>3. t \notin Queued /\ t \notin Running
    BY DEF FreeNodes
  <2>4. queue \in Seq(Tasks) /\ Len(queue) \in Nat
    BY LenProperties DEF TypeOK
  <2>5. queue'[1] = t /\ \A i \in 2 .. Len(queue) + 1 : queue'[i] = queue[i - 1]
    BY <2>1, <2>4, LinkFacts
  <2>6. ASSUME NEW i \in 1 .. Len(queue'), NEW j \in 1 .. Len(queue'), queue'[i] = queue'[j]
        PROVE  i = j
    <3>1. CASE i = 1 /\ j = 1
      BY <3>1
    <3>2. CASE i = 1 /\ j # 1
      <4>1. j - 1 \in 1 .. Len(queue) /\ queue[j - 1] = t
        BY <2>1, <2>4, <2>5, <2>6, <3>2
      <4> QED
        BY <2>3, <4>1 DEF Queued
    <3>3. CASE i # 1 /\ j = 1
      <4>1. i - 1 \in 1 .. Len(queue) /\ queue[i - 1] = t
        BY <2>1, <2>4, <2>5, <2>6, <3>3
      <4> QED
        BY <2>3, <4>1 DEF Queued
    <3>4. CASE i # 1 /\ j # 1
      <4>1. /\ i - 1 \in 1 .. Len(queue) /\ j - 1 \in 1 .. Len(queue)
            /\ queue[i - 1] = queue[j - 1]
        BY <2>1, <2>4, <2>5, <2>6, <3>4
      <4>2. i - 1 = j - 1
        BY <4>1 DEF TaskOwnedOnce
      <4> QED
        BY <2>1, <2>4, <4>2
    <3> QED
      BY <3>1, <3>2, <3>3, <3>4
  <2> QED
    BY <2>1, <2>2, <2>3, <2>6 DEF TaskOwnedOnce
<1>2. ASSUME NEW c \in Callers, DestroyFree(c)
      PROVE  TaskOwnedOnce'
  <2>1. task' = task /\ Running' = Running
    BY <1>2 DEF DestroyFree, Running
  <2>2. CASE queue' = queue
    BY <2>1, <2>2 DEF TaskOwnedOnce, Queued
  <2>3. CASE queue' = << >>
    <3>1. Len(queue') = 0 /\ 1 .. Len(queue') = {}
      BY <2>3
    <3> QED
      BY <2>1, <3>1 DEF TaskOwnedOnce, Queued
  <2> QED
    BY <1>2, <2>2, <2>3 DEF DestroyFree
<1>3. ASSUME NEW w \in Workers, WorkerTake(w)
      PROVE  TaskOwnedOnce'
  <2>1. CASE queue = << >>
    <3>1. UNCHANGED <<queue, task>>
      BY <1>3, <2>1 DEF WorkerTake
    <3> QED
      BY <3>1 DEF TaskOwnedOnce, Queued, Running
  <2>2. CASE queue # << >>
    <3>1. /\ task' = [task EXCEPT ![w] = Head(queue)]
          /\ queue' = Tail(queue)
          /\ Len(queue) \in Nat \ {0}
          /\ Len(queue') = Len(queue) - 1
          /\ Head(queue) \in Queued /\ Head(queue) \in Tasks
          /\ Queued' = Queued \ {Head(queue)}
      BY <1>3, <2>2, TakeFacts
    <3>2. \A i \in 1 .. Len(queue) - 1 : queue'[i] = queue[i + 1]
      BY <2>2, <3>1, UnlinkFacts DEF TypeOK
    <3>3. ASSUME NEW i \in 1 .. Len(queue'), NEW j \in 1 .. Len(queue'), queue'[i] = queue'[j]
          PROVE  i = j
      <4>1. /\ i + 1 \in 1 .. Len(queue) /\ j + 1 \in 1 .. Len(queue)
            /\ queue[i + 1] = queue[j + 1]
        BY <3>1, <3>2, <3>3
      <4>2. i + 1 = j + 1
        BY <4>1 DEF TaskOwnedOnce
      <4> QED
        BY <3>1, <4>2
    <3>4. \A v \in Workers : v # w => task'[v] = task[v]
      BY <3>1 DEF TypeOK
    <3>5. task'[w] = Head(queue)
      BY <3>1 DEF TypeOK
    <3>6. Head(queue) # None
      BY <3>1
    <3>7. \A v \in Workers : task[v] # Head(queue)
      BY <3>1, <3>6 DEF TaskOwnedOnce, Running
    <3>8. \A u, v \in Workers : task'[u] = task'[v] /\ task'[u] # None => u = v
      BY <3>4, <3>5, <3>7 DEF TaskOwnedOnce
    <3>9. Running' \subseteq Running \cup {Head(queue)}
      BY <3>4, <3>5 DEF Running
    <3> QED
      BY <3>1, <3>3, <3>8, <3>9 DEF TaskOwnedOnce
  <2> QED
    BY <2>1, <2>2
<1>4. ASSUME NEW w \in Workers, WorkerFinish(w)
      PROVE  TaskOwnedOnce'
  <2>1. task' = [task EXCEPT ![w] = None] /\ queue' = queue
    BY <1>4 DEF WorkerFinish
  <2>2. \A v \in Workers : task'[v] = IF v = w THEN None ELSE task[v]
    BY <2>1 DEF TypeOK
  <2>3. Running' \subseteq Running
    BY <2>2 DEF Running
  <2> QED
    BY <2>1, <2>2, <2>3 DEF TaskOwnedOnce, Queued
<1>5. CASE UNCHANGED <<queue, task>>
  BY <1>5 DEF TaskOwnedOnce, Queued, Running
<1> QED
  BY <1>1, <1>2, <1>3, <1>4, <1>5, ListFrame

-----------------------------------------------------------------------------
(* Shutdown *)

\* Each step keeps GracefulDrains: under a graceful shutdown a worker leaves
\* on queue_size = 0, which ListCounted turns into an empty list.
LEMMA GracefulStep ==
  ASSUME TypeOK, Counts, ListCounted, GracefulDrains, [Next]_vars
  PROVE  GracefulDrains'
<1> USE PoolAssumption DEF TypeOK, GracefulDrains
<1>1. CASE InitStep \/ InitFault
  BY <1>1 DEF InitStep, InitFault, InitAlloc, InitCreate, InitCount, InitDone,
              InitAllocFails, InitCreateFails, Workers
<1>2. ASSUME NEW c \in Callers, AddCall(c) \/ DestroyCall(c)
      PROVE  GracefulDrains'
  BY <1>2 DEF AddCall, DestroyCall
<1>3. ASSUME NEW c \in Callers, CallerStep(c)
      PROVE  GracefulDrains'
  <2>1. CASE AddTask(c)
    BY <2>1 DEF AddTask, graceful_shutdown
  <2>2. CASE DestroyBegin(c)
    <3>1. \A w \in Workers : wpc'[w] # "done"
      BY <2>2, WakeFacts DEF DestroyBegin, Counts
    <3> QED
      BY <3>1
  <2>3. CASE DestroyFree(c)
    BY <2>3 DEF DestroyFree
  <2>4. CASE UNCHANGED <<shutdown, wpc, queue>>
    BY <2>4
  <2> QED
    BY <1>3, <2>1, <2>2, <2>3, <2>4 DEF CallerStep, LockPool, LockRefused, AddRefused,
       AddMallocFails, DestroyAgain, DestroyJoin
<1>4. ASSUME NEW w \in Workers, WorkerStep(w) \/ SpuriousWakeup(w)
      PROVE  GracefulDrains'
  <2>1. CASE WorkerExit(w)
    <3>1. CASE shutdown = graceful_shutdown
      <4>1. queue_size = 0 /\ queue' = queue
        BY <2>1, <3>1 DEF WorkerExit, MustExit, immediate_shutdown, graceful_shutdown
      <4>2. queue = << >>
        BY <4>1, EmptySeq DEF ListCounted
      <4> QED
        BY <4>1, <4>2
    <3>2. CASE shutdown # graceful_shutdown
      BY <2>1, <3>2 DEF WorkerExit
    <3> QED
      BY <3>1, <3>2
  <2>2. CASE WorkerTake(w)
    <3>1. CASE queue = << >>
      BY <2>2, <3>1 DEF WorkerTake
    <3>2. CASE queue # << >>
      <4>1. shutdown' = shutdown /\ wpc' = [wpc EXCEPT ![w] = "run"]
        BY <2>2, <3>2 DEF WorkerTake
      <4> QED
        BY <3>2, <4>1
    <3> QED
      BY <3>1, <3>2
  <2>3. CASE WorkerLock(w) \/ WorkerWait(w) \/ SpuriousWakeup(w) \/ WorkerFinish(w)
    BY <2>3 DEF WorkerLock, WorkerWait, SpuriousWakeup, WorkerFinish
  <2> QED
    BY <1>4, <2>1, <2>2, <2>3 DEF WorkerStep
<1>5. CASE UNCHANGED vars
  BY <1>5 DEF vars
<1> QED
  BY <1>1, <1>2, <1>3, <1>4, <1>5 DEF Next, Finished

\* QuiescentAtFree needs no induction of its own beyond Phases and Counts,
\* except for the workers: once all are gone, none comes back.
LEMMA QuiescentStep ==
  ASSUME TypeOK, Phases, Phases', Counts, Counts', TypeOK', QuiescentAtFree, [Next]_vars
  PROVE  QuiescentAtFree'
<1> USE PoolAssumption DEF TypeOK
<1> SUFFICES ASSUME NEW c \in Callers, cpc'[c] = "free"
             PROVE  \A w \in Workers : wpc'[w] \in {"none", "done"}
  <2>1. ASSUME \A w \in Workers : wpc'[w] \in {"none", "done"}, NEW c \in Callers, cpc'[c] = "free"
        PROVE  start_size' = 0
    <3>1. shutdown' # 0
      BY <2>1 DEF Phases
    <3>2. cpc'[Main] # "count"
      BY <3>1 DEF Phases
    <3>3. Created' = thread_count'
      BY <3>2 DEF Created
    <3>4. \A w \in 1 .. thread_count' : w \in Workers /\ wpc'[w] # "none"
      BY <3>3 DEF Counts, Workers
    <3>5. Live' = {}
      BY <2>1, <3>4 DEF Live
    <3> QED
      BY <3>5, FS_EmptySet DEF Counts
  <2> QED
    BY <2>1 DEF QuiescentAtFree, Phases
<1>1. CASE cpc[c] = "free"
  <2>1. \A w \in Workers : wpc[w] \in {"none", "done"}
    BY <1>1 DEF QuiescentAtFree
  <2>2. shutdown # 0 /\ cpc[Main] \notin {"create", "count"}
    BY <1>1 DEF Phases
  <2>3. \A w \in Workers : wpc'[w] = wpc[w]
    <3>1. ASSUME NEW d \in Callers, AddTask(d)
          PROVE  FALSE
      BY <2>2, <3>1 DEF AddTask
    <3>2. ASSUME NEW d \in Callers, DestroyBegin(d)
          PROVE  FALSE
      BY <2>2, <3>2 DEF DestroyBegin
    <3>3. ~InitCreate
      BY <2>2 DEF InitCreate, CallerAt
    <3>4. ASSUME NEW v \in Workers, WorkerStep(v) \/ SpuriousWakeup(v)
          PROVE  FALSE
      BY <2>1, <3>4 DEF WorkerStep, SpuriousWakeup, WorkerLock, WorkerWait, WorkerExit,
                        WorkerTake, WorkerFinish
    <3>5. wpc' = wpc
      BY <3>1, <3>2, <3>3, <3>4 DEF Next, vars, InitStep, InitFault, InitAlloc, InitCount,
         InitDone, InitAllocFails, InitCreateFails, AddCall, DestroyCall, CallerStep,
         LockPool, LockRefused, AddRefused, AddMallocFails, DestroyAgain, DestroyJoin,
         DestroyFree, Finished
    <3> QED
      BY <3>5
  <2> QED
    BY <2>1, <2>3
<1>2. CASE cpc[c] # "free"
  <2>1. DestroyJoin(c)
    BY <1>2 DEF Next, vars, InitStep, InitFault, InitAlloc, InitCreate, InitCount, InitDone,
       InitAllocFails, InitCreateFails, AddCall, DestroyCall, CallerStep,
       LockPool, LockRefused, AddTask, AddRefused, AddMallocFails, DestroyBegin,
       DestroyAgain, DestroyJoin, DestroyFree, WorkerStep, SpuriousWakeup, WorkerLock,
       WorkerWait, WorkerExit, WorkerTake, WorkerFinish, Finished, CallerAt
  <2>2. wpc' = wpc /\ cpc[c] = "join" /\ \A w \in 1 .. thread_count : wpc[w] = "done"
    BY <2>1 DEF DestroyJoin, CallerAt
  <2>3. Created = thread_count
    BY <2>2 DEF Phases, Created
  <2> QED
    BY <2>2, <2>3 DEF Counts, Workers
<1> QED
  BY <1>1, <1>2

-----------------------------------------------------------------------------
(* Wakeups *)

\* The workers on their way to the list can be counted.
LEMMA SeekingFinite ==
  /\ IsFiniteSet(Seeking) /\ Cardinality(Seeking) \in Nat
  /\ IsFiniteSet(Seeking') /\ Cardinality(Seeking') \in Nat
<1>1. IsFiniteSet(Workers)
  BY PoolAssumption, FS_Interval DEF Workers
<1>2. Seeking \in SUBSET Workers /\ Seeking' \in SUBSET Workers
  BY DEF Seeking
<1>3. IsFiniteSet(Seeking) /\ IsFiniteSet(Seeking')
  BY <1>1, <1>2, FS_Subset
<1> QED
  BY <1>3, FS_CardinalityType

\* A step that puts nobody to sleep and takes nobody away from the list.
LEMMA WakeupKept ==
  ASSUME TypeOK, NoLostWakeup,
         Waiting' \subseteq Waiting, Seeking \subseteq Seeking',
         UNCHANGED <<queue, shutdown>>
  PROVE  NoLostWakeup'
<1>1. Cardinality(Seeking) <= Cardinality(Seeking')
  BY SeekingFinite, FS_Subset
<1>2. Len(queue) \in Nat
  BY LenProperties DEF TypeOK
<1> QED
  BY <1>1, <1>2, SeekingFinite DEF NoLostWakeup

\* Each step keeps NoLostWakeup: a task added while a worker sleeps wakes
\* one, a task taken takes one worker away, and a worker goes to sleep only
\* when the list is empty.
LEMMA NoLostWakeupStep ==
  ASSUME TypeOK, TypeOK', Phases, Counts, ListCounted, TaskOwnedOnce, NoLostWakeup, [Next]_vars
  PROVE  NoLostWakeup'
<1> USE PoolAssumption DEF TypeOK
<1>1. CASE InitStep \/ InitFault
  <2>1. Waiting' \subseteq Waiting /\ Seeking \subseteq Seeking' /\ UNCHANGED <<queue, shutdown>>
    BY <1>1 DEF InitStep, InitFault, InitAlloc, InitCreate, InitCount, InitDone,
                InitAllocFails, InitCreateFails, Waiting, Seeking, Workers
  <2> QED
    BY <2>1, WakeupKept
<1>2. ASSUME NEW c \in Callers, CallerStep(c)
      PROVE  NoLostWakeup'
  <2>1. CASE AddTask(c)
    <3>1. CondSignal /\ shutdown = 0 /\ shutdown' = shutdown
      BY <2>1 DEF AddTask
    <3>2. Len(queue') = Len(queue) + 1 /\ Len(queue) \in Nat
      BY <2>1, AddFacts, LenProperties
    <3>3. CASE Waiting = {}
      BY <3>1, <3>3 DEF CondSignal, NoLostWakeup, Waiting
    <3>4. CASE Waiting # {}
      <4>1. PICK w \in Waiting : wpc' = [wpc EXCEPT ![w] = "woken"]
        BY <3>1, <3>4 DEF CondSignal
      <4>2. w \notin Seeking /\ Seeking' = Seeking \cup {w}
        BY <4>1 DEF Waiting, Seeking
      <4>3. Cardinality(Seeking') = Cardinality(Seeking) + 1
        BY <4>2, SeekingFinite, FS_AddElement
      <4> QED
        BY <3>1, <3>2, <3>4, <4>3, SeekingFinite DEF NoLostWakeup
    <3> QED
      BY <3>3, <3>4
  <2>2. CASE DestroyBegin(c)
    BY <2>2 DEF DestroyBegin, CondBroadcast, NoLostWakeup, Waiting
  <2>3. CASE DestroyFree(c)
    <3>1. shutdown # 0
      BY <2>3 DEF DestroyFree, CallerAt, Phases
    <3> QED
      BY <2>3, <3>1 DEF DestroyFree, NoLostWakeup, Waiting
  <2>4. CASE UNCHANGED <<shutdown, wpc, queue>>
    BY <2>4, WakeupKept DEF Waiting, Seeking
  <2> QED
    BY <1>2, <2>1, <2>2, <2>3, <2>4 DEF CallerStep, LockPool, LockRefused, AddRefused,
       AddMallocFails, DestroyAgain, DestroyJoin
<1>3. ASSUME NEW w \in Workers, WorkerStep(w) \/ SpuriousWakeup(w)
      PROVE  NoLostWakeup'
  <2>1. CASE WorkerLock(w) \/ SpuriousWakeup(w) \/ WorkerFinish(w)
    <3>1. Waiting' \subseteq Waiting /\ Seeking \subseteq Seeking' /\ UNCHANGED <<queue, shutdown>>
      BY <2>1 DEF WorkerLock, SpuriousWakeup, WorkerFinish, Waiting, Seeking
    <3> QED
      BY <3>1, WakeupKept
  <2>2. CASE WorkerWait(w)
    <3>1. shutdown = 0 /\ queue_size = 0 /\ UNCHANGED <<shutdown, queue>>
      BY <2>2 DEF WorkerWait, MustWait
    <3>2. Len(queue') = 0
      BY <3>1 DEF ListCounted
    <3> QED
      BY <3>1, <3>2, SeekingFinite DEF NoLostWakeup
  <2>3. CASE WorkerExit(w)
    <3>1. shutdown # 0
      BY <2>3 DEF WorkerExit, MustExit, immediate_shutdown, graceful_shutdown
    <3> QED
      BY <2>3, <3>1 DEF WorkerExit, NoLostWakeup, Waiting
  <2>4. CASE WorkerTake(w)
    <3>1. CASE queue = << >>
      <4>1. Waiting' \subseteq Waiting /\ Seeking \subseteq Seeking' /\ UNCHANGED <<queue, shutdown>>
        BY <2>4, <3>1 DEF WorkerTake, Waiting, Seeking
      <4> QED
        BY <4>1, WakeupKept
    <3>2. CASE queue # << >>
      <4>1. /\ wpc[w] = "locked" /\ wpc' = [wpc EXCEPT ![w] = "run"]
            /\ shutdown' = shutdown
        BY <2>4, <3>2 DEF WorkerTake
      <4>2. Len(queue') = Len(queue) - 1 /\ Len(queue) \in Nat
        BY <2>4, <3>2, TakeFacts
      <4>3. w \in Seeking /\ Seeking' = Seeking \ {w} /\ Waiting' = Waiting
        BY <4>1 DEF Seeking, Waiting
      <4>4. Cardinality(Seeking') = Cardinality(Seeking) - 1
        BY <4>3, SeekingFinite, FS_RemoveElement
      <4> QED
        BY <4>1, <4>2, <4>3, <4>4, SeekingFinite DEF NoLostWakeup
    <3> QED
      BY <3>1, <3>2
  <2> QED
    BY <1>3, <2>1, <2>2, <2>3, <2>4 DEF WorkerStep
<1>4. CASE UNCHANGED <<shutdown, wpc, queue>>
  BY <1>4, WakeupKept DEF Waiting, Seeking
<1> QED
  BY <1>1, <1>2, <1>3, <1>4 DEF Next, Finished, AddCall, DestroyCall, vars

-----------------------------------------------------------------------------
(* The theorems *)

\* The invariant holds before threadpool_init.
LEMMA InitIInv ==
  ASSUME Init
  PROVE  IInv
<1> USE PoolAssumption DEF Init
<1>1. TypeOK
  BY EmptySeq DEF TypeOK, Workers, PoolStates, WorkerStates, CallerStates
<1>2. Phases
  BY DEF Phases, graceful_shutdown
<1>3. Live = {}
  BY DEF Live
<1>4. Counts
  BY <1>3, FS_EmptySet DEF Counts, Created, Workers
<1>5. Len(queue) = 0 /\ 1 .. Len(queue) = {}
  OBVIOUS
<1>6. ListCounted /\ TaskOwnedOnce
  BY <1>5 DEF ListCounted, TaskOwnedOnce, Queued
<1>7. NoLostWakeup /\ QuiescentAtFree /\ GracefulDrains
  BY DEF NoLostWakeup, QuiescentAtFree, GracefulDrains, Waiting
<1> QED
  BY <1>1, <1>2, <1>4, <1>6, <1>7 DEF IInv

\* The invariant is kept by every step, layer by layer.
LEMMA StepIInv ==
  ASSUME IInv, [Next]_vars
  PROVE  IInv'
<1>1. TypeOK' /\ Phases'
  BY TypeStep, PhasesStep DEF IInv
<1>2. Counts'
  BY <1>1, CountsStep DEF IInv
<1>3. ListCounted' /\ TaskOwnedOnce'
  BY ListCountedStep, TaskOwnedOnceStep DEF IInv
<1>4. NoLostWakeup'
  BY <1>1, NoLostWakeupStep DEF IInv
<1>5. QuiescentAtFree' /\ GracefulDrains'
  BY <1>1, <1>2, QuiescentStep, GracefulStep DEF IInv
<1> QED
  BY <1>1, <1>2, <1>3, <1>4, <1>5 DEF IInv

\* The invariant holds in every reachable state.
LEMMA Invariance == Spec => []IInv
<1>1. Init => IInv
  BY InitIInv
<1>2. IInv /\ [Next]_vars => IInv'
  BY StepIInv
<1> QED
  BY <1>1, <1>2, PTL DEF Spec

\* Every variable keeps its type in every reachable state.
THEOREM TypeCorrect == Spec => []TypeOK
BY Invariance, PTL DEF IInv

\* The one signal that threadpool_add sends per task under the lock is
\* enough: a sleeping worker implies an awake one for each task in the list.
THEOREM WakeupsAreNotLost == Spec => []NoLostWakeup
BY Invariance, PTL DEF IInv

\* queue_size counts the list for as long as the pool is in use, although
\* threadpool_free empties the list without resetting it.
THEOREM CounterIsExact == Spec => []CounterMatchesList
<1>1. IInv => CounterMatchesList
  BY DEF IInv, ListCounted, CounterMatchesList
<1> QED
  BY <1>1, Invariance, PTL

\* No task node is linked twice, run by two workers, or run while linked.
THEOREM TasksHaveOneOwner == Spec => []TaskOwnedOnce
BY Invariance, PTL DEF IInv

\* threadpool_destroy frees the pool only when nobody is left in it.
THEOREM FreedWhenQuiescent == Spec => []QuiescentAtFree
BY Invariance, PTL DEF IInv

\* A graceful threadpool_destroy throws no task away.
THEOREM GracefulShutdownDrains == Spec => []GracefulDrains
BY Invariance, PTL DEF IInv

-----------------------------------------------------------------------------
(* threadpool.c implements TaskPool *)

\* An unbuilt pool is an open TaskPool without tasks.
LEMMA InitRefines == Init => Abstract!Init
BY DEF Init, Abstract!Init, Queued

\* AddTask is Submit, WorkerTake is Start, WorkerFinish is Finish,
\* DestroyBegin is Close, an immediate DestroyFree is Discard, and all other
\* steps leave the abstract state alone.
LEMMA StepRefines ==
  ASSUME IInv, [Next]_vars
  PROVE  [Abstract!Next]_(Abstract!vars)
<1> USE PoolAssumption DEF Abstract!vars, immediate_shutdown, graceful_shutdown
<1>1. ASSUME NEW c \in Callers, AddTask(c)
      PROVE  Abstract!Next
  <2>1. PICK t \in FreeNodes : t \in Tasks /\ Queued' = Queued \cup {t}
    BY <1>1, AddFacts DEF IInv
  <2>2. shutdown = 0 /\ UNCHANGED <<shutdown, task>>
    BY <1>1 DEF AddTask
  <2>3. t \notin Queued /\ \A w \in Workers : task[w] # t
    BY <2>1 DEF FreeNodes, Running
  <2>4. Abstract!Submit(t)
    BY <2>1, <2>2, <2>3 DEF Abstract!Submit
  <2> QED
    BY <2>1, <2>4 DEF Abstract!Next
<1>2. ASSUME NEW c \in Callers, DestroyBegin(c)
      PROVE  Abstract!Next
  <2>1. /\ shutdown = 0 /\ shutdown' \in {1, 2}
        /\ UNCHANGED <<task, queue>> /\ Queued' = Queued
    BY <1>2 DEF DestroyBegin, Queued
  <2>2. Abstract!Close("graceful") \/ Abstract!Close("immediate")
    BY <2>1 DEF Abstract!Close
  <2> QED
    BY <2>2 DEF Abstract!Next
<1>3. ASSUME NEW c \in Callers, DestroyFree(c)
      PROVE  [Abstract!Next]_(Abstract!vars)
  <2>1. /\ cpc[c] = "free"
        /\ UNCHANGED <<task, shutdown>>
        /\ queue' = queue \/ queue' = << >>
    BY <1>3 DEF DestroyFree, CallerAt
  <2>2. \A w \in Workers : wpc[w] \in {"none", "done"}
    BY <2>1 DEF IInv, QuiescentAtFree
  <2>3. \A w \in Workers : task[w] = None
    BY <2>2 DEF IInv, Counts
  <2>4. shutdown \in {1, 2}
    BY <2>1 DEF IInv, TypeOK, Phases
  <2>5. CASE queue' = queue
    BY <2>1, <2>5 DEF Queued
  <2>6. CASE queue' = << >> /\ shutdown = 1
    <3>1. Queued' = {}
      BY <2>6 DEF Queued
    <3>2. Abstract!Discard
      BY <2>1, <2>3, <2>6, <3>1 DEF Abstract!Discard, Abstract!Busy
    <3> QED
      BY <3>2 DEF Abstract!Next
  <2>7. CASE queue' = << >> /\ shutdown = 2
    <3>1. thread_count = thread_num /\ cpc[Main] # "count"
      BY <2>7 DEF IInv, Phases
    <3>2. 1 \in Workers /\ wpc[1] # "none"
      BY <3>1 DEF IInv, Counts, Created, Workers
    <3>3. wpc[1] = "done"
      BY <2>2, <3>2
    <3>4. queue = << >>
      BY <2>7, <3>2, <3>3 DEF IInv, GracefulDrains
    <3> QED
      BY <2>1, <2>7, <3>4 DEF Queued
  <2> QED
    BY <2>1, <2>4, <2>5, <2>6, <2>7
<1>4. ASSUME NEW w \in Workers, WorkerTake(w)
      PROVE  [Abstract!Next]_(Abstract!vars)
  <2>1. CASE queue = << >>
    BY <1>4, <2>1 DEF WorkerTake, Queued
  <2>2. CASE queue # << >>
    <3>1. /\ task' = [task EXCEPT ![w] = Head(queue)]
          /\ Head(queue) \in Queued /\ Head(queue) \in Tasks
          /\ Queued' = Queued \ {Head(queue)}
      BY <1>4, <2>2, TakeFacts DEF IInv
    <3>2. wpc[w] = "locked" /\ shutdown # 1 /\ shutdown' = shutdown
      BY <1>4 DEF WorkerTake, MustExit
    <3>3. task[w] = None
      BY <3>2 DEF IInv, Counts
    <3>4. Abstract!Start(w, Head(queue))
      BY <3>1, <3>2, <3>3 DEF Abstract!Start
    <3> QED
      BY <3>1, <3>4 DEF Abstract!Next
  <2> QED
    BY <2>1, <2>2
<1>5. ASSUME NEW w \in Workers, WorkerFinish(w)
      PROVE  [Abstract!Next]_(Abstract!vars)
  <2>1. task' = [task EXCEPT ![w] = None] /\ UNCHANGED <<queue, shutdown>> /\ Queued' = Queued
    BY <1>5 DEF WorkerFinish, Queued
  <2>2. CASE task[w] = None
    <3>1. task' = task
      BY <2>1, <2>2 DEF IInv, TypeOK
    <3> QED
      BY <2>1, <3>1
  <2>3. CASE task[w] # None
    <3>1. Abstract!Finish(w)
      BY <2>1, <2>3 DEF Abstract!Finish
    <3> QED
      BY <3>1 DEF Abstract!Next
  <2> QED
    BY <2>2, <2>3
<1>6. CASE UNCHANGED <<queue, task, shutdown>>
  BY <1>6 DEF Queued
<1>7. \/ \E c \in Callers : AddTask(c) \/ DestroyFree(c) \/ DestroyBegin(c)
      \/ \E w \in Workers : WorkerTake(w) \/ WorkerFinish(w)
      \/ UNCHANGED <<queue, task, shutdown>>
  BY DEF Next, vars, InitStep, InitFault, InitAlloc, InitCreate, InitCount, InitDone,
     InitAllocFails, InitCreateFails, AddCall, DestroyCall, CallerStep,
     LockPool, LockRefused, AddRefused, AddMallocFails, DestroyAgain, DestroyJoin,
     WorkerStep, SpuriousWakeup, WorkerLock, WorkerWait, WorkerExit, Finished
<1> QED
  BY <1>1, <1>2, <1>3, <1>4, <1>5, <1>6, <1>7

\* threadpool.c keeps the promises of TaskPool, whatever the number of
\* workers, callers and tasks and whichever of its calls fail.
THEOREM Refinement == Spec => ImplementsTaskPool
<1>1. Init => Abstract!Init
  BY InitRefines
<1>2. IInv /\ [Next]_vars => [Abstract!Next]_(Abstract!vars)
  BY StepRefines
<1> QED
  BY <1>1, <1>2, Invariance, PTL DEF Spec, ImplementsTaskPool, Abstract!Spec
=============================================================================
