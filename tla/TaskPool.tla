------------------------------ MODULE TaskPool ------------------------------
(***************************************************************************)
(* What the thread pool of threadpool.h promises to the code that uses it, *)
(* with no lock, condition variable, list or counter in sight.  A task is  *)
(* handed in while the pool is open, is picked up by one idle worker, and  *)
(* is run once.  Closing is graceful (everything handed in is still run)   *)
(* or immediate (nothing more is started; what was left is discarded, and  *)
(* only once no worker is busy any more).                                  *)
(***************************************************************************)

CONSTANTS Workers,   \* the threads of the pool
          Tasks,     \* the task_t nodes
          None       \* "no task"

VARIABLES pending,   \* the tasks handed in and not yet started
          running,   \* running[w]: the task worker w is running, or None
          mode       \* "open", "graceful" or "immediate"

vars == <<pending, running, mode>>

Busy == {w \in Workers : running[w] # None}

Init ==
  /\ pending = {}
  /\ running = [w \in Workers |-> None]
  /\ mode = "open"

Submit(t) ==
  /\ mode = "open"
  /\ t \notin pending
  /\ \A w \in Workers : running[w] # t
  /\ pending' = pending \cup {t}
  /\ UNCHANGED <<running, mode>>

\* Immediate shutdown forbids new starts, graceful shutdown does not.
Start(w, t) ==
  /\ mode # "immediate"
  /\ running[w] = None
  /\ t \in pending
  /\ pending' = pending \ {t}
  /\ running' = [running EXCEPT ![w] = t]
  /\ UNCHANGED mode

Finish(w) ==
  /\ running[w] # None
  /\ running' = [running EXCEPT ![w] = None]
  /\ UNCHANGED <<pending, mode>>

Close(m) ==
  /\ mode = "open"
  /\ mode' = m
  /\ UNCHANGED <<pending, running>>

Discard ==
  /\ mode = "immediate"
  /\ Busy = {}
  /\ pending' = {}
  /\ UNCHANGED <<running, mode>>

Next ==
  \/ \E t \in Tasks : Submit(t)
  \/ \E w \in Workers, t \in Tasks : Start(w, t)
  \/ \E w \in Workers : Finish(w)
  \/ \E m \in {"graceful", "immediate"} : Close(m)
  \/ Discard

Spec == Init /\ [][Next]_vars
=============================================================================
