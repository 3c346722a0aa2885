\* Two threads use the pool's API, both may destroy it, and every call that
\* can fail may fail.
SPECIFICATION Spec
CONSTANTS
  thread_num = 3
  Callers = {main, other}
  Main = main
  Destroyers = {main, other}
  Tasks = {t1, t2, t3, t4}
  Faults = {"malloc", "pthread_create"}
  None = None
SYMMETRY TaskSymmetry
INVARIANTS
  NoLostWakeup
  CounterMatchesList
  TaskOwnedOnce
  QuiescentAtFree
  GracefulDrains
PROPERTY ImplementsTaskPool
\* A mutex left locked by a failed call stops everyone for good.
CHECK_DEADLOCK FALSE
