\* malloc may fail in threadpool_add, which then returns with the lock held.
SPECIFICATION FairSpec
CONSTANTS
  thread_num = 2
  Callers = {main}
  Main = main
  Destroyers = {main}
  Tasks = {t1, t2}
  Faults = {"malloc"}
  None = None
PROPERTY QuietDrain
CHECK_DEADLOCK FALSE
