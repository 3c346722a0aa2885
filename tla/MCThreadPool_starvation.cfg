\* One worker, tasks that keep arriving: the list is a stack.
SPECIFICATION FairSpec
CONSTANTS
  thread_num = 1
  Callers = {main}
  Main = main
  Destroyers = {main}
  Tasks = {t1, t2}
  Faults = {}
  None = None
PROPERTY EveryTaskRuns
CHECK_DEADLOCK FALSE
