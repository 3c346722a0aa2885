\* A careful client beside one that may stall, hang up or reset; every call that
\* may fail, and programs that never end.
SPECIFICATION FairSpec
CONSTANTS
  Conns = {c1, c2}
  Careful = {c2}
  FDs = {f1, f2}
  Workers = {w1, w2}
  MAXEVENTS = 1
  Faults = {"accept", "epoll_wait", "threadpool_init", "malloc", "open", "fork", "program"}
  Listen = Listen
  None = None
INVARIANT LeaksExplained
PROPERTIES
  VerdictThenClose
  UsesPoolAsPromised
  CarefulServed
\* The program may end, and every client may have gone home.
CHECK_DEADLOCK FALSE
