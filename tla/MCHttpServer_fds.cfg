\* Fewer descriptors than connections: numbers are reused and run out.
SPECIFICATION Spec
CONSTANTS
  Conns = {c1, c2, c3}
  Careful = {c3}
  FDs = {f1, f2}
  Workers = {w1, w2}
  MAXEVENTS = 2
  Faults = {"accept"}
  Listen = Listen
  None = None
SYMMETRY Symmetry
INVARIANTS
  TypeOK
  DescriptorsAreCurrent
  OneOwner
  NoStrandedBacklog
\* The process may be killed, and every client may have gone home.
CHECK_DEADLOCK FALSE
