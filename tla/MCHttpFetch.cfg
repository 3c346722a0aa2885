\* Pages from none to ones for which the buffer doubles three times, and to
\* ones for which it would have to double beyond an int.
SPECIFICATION FairSpec
CONSTANTS
  START = 6
  MARGIN = 2
  INT_MAX = 63
  PAGE_MAX = 50
INVARIANTS
  TerminatorFits
  WholeUnlessBroken
PROPERTY Returns
\* The call returns.
CHECK_DEADLOCK FALSE
