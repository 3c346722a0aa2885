\* Every short text, in every division into pieces.
SPECIFICATION FairSpec
CONSTANTS
  Texts <- Short
  MAX_LEN = 4
INVARIANTS
  TypeOK
  NothingLost
  LinesMatch
PROPERTY HeaderCleared
\* A text may end.
CHECK_DEADLOCK FALSE
