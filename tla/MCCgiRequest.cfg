\* Two requests of any method side by side, every call may fail.
SPECIFICATION FairSpec
CONSTANTS
  Requests = {r1, r2}
  Prompt = {r1}
  Methods = {"GET", "POST", "other"}
  Programs = {"find_cgi", "filter"}
  Lengths <- AnyLength
  PIPE_BUF = 1
  Output = 2
  Log = 1
  Faults = {"pipe", "fork", "execl", "program"}
  Server = Server
INVARIANTS
  TypeOK
  AnswerFaithful
  BodyFaithful
  NothingLeftBehind
  EndOfOutputIsEnd
PROPERTY ResponseEnds
\* The server may be killed, and programs may wait for ever.
CHECK_DEADLOCK FALSE
