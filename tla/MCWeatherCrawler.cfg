\* Crawls of more cities than the limit, a client at any time, whose socket
\* has room for a page with one message.
SPECIFICATION FairSpec
CONSTANTS
  LIMIT = 1
  MAP_MAX = 3
  Readers = {client}
  SNDBUF = 3
INVARIANTS
  PageIsCurrent
  IndexTellsCrawl
  DeathSparesTable
  AnswerExplained
PROPERTY Recovers
