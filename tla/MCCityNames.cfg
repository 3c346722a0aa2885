\* Every page of up to four of the names, among them names that are too long
\* for one of the programs or for both.
SPECIFICATION Spec
CONSTANTS
  Names <- SomeNames
  CITIES = 4
  BUF = 3
  STR = 9
INVARIANTS
  KeyAgrees
  MapHonest
\* The page ends, or the crawler.
CHECK_DEADLOCK FALSE
