\* Two queries while weather and main replace the table, with every failure.
SPECIFICATION FairSpec
CONSTANTS
  xian = xian
  beijing = beijing
  weather = weather
  main = main
  Queries = {q1, q2}
  Refreshers = {weather, main}
  Crawlers = {weather}
  Cities = {xian, beijing}
  Inserts <- AsShipped
  Stored <- Earlier
  Faults = {"mysql", "memcached", "crawl", "kill"}
  NotFind = NotFind
  None = None
INVARIANTS
  Provenance
  SteadyIsFound
  TableSurvives
PROPERTY CacheConverges
