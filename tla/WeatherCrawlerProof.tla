------------------------ MODULE WeatherCrawlerProof -------------------------
(***************************************************************************)
(* Proofs about WeatherCrawler for every limit of the loop, every number   *)
(* of cities and any number of clients.                                    *)
(*                                                                         *)
(* The properties are not inductive.  What index.html tells depends on     *)
(* what the crawl under way has printed so far (Told), which with the      *)
(* bound on its messages depends on the turn of the loop (Turn); what a    *)
(* client is sent depends on what stat told it (Seen).                     *)
(***************************************************************************)
EXTENDS WeatherCrawler, TLAPS

\* How far the crawl is: the page in resp, the cities to come, the messages
\* printed, and a table that is not touched before the loop has ended.
Turn ==
  /\ pc = "list" => count = 0 /\ result = Empty
  /\ pc \in {"list", "fetch", "parse"} => table = "kept"
  /\ pc \in {"fetch", "parse"} => count <= LIMIT /\ cities >= 1
  /\ pc = "fetch" => resp = NULL \/ (resp = 0 /\ count = 0)
  /\ pc = "fetch" => result.noise <= 2 * count
  /\ pc = "parse" => result.noise <= 2 * count + 1
  /\ pc \in {"list", "fetch", "parse", "drop", "create", "print"} => ~result.page

\* The file that holds the output of the last crawl to end.
Told ==
  LET file == IF pc \in {"truncate", "copy"} THEN result ELSE index
  IN /\ last = "good" <=> file = CleanPage
     /\ last = "died" <=> ~file.page

\* A client that has called stat, and has not been overtaken by a copy.
Seen(r) ==
  rd[r].at = "open" /\ ~rd[r].overlap => rd[r].seen = index /\ rd[r].size = Size(index)

\* A client that has not been sent anything yet.
Unsent(r) == rd[r].at = "open" => rd[r].len = 0 /\ rd[r].sent = Empty

IInv ==
  /\ TypeOK /\ Turn /\ Told
  /\ \A r \in Readers : Seen(r) /\ Unsent(r)
  /\ PageIsCurrent /\ DeathSparesTable /\ AnswerExplained

-----------------------------------------------------------------------------
(* The operators *)

\* Every size is in Sizes, and a file is determined by its fields.
LEMMA FileFacts ==
  ASSUME NEW file \in Files
  PROVE  /\ file.noise \in Nat /\ file.noise <= NOISE_MAX /\ file.page \in BOOLEAN
         /\ Size(file) \in Sizes
         /\ file = CleanPage <=> file.noise = 0 /\ file.page
<1>1. NOISE_MAX \in Nat
  BY CrawlAssumption DEF NOISE_MAX
<1>2. file.noise \in 0 .. NOISE_MAX /\ file.page \in BOOLEAN
  BY DEF Files
<1>3. Size(file) \in Sizes
  BY <1>1, <1>2 DEF Size, Sizes, PAGE_LEN
<1>4. file = CleanPage <=> file.noise = 0 /\ file.page
  BY DEF Files, CleanPage
<1> QED
  BY <1>1, <1>2, <1>3, <1>4

\* Empty and CleanPage are files.
LEMMA FileConstants ==
  /\ NOISE_MAX \in Nat
  /\ Empty \in Files /\ Empty.noise = 0 /\ ~Empty.page
  /\ CleanPage \in Files
<1>1. NOISE_MAX \in Nat
  BY CrawlAssumption DEF NOISE_MAX
<1> QED
  BY <1>1 DEF Empty, CleanPage, Files

\* A message makes the output one longer, as long as that is within bounds.
LEMMA PrintFacts ==
  ASSUME result \in Files, result.noise + 1 <= NOISE_MAX
  PROVE  Prints(1) \in Files /\ Prints(1).noise = result.noise + 1 /\ Prints(1).page = result.page
<1>1. result.noise \in Nat /\ NOISE_MAX \in Nat
  BY FileFacts, FileConstants
<1>2. result.noise + 1 \in 0 .. NOISE_MAX
  BY <1>1
<1> QED
  BY <1>2 DEF Files, Prints

\* The shorter of two lengths.
LEMMA MinFacts ==
  ASSUME NEW a \in Nat, NEW b \in Nat
  PROVE  Min({a, b}) = IF a <= b THEN a ELSE b
<1>1. CASE a <= b
  <2>1. \E x \in {a, b} : \A y \in {a, b} : x <= y
    BY <1>1
  <2>2. Min({a, b}) \in {a, b} /\ \A y \in {a, b} : Min({a, b}) <= y
    BY <2>1 DEF Min
  <2> QED
    BY <1>1, <2>2
<1>2. CASE ~(a <= b)
  <2>1. \E x \in {a, b} : \A y \in {a, b} : x <= y
    BY <1>2
  <2>2. Min({a, b}) \in {a, b} /\ \A y \in {a, b} : Min({a, b}) <= y
    BY <2>1 DEF Min
  <2> QED
    BY <1>2, <2>2
<1> QED
  BY <1>1, <1>2

-----------------------------------------------------------------------------
(* The crawl: everything but the readers *)

\* The part of the invariant that speaks of the crawl and its files.
Crawler ==
  /\ pc \in {"start", "list", "fetch", "parse", "drop", "create", "print", "truncate", "copy"}
  /\ site \in {"up", "down"}
  /\ count \in 0 .. LIMIT + 1
  /\ resp \in NULL .. LIMIT + 1 /\ cities \in 0 .. MAP_MAX
  /\ table \in {"kept", "dropped", "created"}
  /\ result \in Files /\ index \in Files
  /\ last \in {"good", "noisy", "died"}
  /\ Turn /\ Told /\ PageIsCurrent /\ DeathSparesTable

\* The part that speaks of one reader.
Reader(r) ==
  /\ Seen(r) /\ Unsent(r)
  /\ rd[r].at = "done" =>
       /\ rd[r].len <= rd[r].size /\ rd[r].len <= Size(rd[r].sent)
       /\ ~rd[r].overlap /\ ~rd[r].failed =>
            rd[r].sent = rd[r].seen /\ (rd[r].len = Size(rd[r].sent) \/ rd[r].len >= SNDBUF)

RdType == rd \in [Readers -> [at : {"idle", "open", "done"}, seen : Files, size : Sizes,
                              sent : Files, len : Sizes, failed : BOOLEAN, overlap : BOOLEAN]]

\* The parts make up the invariant.
LEMMA Parts == IInv <=> Crawler /\ RdType /\ \A r \in Readers : Reader(r)
  BY DEF IInv, TypeOK, Crawler, RdType, Reader, AnswerExplained

\* The same in the next state.
LEMMA PartsNext == IInv' <=> (Crawler /\ RdType /\ \A r \in Readers : Reader(r))'
  BY Parts, PTL

\* A step of the crawl keeps what is known of the crawl.
LEMMA CrawlStep ==
  ASSUME Crawler, SiteChanges \/ StartCrawl \/ Crawl
  PROVE  Crawler'
<1> USE CrawlAssumption, FileConstants DEF NULL
<1>0. /\ count \in Nat /\ LIMIT \in Nat /\ MAP_MAX \in Nat \ {0}
      /\ result \in Files /\ result.noise \in Nat /\ result.noise <= NOISE_MAX
      /\ index \in Files
  BY FileFacts DEF Crawler
<1>1. CASE SiteChanges
  BY <1>1 DEF SiteChanges, Crawler, Turn, Told, PageIsCurrent, DeathSparesTable
<1>2. CASE StartCrawl
  BY <1>2 DEF StartCrawl, Crawler, Turn, Told, PageIsCurrent, DeathSparesTable
<1>3. CASE GetList
  <2>1. PICK n \in 1 .. MAP_MAX : cities' = n
    BY <1>3 DEF GetList
  <2>2. /\ pc = "list" /\ pc' = "fetch" /\ resp' = 0 /\ UNCHANGED <<site, count, table, result, index, last>>
    BY <1>3 DEF GetList
  <2>3. count = 0 /\ result = Empty /\ table = "kept"
    BY <2>2 DEF Crawler, Turn
  <2>4. cities' \in 0 .. MAP_MAX /\ cities' >= 1 /\ 0 \in NULL .. LIMIT + 1
    BY <2>1
  <2> QED
    BY <2>2, <2>3, <2>4 DEF Crawler, Turn, Told, PageIsCurrent, DeathSparesTable
<1>4. CASE GetListFails
  <2>1. /\ pc = "list" /\ pc' = "truncate" /\ last' = "died" /\ result' = Prints(1) /\ resp' \in {NULL, 0}
        /\ UNCHANGED <<site, cities, count, table, index>>
    BY <1>4 DEF GetListFails, Dies
  <2>2. result.noise = 0 /\ ~result.page /\ table = "kept" /\ 1 <= NOISE_MAX
    BY <2>1 DEF Crawler, Turn, NOISE_MAX
  <2>3. result' \in Files /\ ~result'.page
    BY <1>0, <2>1, <2>2, PrintFacts
  <2>4. result' # CleanPage
    BY <2>3, FileFacts
  <2>5. resp' \in NULL .. LIMIT + 1
    BY <2>1
  <2> QED
    BY <2>1, <2>2, <2>3, <2>4, <2>5 DEF Crawler, Turn, Told, PageIsCurrent, DeathSparesTable
<1>5. CASE GetListUntagged
  <2>1. /\ pc = "list" /\ pc' = "drop" /\ result' = Prints(1) /\ resp' = 0
        /\ UNCHANGED <<site, cities, count, table, index, last>>
    BY <1>5 DEF GetListUntagged
  <2>2. result.noise = 0 /\ ~result.page /\ 1 <= NOISE_MAX
    BY <2>1 DEF Crawler, Turn, NOISE_MAX
  <2>3. result' \in Files /\ ~result'.page
    BY <1>0, <2>1, <2>2, PrintFacts
  <2>4. resp' \in NULL .. LIMIT + 1
    BY <2>1
  <2> QED
    BY <2>1, <2>3, <2>4 DEF Crawler, Turn, Told, PageIsCurrent, DeathSparesTable
<1>6. CASE GetCity
  <2>1. /\ pc = "fetch" /\ pc' = "parse" /\ resp' = count + 1
        /\ UNCHANGED <<site, cities, count, table, result, index, last>>
    BY <1>6 DEF GetCity
  <2>2. count <= LIMIT /\ result.noise <= 2 * count
    BY <2>1 DEF Crawler, Turn
  <2>3. resp' \in NULL .. LIMIT + 1 /\ result.noise <= 2 * count + 1
    BY <1>0, <2>1, <2>2
  <2> QED
    BY <2>1, <2>3 DEF Crawler, Turn, Told, PageIsCurrent, DeathSparesTable
<1>7. CASE GetCityFails
  <2>1. /\ pc = "fetch" /\ result' = Prints(1) /\ UNCHANGED <<site, resp, cities, count, table, index>>
        /\ \/ resp = NULL /\ pc' = "truncate" /\ last' = "died"
           \/ resp # NULL /\ pc' = "parse" /\ last' = last
    BY <1>7 DEF GetCityFails, Dies
  <2>2. /\ count <= LIMIT /\ cities >= 1 /\ result.noise <= 2 * count /\ ~result.page /\ table = "kept"
        /\ resp = NULL \/ (resp = 0 /\ count = 0)
    BY <2>1 DEF Crawler, Turn
  <2>3. result.noise + 1 <= NOISE_MAX
    BY <1>0, <2>2 DEF NOISE_MAX
  <2>4. result' \in Files /\ result'.noise = result.noise + 1 /\ ~result'.page
    BY <1>0, <2>1, <2>2, <2>3, PrintFacts
  <2>5. result'.noise <= 2 * count + 1 /\ result' # CleanPage
    BY <1>0, <2>2, <2>4, FileFacts
  <2> QED
    BY <2>1, <2>2, <2>4, <2>5 DEF Crawler, Turn, Told, PageIsCurrent, DeathSparesTable
<1>8. CASE Get_weather_info
  <2>1. /\ pc = "parse" /\ result' \in {result, Prints(1)}
        /\ resp' = NULL /\ count' = count + 1 /\ cities' = cities - 1
        /\ pc' = IF cities = 1 \/ count + 1 > LIMIT THEN "drop" ELSE "fetch"
        /\ UNCHANGED <<site, table, index, last>>
    BY <1>8 DEF Get_weather_info, NextCity, LoopEnds
  <2>2. /\ count <= LIMIT /\ cities >= 1 /\ result.noise <= 2 * count + 1 /\ ~result.page /\ table = "kept"
        /\ cities \in 0 .. MAP_MAX
    BY <2>1 DEF Crawler, Turn
  <2>3. result.noise + 1 <= NOISE_MAX
    BY <1>0, <2>2 DEF NOISE_MAX
  <2>4. result' \in Files /\ result'.noise <= result.noise + 1 /\ result'.noise \in Nat /\ ~result'.page
    BY <1>0, <2>1, <2>2, <2>3, PrintFacts, FileFacts
  <2>5. /\ result'.noise <= 2 * count' /\ count' \in 0 .. LIMIT + 1 /\ cities' \in 0 .. MAP_MAX
        /\ resp' \in NULL .. LIMIT + 1
    BY <1>0, <2>1, <2>2, <2>4
  <2>6. pc' = "drop" \/ (pc' = "fetch" /\ count' <= LIMIT /\ cities' >= 1)
    BY <1>0, <2>1, <2>2
  <2> QED
    BY <2>1, <2>2, <2>4, <2>5, <2>6 DEF Crawler, Turn, Told, PageIsCurrent, DeathSparesTable
<1>9. CASE delete_table
  BY <1>9 DEF delete_table, Crawler, Turn, Told, PageIsCurrent, DeathSparesTable
<1>10. CASE creat_table
  BY <1>10 DEF creat_table, Crawler, Turn, Told, PageIsCurrent, DeathSparesTable
<1>11. CASE PrintPage
  <2>1. /\ pc = "print" /\ pc' = "truncate" /\ result' = [result EXCEPT !.page = TRUE]
        /\ last' = IF result.noise = 0 THEN "good" ELSE "noisy"
        /\ UNCHANGED <<site, resp, cities, count, table, index>>
    BY <1>11 DEF PrintPage
  <2>2. result' \in Files /\ result'.noise = result.noise /\ result'.page
    BY <1>0, <2>1 DEF Files
  <2>3. last' = "good" <=> result' = CleanPage
    BY <2>1, <2>2, FileFacts
  <2>4. last' # "died" /\ last' \in {"good", "noisy", "died"}
    BY <2>1
  <2> QED
    BY <2>1, <2>2, <2>3, <2>4 DEF Crawler, Turn, Told, PageIsCurrent, DeathSparesTable
<1>12. CASE Truncate
  BY <1>12 DEF Truncate, Crawler, Turn, Told, PageIsCurrent, DeathSparesTable
<1>13. CASE Copy
  BY <1>13 DEF Copy, Crawler, Turn, Told, PageIsCurrent, DeathSparesTable
<1> QED
  BY <1>1, <1>2, <1>3, <1>4, <1>5, <1>6, <1>7, <1>8, <1>9, <1>10, <1>11, <1>12, <1>13 DEF Crawl

-----------------------------------------------------------------------------
(* The readers *)

\* A step of the crawl takes no reader further, but a change of index.html
\* marks those that are between stat and open.
LEMMA ReadersDuringCrawl ==
  ASSUME RdType, SiteChanges \/ StartCrawl \/ Crawl, NEW r \in Readers, Reader(r)
  PROVE  RdType' /\ Reader(r)'
<1>1. CASE Truncate \/ Copy
  <2>1. rd' = Changed
    BY <1>1 DEF Truncate, Copy
  <2>2. RdType'
    BY <2>1 DEF RdType, Changed
  <2>3. /\ rd'[r].at = rd[r].at /\ rd'[r].seen = rd[r].seen /\ rd'[r].size = rd[r].size
        /\ rd'[r].sent = rd[r].sent /\ rd'[r].len = rd[r].len /\ rd'[r].failed = rd[r].failed
        /\ rd'[r].overlap = (rd[r].overlap \/ rd[r].at = "open")
    BY <2>1 DEF RdType, Changed
  <2> QED
    BY <2>2, <2>3 DEF Reader, Seen, Unsent, Size
<1>2. CASE ~(Truncate \/ Copy)
  <2>1. UNCHANGED <<index, rd>>
    BY <1>2 DEF SiteChanges, StartCrawl, Crawl, GetList, GetListFails, GetListUntagged, GetCity, GetCityFails,
                Get_weather_info, delete_table, creat_table, PrintPage
  <2> QED
    BY <2>1 DEF RdType, Reader, Seen, Unsent, Size
<1> QED
  BY <1>1, <1>2

\* A step of one reader, for itself and for the others.
LEMMA ReaderStep ==
  ASSUME Crawler, RdType, NEW r \in Readers, Serve(r), NEW q \in Readers, Reader(q)
  PROVE  RdType' /\ Reader(q)'
<1>0. index \in Files /\ Size(index) \in Sizes /\ Size(index) \in Nat /\ NOISE_MAX \in Nat
  <2>1. index \in Files /\ NOISE_MAX \in Nat
    BY FileConstants DEF Crawler
  <2> QED
    BY <2>1, FileFacts DEF Sizes, PAGE_LEN
<1>1. UNCHANGED index
  BY DEF Serve, Stat, echo_html, EchoFails
<1>2. CASE Stat(r)
  <2> DEFINE new == [NewReader EXCEPT !.at = "open", !.seen = index, !.size = StatSize(r)]
  <2>1. rd' = [rd EXCEPT ![r] = new]
    BY <1>2 DEF Stat
  <2>2. 0 \in Sizes /\ Empty \in Files
    BY <1>0, FileConstants DEF Sizes, PAGE_LEN
  <2>a. /\ new.at = "open" /\ new.seen = index /\ new.size = Size(index)
        /\ new.sent = Empty /\ new.len = 0 /\ new.failed = FALSE /\ new.overlap = FALSE
    BY DEF NewReader, StatSize
  <2>b. new \in [at : {"idle", "open", "done"}, seen : Files, size : Sizes,
                 sent : Files, len : Sizes, failed : BOOLEAN, overlap : BOOLEAN]
    BY <1>0, <2>2 DEF NewReader, StatSize
  <2> HIDE DEF new
  <2>3. RdType'
    BY <2>1, <2>b DEF RdType
  <2>4. CASE q = r
    <3>1. rd'[q] = new
      BY <2>1, <2>4 DEF RdType
    <3> QED
      BY <1>0, <1>1, <2>3, <2>a, <3>1 DEF Reader, Seen, Unsent, Size
  <2>5. CASE q # r
    <3>1. rd'[q] = rd[q]
      BY <2>1, <2>5 DEF RdType
    <3> QED
      BY <1>1, <2>3, <3>1 DEF Reader, Seen, Unsent, Size
  <2> QED
    BY <2>4, <2>5
<1>3. CASE echo_html(r)
  <2> DEFINE n == Min({rd[r].size, Size(index)})
  <2>1. rd[r].at = "open"
    BY <1>3 DEF echo_html
  <2>2. rd[r].size \in Nat /\ rd[r].size \in Sizes
    BY <1>0 DEF RdType, Sizes, PAGE_LEN
  <2>3. n = IF rd[r].size <= Size(index) THEN rd[r].size ELSE Size(index)
    BY <1>0, <2>2, MinFacts
  <2>4. n \in Nat /\ n \in Sizes /\ n <= rd[r].size /\ n <= Size(index)
    BY <1>0, <2>2, <2>3
  <2>5. PICK k \in Accepted(n) : rd' = [rd EXCEPT ![r].at = "done", ![r].sent = index, ![r].len = k]
    BY <1>3 DEF echo_html
  <2> HIDE DEF n
  <2>6. k \in 0 .. n /\ (k = n \/ k >= SNDBUF)
    BY <2>5 DEF Accepted
  <2>7. k \in Sizes /\ k <= rd[r].size /\ k <= Size(index)
    <3>1. k \in Nat /\ k <= n
      BY <2>4, <2>6
    <3>2. n <= NOISE_MAX + PAGE_LEN
      BY <2>4 DEF Sizes
    <3> QED
      BY <1>0, <2>2, <2>4, <3>1, <3>2 DEF Sizes, PAGE_LEN
  <2>8. RdType'
    <3> DEFINE new == [rd[r] EXCEPT !.at = "done", !.sent = index, !.len = k]
    <3>1. new \in [at : {"idle", "open", "done"}, seen : Files, size : Sizes,
                   sent : Files, len : Sizes, failed : BOOLEAN, overlap : BOOLEAN]
      BY <1>0, <2>7 DEF RdType
    <3>2. rd' = [rd EXCEPT ![r] = new]
      BY <2>5 DEF RdType
    <3> HIDE DEF new
    <3> QED
      BY <3>1, <3>2 DEF RdType
  <2>9. CASE q = r
    <3>1. /\ rd'[q].at = "done" /\ rd'[q].seen = rd[q].seen /\ rd'[q].size = rd[q].size
          /\ rd'[q].sent = index /\ rd'[q].len = k /\ rd'[q].overlap = rd[q].overlap
      BY <2>5, <2>9 DEF RdType
    <3>2. ~rd[q].overlap => rd[q].seen = index /\ n = Size(index)
      BY <1>0, <2>1, <2>3, <2>9 DEF Reader, Seen
    <3> QED
      BY <2>6, <2>7, <2>8, <2>9, <3>1, <3>2 DEF Reader, Seen, Unsent
  <2>10. CASE q # r
    <3>1. rd'[q] = rd[q]
      BY <2>5, <2>10 DEF RdType
    <3> QED
      BY <1>1, <2>8, <3>1 DEF Reader, Seen, Unsent, Size
  <2> QED
    BY <2>9, <2>10
<1>4. CASE EchoFails(r)
  <2>1. rd[r].at = "open" /\ rd' = [rd EXCEPT ![r].at = "done", ![r].failed = TRUE]
    BY <1>4 DEF EchoFails
  <2>2. RdType'
    <3> DEFINE new == [rd[r] EXCEPT !.at = "done", !.failed = TRUE]
    <3>1. new \in [at : {"idle", "open", "done"}, seen : Files, size : Sizes,
                   sent : Files, len : Sizes, failed : BOOLEAN, overlap : BOOLEAN]
      BY DEF RdType
    <3>2. rd' = [rd EXCEPT ![r] = new]
      BY <2>1 DEF RdType
    <3> HIDE DEF new
    <3> QED
      BY <3>1, <3>2 DEF RdType
  <2>3. CASE q = r
    <3>1. /\ rd'[q].at = "done" /\ rd'[q].failed /\ rd'[q].size = rd[q].size
          /\ rd'[q].sent = Empty /\ rd'[q].len = 0
      BY <2>1, <2>3 DEF RdType, Reader, Unsent
    <3>2. rd[q].size \in Nat /\ Size(Empty) = 0
      BY <1>0 DEF RdType, Sizes, PAGE_LEN, Size, Empty
    <3> QED
      BY <2>2, <3>1, <3>2 DEF Reader, Seen, Unsent
  <2>4. CASE q # r
    <3>1. rd'[q] = rd[q]
      BY <2>1, <2>4 DEF RdType
    <3> QED
      BY <1>1, <2>2, <3>1 DEF Reader, Seen, Unsent, Size
  <2> QED
    BY <2>3, <2>4
<1> QED
  BY <1>2, <1>3, <1>4 DEF Serve

\* With no reader at all the type of rd is kept too.
LEMMA RdTypeStep ==
  ASSUME Crawler, RdType, \A r \in Readers : Reader(r), Next
  PROVE  RdType'
<1>1. CASE Readers = {}
  <2>1. rd' = rd \/ rd' = Changed
    BY <1>1 DEF Next, SiteChanges, StartCrawl, Crawl, GetList, GetListFails, GetListUntagged, GetCity,
                GetCityFails, Get_weather_info, delete_table, creat_table, PrintPage, Truncate, Copy
  <2> QED
    BY <1>1, <2>1 DEF RdType, Changed
<1>2. CASE Readers # {}
  <2>1. PICK r \in Readers : TRUE
    BY <1>2
  <2> QED
    BY <2>1, ReadersDuringCrawl, ReaderStep DEF Next
<1> QED
  BY <1>1, <1>2

-----------------------------------------------------------------------------
(* The invariant *)

\* It holds when the first crawl has not begun.
LEMMA InitIInv == Init => IInv
<1> SUFFICES ASSUME Init
             PROVE  IInv
  OBVIOUS
<1> USE CrawlAssumption, FileConstants
<1>1. Crawler
  BY DEF Init, Crawler, Turn, Told, PageIsCurrent, DeathSparesTable, NULL, CleanPage
<1>2. RdType
  <2>1. 0 \in Sizes
    BY DEF Sizes, PAGE_LEN
  <2> QED
    BY <2>1 DEF Init, RdType, NewReader
<1>3. \A r \in Readers : Reader(r)
  BY DEF Init, Reader, Seen, Unsent, NewReader
<1> QED
  BY <1>1, <1>2, <1>3, Parts

\* Every step keeps it.
LEMMA NextIInv == IInv /\ [Next]_vars => IInv'
<1> SUFFICES ASSUME IInv, [Next]_vars
             PROVE  IInv'
  OBVIOUS
<1>0. Crawler /\ RdType /\ \A r \in Readers : Reader(r)
  BY Parts
<1>1. CASE Next
  <2>1. Crawler'
    <3>1. CASE SiteChanges \/ StartCrawl \/ Crawl
      BY <1>0, <3>1, CrawlStep
    <3>2. CASE \E r \in Readers : Serve(r)
      <4>1. UNCHANGED <<pc, site, resp, cities, count, table, result, index, last>>
        BY <3>2 DEF Serve, Stat, echo_html, EchoFails
      <4> QED
        BY <1>0, <4>1 DEF Crawler, Turn, Told, PageIsCurrent, DeathSparesTable
    <3> QED
      BY <1>1, <3>1, <3>2 DEF Next
  <2>2. RdType'
    BY <1>0, <1>1, RdTypeStep
  <2>3. ASSUME NEW q \in Readers
        PROVE  Reader(q)'
    BY <1>0, <1>1, ReadersDuringCrawl, ReaderStep DEF Next
  <2> QED
    BY <2>1, <2>2, <2>3, PartsNext
<1>2. CASE UNCHANGED vars
  BY <1>2 DEF vars, IInv, TypeOK, Turn, Told, Seen, Unsent, Size, PageIsCurrent, DeathSparesTable, AnswerExplained
<1> QED
  BY <1>1, <1>2

\* The inductive invariant holds throughout.
LEMMA Invariance == Spec => []IInv
  BY InitIInv, NextIInv, PTL DEF Spec

-----------------------------------------------------------------------------
(* The theorems *)

\* The crawl keeps its types: the loop of main makes LIMIT + 1 turns at most,
\* takes no city that is not in the map, and prints two messages a turn at
\* most into its output.
THEOREM CrawlTypeCorrect == Spec => []TypeOK
  BY Invariance, PTL DEF IInv

\* The loop of main never parses the page of another city: what a failed
\* fetch leaves in resp is the list of cities, in the first turn.
THEOREM PagesAreCurrent == Spec => []PageIsCurrent
  BY Invariance, PTL DEF IInv

\* What run.sh copies to index.html tells how the crawl ended.
THEOREM IndexTells == Spec => []IndexTellsCrawl
<1>1. IInv => IndexTellsCrawl
  BY DEF IInv, Told, IndexTellsCrawl
<1> QED
  BY <1>1, Invariance, PTL

\* The fault handler's exit never comes between delete_table and creat_table.
THEOREM DeathsSpareTable == Spec => []DeathSparesTable
  BY Invariance, PTL DEF IInv

\* echo_html sends no more than stat told accept_request and than is there,
\* and all of what stat saw but for a copy in between, a failing call, and a
\* file that is larger than what the client's socket takes at once.
THEOREM AnswersAreExplained == Spec => []AnswerExplained
  BY Invariance, PTL DEF IInv
=============================================================================
