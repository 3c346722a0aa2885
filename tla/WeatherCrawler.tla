--------------------------- MODULE WeatherCrawler ---------------------------
(***************************************************************************)
(* A crawl: htdocs/run.sh runs main of weather.cpp with its output in      *)
(* result.html and copies that over index.html, which echo_html of httpd.c *)
(* serves to others meanwhile.                                             *)
(*                                                                         *)
(* The crawler treats a page it cannot use in three ways: it prints a      *)
(* message into its output and goes on, it goes on with the page it has    *)
(* from before, or it runs into a segmentation fault, whose handler calls  *)
(* exit(0).  run.sh looks at neither the exit status nor the output.  A    *)
(* fetch is one step here (its loop is the module HttpFetch), and the      *)
(* refresh of the table is reduced to what the crawl decides of it         *)
(* (queries beside it are the module WeatherQuery).                        *)
(***************************************************************************)
EXTENDS Integers, FiniteSetsExt

CONSTANTS
  LIMIT,      \* 150 in the code: the loop ends when count exceeds it
  MAP_MAX,    \* bound: most cities find_resource can bring back
  Readers,    \* requests for index.html that are served concurrently
  SNDBUF      \* what a client's socket takes at once, whoever reads or not

ASSUME CrawlAssumption == LIMIT \in Nat /\ MAP_MAX \in Nat \ {0} /\ SNDBUF \in Nat

VARIABLES
  pc,        \* "start", "list", "fetch", "parse", "drop", "create", "print", "truncate", "copy"
  site,      \* "up": every page comes and is as it should be; or "down"
  resp,      \* the page in resp: NULL, 0 for the list of cities, k for the k-th city
  cities,    \* the cities of the map that the loop has not reached
  count,     \* turns of the loop
  table,     \* what this crawl has done to the table: "kept", "dropped", "created"
  result,    \* result.html
  index,     \* index.html
  last,      \* how the last crawl ended: "good", "noisy", "died"
  rd         \* the readers

vars == <<pc, site, resp, cities, count, table, result, index, last, rd>>

NULL == -1

\* A file is a number of messages and then, perhaps, the page.
Empty == [noise |-> 0, page |-> FALSE]
CleanPage == [noise |-> 0, page |-> TRUE]
PAGE_LEN == 2    \* a message is shorter than the page
Size(file) == file.noise + IF file.page THEN PAGE_LEN ELSE 0
Prints(n) == [result EXCEPT !.noise = @ + n]

\* A reader: where it is, the file when it called stat, the size stat gave,
\* the file and the length it sent, whether echo_html gave up, and whether
\* index.html changed between.
NewReader == [at |-> "idle", seen |-> Empty, size |-> 0, sent |-> Empty, len |-> 0,
              failed |-> FALSE, overlap |-> FALSE]
Changed == [r \in Readers |-> [rd[r] EXCEPT !.overlap = @ \/ rd[r].at = "open"]]

Init ==
  /\ pc = "start" /\ site \in {"up", "down"}
  /\ resp = NULL /\ cities = 0 /\ count = 0
  /\ table = "kept"
  /\ result = CleanPage /\ index = CleanPage /\ last = "good"
  /\ rd = [r \in Readers |-> NewReader]

-----------------------------------------------------------------------------
(* The site *)

SiteChanges ==
  /\ site' = IF site = "up" THEN "down" ELSE "up"
  /\ UNCHANGED <<pc, resp, cities, count, table, result, index, last, rd>>

-----------------------------------------------------------------------------
(* run.sh and weather.cpp *)

StartCrawl ==
  /\ pc = "start"
  /\ pc' = "list" /\ result' = Empty
  /\ resp' = NULL /\ cities' = 0 /\ count' = 0 /\ table' = "kept"
  /\ UNCHANGED <<site, index, last, rd>>

\* A page used through NULL: handle calls exit(0).
Dies == pc' = "truncate" /\ last' = "died"

\* The list comes, with every name find_resource counts on.
GetList ==
  /\ pc = "list"
  /\ pc' = "fetch" /\ resp' = 0
  /\ cities' \in 1 .. MAP_MAX
  /\ UNCHANGED <<site, count, table, result, index, last, rd>>

\* Mutant: the table is dropped before the crawl.
GetListFails_DropsFirst ==
  /\ pc = "list" /\ site = "down"
  /\ Dies
  /\ resp' = NULL /\ result' = Prints(1) /\ table' = "dropped"
  /\ UNCHANGED <<site, cities, count, index, rd>>
\* It does not come, or ends before the last name: a message, and a fault.
GetListFails ==
  /\ pc = "list" /\ site = "down"
  /\ Dies
  /\ resp' \in {NULL, 0}
  /\ result' = Prints(1)
  /\ UNCHANGED <<site, cities, count, table, index, rd>>

\* Another page comes, without the word inlandCity: a message, and no city.
GetListUntagged ==
  /\ pc = "list" /\ site = "down"
  /\ pc' = "drop" /\ resp' = 0 /\ result' = Prints(1)
  /\ UNCHANGED <<site, cities, count, table, index, last, rd>>

GetCity ==
  /\ pc = "fetch"
  /\ pc' = "parse" /\ resp' = count + 1
  /\ UNCHANGED <<site, cities, count, table, result, index, last, rd>>

\* GetHttpResponse prints a message and returns false, which nobody looks
\* at, leaving resp as it was.
GetCityFails ==
  /\ pc = "fetch" /\ site = "down"
  /\ result' = Prints(1)
  /\ IF resp = NULL THEN Dies ELSE pc' = "parse" /\ UNCHANGED last
  /\ UNCHANGED <<site, resp, cities, count, table, index, rd>>

\* The end of the map, or the break.
LoopEnds == cities = 1 \/ count + 1 > LIMIT

\* Mutant: the buffer is freed but the pointer kept.
NextCity_KeepsPointer ==
  /\ resp' = resp /\ count' = count + 1 /\ cities' = cities - 1
  /\ pc' = IF LoopEnds THEN "drop" ELSE "fetch"
\* free(resp), resp = NULL and the loop's end.
NextCity ==
  /\ resp' = NULL /\ count' = count + 1 /\ cities' = cities - 1
  /\ pc' = IF LoopEnds THEN "drop" ELSE "fetch"

\* Get_weather_info reads seven days, or prints what it does not find.
Get_weather_info ==
  /\ pc = "parse"
  /\ \/ result' = result
     \/ (site = "down" \/ resp = 0) /\ result' = Prints(1)
  /\ NextCity
  /\ UNCHANGED <<site, table, index, last, rd>>

\* begin_connect or the statement may fail; nobody looks at that either.
delete_table ==
  /\ pc = "drop"
  /\ pc' = "create" /\ table' \in {"dropped", table}
  /\ UNCHANGED <<site, resp, cities, count, result, index, last, rd>>

creat_table ==
  /\ pc = "create"
  /\ pc' = "print"
  /\ table' \in {"created", table}
  /\ UNCHANGED <<site, resp, cities, count, result, index, last, rd>>

PrintPage ==
  /\ pc = "print"
  /\ pc' = "truncate" /\ result' = [result EXCEPT !.page = TRUE]
  /\ last' = IF result.noise = 0 THEN "good" ELSE "noisy"
  /\ UNCHANGED <<site, resp, cities, count, table, index, rd>>

\* Mutant: a longer index.html is not replaced by a shorter result.html.
Truncate_KeepsLonger ==
  /\ pc = "truncate"
  /\ pc' = IF Size(index) > Size(result) THEN "start" ELSE "copy"
  /\ UNCHANGED <<site, resp, cities, count, table, result, index, last, rd>>
\* The shell opens index.html for cat.
Truncate ==
  /\ pc = "truncate"
  /\ pc' = "copy" /\ index' = Empty /\ rd' = Changed
  /\ UNCHANGED <<site, resp, cities, count, table, result, last>>

\* cat
Copy ==
  /\ pc = "copy"
  /\ pc' = "start" /\ index' = result /\ rd' = Changed
  /\ UNCHANGED <<site, resp, cities, count, table, result, last>>

Crawl ==
  \/ GetList \/ GetListFails \/ GetListUntagged \/ GetCity \/ GetCityFails \/ Get_weather_info
  \/ delete_table \/ creat_table \/ PrintPage \/ Truncate \/ Copy

-----------------------------------------------------------------------------
(* httpd.c *)

\* Mutant: the size is taken once and kept for later requests.
StatSize_Cached(r) == IF rd[r].size > 0 THEN rd[r].size ELSE Size(index)
StatSize(r) == Size(index)

\* accept_request calls stat and routes to echo_html.
Stat(r) ==
  /\ rd[r].at \in {"idle", "done"}
  /\ rd' = [rd EXCEPT ![r] = [NewReader EXCEPT !.at = "open", !.seen = index, !.size = StatSize(r)]]
  /\ UNCHANGED <<pc, site, resp, cities, count, table, result, index, last>>

\* Of n bytes the client's socket, which does not block, takes what it has
\* room for; nobody looks at how many that were.
Accepted(n) == {k \in 0 .. n : k = n \/ k >= SNDBUF}

\* echo_html opens the file and has sendfile send as many bytes as stat said.
echo_html(r) ==
  /\ rd[r].at = "open"
  /\ \E n \in Accepted(Min({rd[r].size, Size(index)})) :
       rd' = [rd EXCEPT ![r].at = "done", ![r].sent = index, ![r].len = n]
  /\ UNCHANGED <<pc, site, resp, cities, count, table, result, index, last>>

\* open or sendfile fails: nothing of the file is sent.
EchoFails(r) ==
  /\ rd[r].at = "open"
  /\ rd' = [rd EXCEPT ![r].at = "done", ![r].failed = TRUE]
  /\ UNCHANGED <<pc, site, resp, cities, count, table, result, index, last>>

Serve(r) == Stat(r) \/ echo_html(r) \/ EchoFails(r)

Next == SiteChanges \/ StartCrawl \/ Crawl \/ \E r \in Readers : Serve(r)

Spec == Init /\ [][Next]_vars

\* A crawl that has begun goes on; HttpFetch says when a fetch returns.
FairSpec == Spec /\ WF_vars(Crawl)

-----------------------------------------------------------------------------
(* Properties *)

\* A turn of the loop prints two messages at most.
NOISE_MAX == 2 * (LIMIT + 1)
Files == [noise : 0 .. NOISE_MAX, page : BOOLEAN]
Sizes == 0 .. NOISE_MAX + PAGE_LEN

TypeOK ==
  /\ pc \in {"start", "list", "fetch", "parse", "drop", "create", "print", "truncate", "copy"}
  /\ site \in {"up", "down"}
  /\ count \in 0 .. LIMIT + 1
  /\ resp \in NULL .. LIMIT + 1 /\ cities \in 0 .. MAP_MAX
  /\ table \in {"kept", "dropped", "created"}
  /\ result \in Files /\ index \in Files
  /\ last \in {"good", "noisy", "died"}
  /\ rd \in [Readers -> [at : {"idle", "open", "done"}, seen : Files, size : Sizes,
                         sent : Files, len : Sizes, failed : BOOLEAN, overlap : BOOLEAN]]

\* Get_weather_info is given the page of the city whose turn it is.  A failed
\* fetch leaves the page of before in resp, which can only be the list of
\* cities, and only in the first turn: resp is cleared after each.
PageIsCurrent ==
  pc = "parse" => resp = count + 1 \/ (resp = 0 /\ count = 0)

\* Outside the copy index.html tells how the last crawl to end went: it is
\* a page alone only if every page was fetched and understood, and without
\* a page exactly if the crawler died, although it exits with 0 either way.
IndexTellsCrawl ==
  pc \notin {"truncate", "copy"} =>
    /\ last = "good" <=> index = CleanPage
    /\ last = "died" <=> ~index.page

\* A crawler that dies has left the table alone: the old rows stay.
DeathSparesTable ==
  pc \in {"truncate", "copy"} /\ last = "died" => table = "kept"

\* What a client is sent never exceeds the size stat gave, nor the file it
\* is sent from.  It is all of the file that stat saw, unless index.html was
\* being copied between stat and sendfile, open or sendfile failed, or the
\* file did not fit into the client's socket, which does not block, and the
\* rest was never sent.
AnswerExplained ==
  \A r \in Readers : rd[r].at = "done" =>
    /\ rd[r].len <= rd[r].size /\ rd[r].len <= Size(rd[r].sent)
    /\ ~rd[r].overlap /\ ~rd[r].failed =>
         rd[r].sent = rd[r].seen /\ (rd[r].len = Size(rd[r].sent) \/ rd[r].len >= SNDBUF)

\* Once the site stays up and crawls are still started, index.html is a page
\* alone again and stays so, but for the moments of its copy.
Recovers ==
  <>[](site = "up") /\ []<>(pc = "list") => <>[](pc # "copy" => index = CleanPage)
=============================================================================
