---------------------------- MODULE WeatherQuery ----------------------------
(***************************************************************************)
(* find_cgi.cpp with sql_connect.cpp and memcache.h: processes that look a *)
(* city up in memcached, then in the table tianqi, and fill memcached; and *)
(* the programs that replace the table meanwhile, weather.cpp and main.cpp *)
(* of htdocs.  MySQL runs one statement at a time.                         *)
(***************************************************************************)
EXTENDS Integers, Sequences, FiniteSets

CONSTANTS
  Queries,      \* find_cgi processes that can run at the same time
  Refreshers,   \* runs of programs that replace the table
  Crawlers,     \* those of weather.cpp; the others are of main.cpp
  Cities,       \* the names that are asked for
  Inserts,      \* Inserts[w]: the keys refresher w inserts, in order
  Stored,       \* the names the table holds at first
  Faults,       \* what may fail: "mysql", "memcached", "crawl", "kill"
  NotFind,      \* "not find"
  None

\* A key of the cache and of the table: a name, or a name followed by "+".
Keys == Cities \X {"", "+"}

\* A row, and also its info: the name it was inserted under and by whom.
Rows == [key : Keys, by : Refreshers \cup {None}]

ASSUME QueryAssumption ==
  /\ Inserts \in [Refreshers -> Seq(Keys)]
  /\ Crawlers \subseteq Refreshers
  /\ \A w \in Crawlers : Inserts[w] = << >>   \* the line that fills city_name is a comment
  /\ Stored \subseteq Keys
  /\ None \notin Refreshers
  /\ {None, NotFind} \cap Rows = {} /\ None # NotFind
  /\ Faults \subseteq {"mysql", "memcached", "crawl", "kill"}

VARIABLES
  table,      \* the table exists
  rows,       \* its rows
  cache,      \* memcached
  qpc,        \* where the query is
  city_name,  \* what it looks for
  conn,       \* begin_connect, and every SELECT since, was not let down by MySQL
  sql_data,   \* the row it has to put into the cache
  answer,     \* what it shows: a row, NotFind, or None so far
  wpc,        \* where the refresher is
  inserted,   \* how many rows it has inserted
  ever,       \* history: the rows that have ever been in the table
  steady      \* history: the keys that have had a row since the query began

db == <<table, rows, ever>>
query == <<qpc, city_name, conn, sql_data, answer>>
refresher == <<wpc, inserted>>
vars == <<db, cache, query, refresher, steady>>

TypeOK ==
  /\ table \in BOOLEAN
  /\ rows \subseteq Rows /\ ever \subseteq Rows
  /\ cache \in [Keys -> Rows \cup {None}]
  /\ qpc \in [Queries -> {"idle", "get", "get+", "select", "select+", "set", "set+", "end", "crashed"}]
  /\ city_name \in [Queries -> Cities]
  /\ conn \in [Queries -> BOOLEAN]
  /\ sql_data \in [Queries -> Rows \cup {None}]
  /\ \A q \in Queries : qpc[q] \in {"set", "set+"} => sql_data[q] \in Rows
  /\ answer \in [Queries -> Rows \cup {None, NotFind}]
  /\ wpc \in [Refreshers -> {"crawl", "drop", "create", "insert", "end", "killed", "killed_dropped"}]
  /\ \A w \in Refreshers : inserted[w] \in 0 .. Len(Inserts[w])
  /\ steady \in [Queries -> SUBSET Keys]

Init ==
  /\ table = TRUE
  /\ rows = {[key |-> k, by |-> None] : k \in Stored}
  /\ ever = rows
  /\ cache = [k \in Keys |-> None]
  /\ qpc = [q \in Queries |-> "idle"]
  /\ city_name \in [Queries -> Cities]
  /\ conn = [q \in Queries |-> FALSE]
  /\ sql_data = [q \in Queries |-> None]
  /\ answer = [q \in Queries |-> None]
  /\ wpc = [w \in Refreshers |-> IF w \in Crawlers THEN "crawl" ELSE "drop"]
  /\ inserted = [w \in Refreshers |-> 0]
  /\ steady = [q \in Queries |-> {}]

May(fault) == fault \in Faults

\* The key in use at a place of the program: city_name, or tmp.
Key(q, place) == <<city_name[q], IF place \in {"get+", "select+", "set+"} THEN "+" ELSE "">>

Present == {row.key : row \in rows}

-----------------------------------------------------------------------------
(* find_cgi *)

\* main up to the construction of mem: begin_connect's result is ignored.
Start(q) ==
  /\ qpc[q] \in {"idle", "end", "crashed"}
  /\ qpc' = [qpc EXCEPT ![q] = "get"]
  /\ \E name \in Cities : city_name' = [city_name EXCEPT ![q] = name]
  /\ \E ok \in {TRUE} \cup (IF May("mysql") THEN {FALSE} ELSE {}) : conn' = [conn EXCEPT ![q] = ok]
  /\ sql_data' = [sql_data EXCEPT ![q] = None]
  /\ answer' = [answer EXCEPT ![q] = None]
  /\ steady' = [steady EXCEPT ![q] = Present]
  /\ UNCHANGED <<db, cache, refresher>>

MemcacheHit(q) ==
  /\ qpc[q] \in {"get", "get+"}
  /\ cache[Key(q, qpc[q])] # None
  /\ answer' = [answer EXCEPT ![q] = cache[Key(q, qpc[q])]]
  /\ qpc' = [qpc EXCEPT ![q] = "end"]
  /\ UNCHANGED <<db, cache, city_name, conn, sql_data, refresher, steady>>

\* A key that is not there, or no memcached at all.
MemcacheMiss(q) ==
  /\ qpc[q] \in {"get", "get+"}
  /\ cache[Key(q, qpc[q])] = None \/ May("memcached")
  /\ qpc' = [qpc EXCEPT ![q] = IF @ = "get" THEN "get+" ELSE "select"]
  /\ UNCHANGED <<db, cache, city_name, conn, sql_data, answer, refresher, steady>>

Matches(q) == {row \in rows : row.key = Key(q, qpc[q])}

\* The first row of the result is shown; among several MySQL may choose.
SelectRow(q) ==
  /\ qpc[q] \in {"select", "select+"}
  /\ conn[q] /\ table
  /\ \E row \in Matches(q) :
       /\ sql_data' = [sql_data EXCEPT ![q] = row]
       /\ answer' = [answer EXCEPT ![q] = row]
  /\ qpc' = [qpc EXCEPT ![q] = IF @ = "select" THEN "set" ELSE "set+"]
  /\ UNCHANGED <<db, cache, city_name, conn, refresher, steady>>

\* Mutant: the second name is not tried.
AfterEmptySelect_GivesUp(q) ==
  /\ qpc' = [qpc EXCEPT ![q] = "end"]
  /\ answer' = [answer EXCEPT ![q] = NotFind]
\* No row: tmp is next, then "not find".
AfterEmptySelect(q) ==
  IF qpc[q] = "select"
  THEN qpc' = [qpc EXCEPT ![q] = "select+"] /\ UNCHANGED answer
  ELSE qpc' = [qpc EXCEPT ![q] = "end"] /\ answer' = [answer EXCEPT ![q] = NotFind]

SelectNothing(q) ==
  /\ qpc[q] \in {"select", "select+"}
  /\ conn[q] /\ table
  /\ Matches(q) = {}
  /\ AfterEmptySelect(q)
  /\ UNCHANGED <<db, cache, city_name, conn, sql_data, refresher, steady>>

\* Without a connection or a table there is no result set:
\* mysql_num_rows(NULL).
SelectCrashes(q) ==
  /\ qpc[q] \in {"select", "select+"}
  /\ ~(conn[q] /\ table)
  /\ qpc' = [qpc EXCEPT ![q] = "crashed"]
  /\ UNCHANGED <<db, cache, city_name, conn, sql_data, answer, refresher, steady>>

\* The SELECT fails although the table is there (a lost connection, a lock
\* that timed out), or its result cannot be stored: the same NULL.
SelectFails(q) ==
  /\ May("mysql")
  /\ qpc[q] \in {"select", "select+"}
  /\ conn' = [conn EXCEPT ![q] = FALSE]
  /\ qpc' = [qpc EXCEPT ![q] = "crashed"]
  /\ UNCHANGED <<db, cache, city_name, sql_data, answer, refresher, steady>>

\* Mutant: the row of tmp is stored under city_name.
MemcacheSet_PlainName(q) ==
  /\ qpc[q] \in {"set", "set+"}
  /\ cache' = [cache EXCEPT ![<<city_name[q], "">>] = sql_data[q]]
  /\ qpc' = [qpc EXCEPT ![q] = "end"]
  /\ UNCHANGED <<db, city_name, conn, sql_data, answer, refresher, steady>>
MemcacheSet(q) ==
  /\ qpc[q] \in {"set", "set+"}
  /\ cache' = [cache EXCEPT ![Key(q, qpc[q])] = sql_data[q]]
  /\ qpc' = [qpc EXCEPT ![q] = "end"]
  /\ UNCHANGED <<db, city_name, conn, sql_data, answer, refresher, steady>>

MemcacheSetFails(q) ==
  /\ May("memcached")
  /\ qpc[q] \in {"set", "set+"}
  /\ qpc' = [qpc EXCEPT ![q] = "end"]
  /\ UNCHANGED <<db, cache, city_name, conn, sql_data, answer, refresher, steady>>

\* Mutant: a time of 0, with which entries never expire.
Expires_Never == FALSE
\* time is 3600*24, a day.
Expires == TRUE

\* memcached drops an entry that has expired, or to make room.
Expire(k) ==
  /\ Expires
  /\ cache[k] # None
  /\ cache' = [cache EXCEPT ![k] = None]
  /\ UNCHANGED <<db, query, refresher, steady>>

-----------------------------------------------------------------------------
(* weather.cpp and main.cpp, from their pages to the table *)

\* The table changes; a key that loses its row is not steady any more.
Becomes(exists, content) ==
  /\ table' = exists
  /\ rows' = content
  /\ ever' = ever \cup content
  /\ steady' = [q \in Queries |-> steady[q] \cap {row.key : row \in content}]

Goes(w, place) == wpc' = [wpc EXCEPT ![w] = place]

\* Every page was fetched and parsed.
Crawl(w) ==
  /\ wpc[w] = "crawl"
  /\ Goes(w, "drop")
  /\ UNCHANGED <<db, cache, query, inserted, steady>>

\* A page that could not be fetched is a NULL pointer, and SIGSEGV exits.
CrawlFails(w) ==
  /\ May("crawl")
  /\ wpc[w] = "crawl"
  /\ Goes(w, "end")
  /\ UNCHANGED <<db, cache, query, inserted, steady>>

\* Mutant: the table is dropped last.
DropNext_Last == "end"
DropNext == "create"

delete_table(w) ==
  /\ wpc[w] = "drop"
  /\ Becomes(FALSE, {})
  /\ Goes(w, DropNext)
  /\ UNCHANGED <<cache, query, inserted>>

\* It fails, which nobody notices, if the table is there again.
creat_table(w) ==
  /\ wpc[w] = "create"
  /\ Becomes(TRUE, rows)
  /\ Goes(w, "insert")
  /\ UNCHANGED <<cache, query, inserted>>

\* It fails, which nobody notices either, if the table has gone.
insert_sql(w) ==
  /\ wpc[w] = "insert"
  /\ inserted[w] < Len(Inserts[w])
  /\ inserted' = [inserted EXCEPT ![w] = @ + 1]
  /\ Becomes(table, IF table THEN rows \cup {[key |-> Inserts[w][inserted[w] + 1], by |-> w]} ELSE rows)
  /\ UNCHANGED <<cache, query, wpc>>

RefreshEnds(w) ==
  /\ wpc[w] = "insert"
  /\ inserted[w] = Len(Inserts[w])
  /\ Goes(w, "end")
  /\ UNCHANGED <<db, cache, query, inserted, steady>>

\* The program is stopped, or loses MySQL, between two statements (or never
\* got a connection, which nobody notices).
Killed(w) ==
  /\ May("kill")
  /\ wpc[w] \in {"drop", "create", "insert"}
  /\ Goes(w, IF wpc[w] = "create" THEN "killed_dropped" ELSE "killed")
  /\ UNCHANGED <<db, cache, query, inserted, steady>>

-----------------------------------------------------------------------------
QueryStep(q) ==
  \/ MemcacheHit(q) \/ MemcacheMiss(q) \/ SelectRow(q) \/ SelectNothing(q)
  \/ SelectCrashes(q) \/ SelectFails(q) \/ MemcacheSet(q) \/ MemcacheSetFails(q)

RefreshStep(w) ==
  \/ Crawl(w) \/ CrawlFails(w) \/ delete_table(w) \/ creat_table(w)
  \/ insert_sql(w) \/ RefreshEnds(w) \/ Killed(w)

Next ==
  \/ \E q \in Queries : Start(q) \/ QueryStep(q)
  \/ \E k \in Keys : Expire(k)
  \/ \E w \in Refreshers : RefreshStep(w)

\* A query that was started runs on, and an entry that nobody replaces
\* expires after a day.  Nobody has to ask or to refresh.
Fairness ==
  /\ \A q \in Queries : WF_vars(QueryStep(q))
  /\ \A k \in Keys : WF_vars(Expire(k))

Spec == Init /\ [][Next]_vars
FairSpec == Spec /\ Fairness

-----------------------------------------------------------------------------
(* Safety *)

\* Whatever is answered or cached was in the table at some time, under the
\* very key it is kept under, and the answer is about the city asked for,
\* however queries, refreshes and late fills of the cache interleave.
Provenance ==
  /\ \A k \in Keys : cache[k] # None => cache[k] \in ever /\ cache[k].key = k
  /\ \A q \in Queries : answer[q] \in Rows =>
       answer[q] \in ever /\ answer[q].key[1] = city_name[q]

\* A city whose row stays in the table while the query runs is found: the
\* four look-ups are not atomic, but only a refresh that takes the row away
\* in between makes a query end with "not find", and only that or a failure
\* of MySQL makes it end with a crash.
SteadyIsFound ==
  \A q \in Queries :
    \/ qpc[q] = "crashed" /\ conn[q]
    \/ qpc[q] = "end" /\ answer[q] = NotFind
    => {<<city_name[q], "">>, <<city_name[q], "+">>} \cap steady[q] = {}

\* However many refreshers drop and create at the same time, once they are
\* through there is a table, unless one was stopped just after its drop.
TableSurvives ==
  ~table => \E w \in Refreshers : wpc[w] \in {"create", "killed_dropped"}

-----------------------------------------------------------------------------
(* Liveness *)

Quiet == \A w \in Refreshers : wpc[w] \in {"end", "killed", "killed_dropped"}

\* A query that was under way while the table was replaced may put a row of
\* the old table into the cache after the refresh.  Once no more refreshes
\* come this passes: in the end the cache holds nothing but rows of the
\* table, which after a run of weather.cpp alone is nothing at all.
CacheConverges ==
  Quiet ~> [](\A k \in Keys : cache[k] # None => cache[k] \in rows)
=============================================================================
