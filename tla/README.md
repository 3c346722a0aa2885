# A TLA+ model of the weather query server

The repository is a small HTTP server (`httpd.c`) that answers weather queries
through a CGI program (`cgi_bin/find_cgi.cpp`) backed by memcached and MySQL; a
crawler (`htdocs/weather.cpp`) fills the database.  This directory holds the
specifications, the TLC configurations and the TLAPS proofs about it.

## 1. The system

| component | state | operations | talks to |
|---|---|---|---|
| thread pool, `threadpool.c` | mutex, condition variable, LIFO list, `queue_size`, `shutdown`, `thread_count`, `start_size` | `threadpool_init`, `threadpool_add`, `threadpool_destroy`, `threadpool_worker` | called by `main`; its workers run `accept_request` |
| event loop, `httpd.c` `main`, `epoll.c` | listen socket, epoll instance, array `events` | `epoll_wait`, accept loop, hand descriptors to the pool, close on error | kernel, pool |
| request handling, `httpd.c` | one socket per request, local buffers | `get_line`, `accept_request`, `clear_header`, `echo_html`, `exe_cgi` | client, file system, CGI child |
| CGI execution, `exe_cgi` | two pipes, a child, environment | pipe, fork, exec, copy, wait | other workers' children (inherited pipe ends) |
| socket helpers, `commsocket.c` | – | listen socket, framed send and receive with timeouts | only `Server_init` and `activate_nonblock` are called |
| weather query, `find_cgi.cpp`, `sql_connect.cpp`, `memcache.h` | memcached entries, table `tianqi` | look up `city` and `city+` in the cache, then in the table, then fill the cache | memcached, MySQL |
| crawler, `weather.cpp`, `run.sh`, `main.cpp` | table `tianqi`, `result.html`, `index.html` | fetch pages, list names, drop, create, insert, print the page, copy it | the web site, MySQL, the queries and the server running meanwhile |
| `memorypool.*` (empty), scripts, `http_load`, `lib`, `mysql_lib` | | | third-party or without state |

What is hard in it: the handshake between `threadpool_add` and sleeping
workers; shutdown against threads that sleep, run or are just being created;
two error returns that keep the mutex; descriptor numbers that travel from
epoll through an array and a list to a worker while others close and reopen
numbers; edge-triggered and one-shot events; non-blocking reads of requests
that arrive in pieces; clients that stall, hang up or reset; children that
inherit each other's pipes and sockets; bodies and answers on sockets that do
not block; the crawler replacing the table and `index.html` under those who
read them, and going on, or dying with success, when the site fails; and two
programs that must spell a city's name alike.  `PROJECT.json` lists these hazards line by line.

What makes each part correct: the pool runs each task once and loses none
(unless told to), and ends; the server keeps one owner per descriptor, closes
what it has answered and strands nobody; a CGI request ends with its child
reaped and its pipes closed, and its answer is the program's output (unless
there is no program to run); a query
answers with the row of the city asked; a fetched page is whole and inside its
buffer; `index.html` is a page again after failed crawls.

## 2. Modules

    TaskPool            what the pool promises
      ^ refined by          ^ used within
    ThreadPool            HttpServer ---- exe_cgi in detail -----> CgiRequest
                              '---------- get_line in detail ----> RequestReader

    WeatherQuery          WeatherCrawler -- a fetch in detail ---> HttpFetch
                              '------------ names of cities -----> CityNames

The proofs about `M` are in `MProof`, for every `M` but `TaskPool`.
All but `TaskPool` have an `MC` module with their instances for TLC.

**TaskPool** is the contract of `threadpool.h`: tasks are submitted while the
pool is open, started once by an idle worker, finished; closing is graceful or
immediate; only an immediate close discards, and only when nobody is busy.

**ThreadPool** models all of `threadpool.c`.  Its variables are the fields of
`threadpool_t`, the list (`queue`, first node first), the holder of the mutex
(`lock`), and the places of the workers (`wpc`, `task`) and of the threads
that call the API (`cpc`).  One action is one critical section or one step
outside the lock; `pthread_cond_wait` releases and sleeps in one step, and
waking up means competing for the mutex again.

| code | actions |
|---|---|
| `threadpool_init` | `InitAlloc`, `InitCreate`, `InitCount`, `InitDone`; `InitAllocFails`, `InitCreateFails` |
| `threadpool_add` | `AddCall`, `LockPool`/`LockRefused`, then `AddTask`, `AddRefused` or `AddMallocFails` |
| `threadpool_destroy`, `threadpool_free` | `DestroyCall`, `LockPool`/`LockRefused`, then `DestroyBegin`, `DestroyJoin`, `DestroyFree`, or `DestroyAgain` |
| `threadpool_worker` | `WorkerLock`, then `WorkerWait`, `WorkerExit` or `WorkerTake`; `WorkerFinish`; `SpuriousWakeup` |

`AddMallocFails` and `DestroyAgain` return without unlocking, as the code does.
The mutex and condition variable calls themselves are taken to succeed, except
that a destroyed mutex refuses to be locked, and that destroying a locked one
leaves it alive (pool state `"freed"`).

**HttpServer** models `main` and `accept_request` with the kernel objects they
share: the listen queue, the descriptor table, and the epoll instance as the
set of ready entries (`epoll_wait` fills the array with any of them in any order,
which covers the kernel's list) and the set of entries that can still fire.  Every
descriptor in the event array, in the pool's list and in a worker is paired
with the connection it was issued for; the code has only the number, so the
pair is used by properties alone, while reads and closes go through `table`.
Numbers are allocated arbitrarily among the free ones, because pipes and files
of other requests come and go.  A request is three pieces (the beginning of
its first line, the rest of that line, the headers with the blank line), which
is what the reads of `get_line` and `clear_header` can tell apart.  `Route`
takes the decisions of `accept_request` on how the method compares with GET
and POST (the code compares with `<`), the `?` of a GET, and what `stat` says of
the path; `exe_cgi` is abstracted to its outcomes, one of which is that its
program never ends.  `Faults` names the calls that may fail: `accept`,
`epoll_wait`, `threadpool_init` (after which main goes on, and `threadpool_add`
refuses every request because `tp` is NULL), the `malloc` of `threadpool_add`
(which returns with the pool's mutex locked, `tp = "locked"`: no worker takes a
task again, and main blocks in its next call), `open`, `pipe` and `fork`; and
`"program"`, a program that does not end.

| code | actions |
|---|---|
| `main`, loop | `My_epoll_wait`, `EpollWaitFails`, `DispatchListen`, `DispatchError`, `DispatchRequest`, `Exit` |
| `main`, accept loop | `Accept`, `AcceptDrained`, `AcceptFails` |
| `accept_request` | `WorkerTake`, `RejectRequest`, `RouteRequest`, `ClearHeader`, `NotFound`, `echo_html`, `exe_cgi`, `ProgramHangs`, `SigPipe`, `FinishRequest` |
| clients (external) | `Connect`, `Send`, `Leave`, `Reset` |

**CgiRequest** is `exe_cgi` with its child, run for several requests at a
time in one process.  `open[r][e]` is the set of processes that hold end `e` of
request `r`: `fork` copies all of the server's ends, other requests' included,
since nothing is close-on-exec.  Pipes have a capacity, the client's socket
does not block in either direction, and bytes are numbered, so that a lost and
a repeated byte can be told apart.  A byte of the server's log is 0: a child
whose `execl` fails calls `exit`, which writes what the server's stdio buffer
held at the fork to its stdout, the pipe (`ExeclFails`).  How much that is
depends on where stdout goes: at least the text behind the last line end, and
up to a whole buffer if it is not a terminal; `Log` bounds it, by the size of the
pipe, which is larger than the buffer in fact.  Two pipes never mix, since a
worker reads its own; a byte of another request is not represented.

| code | actions |
|---|---|
| `exe_cgi`, worker | `Headers`, `PipeIn`, `PipeOut`, `PipeOrForkFails`, `Fork`, `ParentCloses`, `PostRecv`, `PostWrite`, `CopyByte`, `CopyEnds`, `WaitPid`, `SigPipe`; `CloseClient` in `accept_request` |
| `exe_cgi`, child | `ChildSetup`, `ChildExec`, `ChildCrashes` (the `sprintf` with `%s`), `ExeclFails` |
| the program | `FindCgi`, `ChildBody`, `ChildExit`; `Filter`, an external program that reads its input to the end |

**RequestReader** is `get_line` byte by byte, called by `clear_header`, over
texts of letters, CR and LF that arrive in pieces.  The lines it returned are
kept as their text (`out`) and the places where they end (`ends`).  `Rank` says
where a character of the text belongs in `out`: behind as many as come before it
and are not the LF of a CR LF.

**WeatherQuery** is `find_cgi` from the connection to MySQL to its answer, with
`select_sql`, `MemcacheGet` and `MemcacheSet`, beside the programs that replace
the table.  A row is its key and who inserted it.  `ever` and `steady` are
histories: the rows there have ever been, and the keys that have had a row
since a query began.

| code | actions |
|---|---|
| `find_cgi.cpp` | `Start`, `MemcacheHit`, `MemcacheMiss`, `SelectRow`, `SelectNothing`, `SelectCrashes`, `SelectFails`, `MemcacheSet`, `MemcacheSetFails` |
| `weather.cpp`, `main.cpp` | `Crawl`, `CrawlFails`, `delete_table`, `creat_table`, `insert_sql`, `RefreshEnds`, `Killed` |
| memcached (external) | `Expire` |

**CityNames** is the pair of functions that must agree on a key,
`UncodeTostr` with `find_resource` in the crawler and `find` with `ParseStr` in
`find_cgi`.  A name is a sequence of bytes, a byte two hexadecimal digits.  What
a browser sends is a sequence of characters, of which the digits and A to F
look like those of a byte.  Names may have any length.  Two arrays bound what is
defined: `buf[20][30]` of `UncodeTostr`, which a name of more than `BUF` bytes
overruns (the list page in `htdocs` has one, 乌鲁木齐牧试站 with 21 bytes, on its
line 2475): the crawler dies (`OverrunCrashes`) or goes on; and `str[33]` of `find_cgi`, into
which `find` copies the query: three characters a byte, so that a name of eleven
bytes that are not ASCII does not fit (乌鲁木齐 has twelve, 36 characters).  What
such a query asks for is not defined, and the properties speak of names with
room in both (`HasRoom`).

**HttpFetch** is `GetHttpResponse`: the calls that open the connection, the
receive loop and its growing buffer.  `SZ` is an `int`: the doubling that would
take it beyond `INT_MAX` makes `realloc` fail, and the program ends.

**WeatherCrawler** is a whole run of `run.sh`: the list of cities, the loop
over their pages, the table, the page on stdout, and its copy over
`index.html`, which `echo_html` serves meanwhile.  A file is the number of
messages in it and whether the page follows.  `open` and `sendfile` may fail
(`EchoFails`), and a socket that does not block takes a part of the file only, at
least `SNDBUF` bytes of it (`Accepted`).

Definitions named `X_Something` with a comment "Mutant" are faulty variants of
`X` that no specification uses; `PROJECT.json` says which property each breaks.

## 3. Runs

| run | checks | shows |
|---|---|---|
| `pool_api` | `NoLostWakeup`, `CounterMatchesList`, `TaskOwnedOnce`, `QuiescentAtFree`, `GracefulDrains`, `ImplementsTaskPool` | safety of the pool and refinement with two API threads, double destruction and failing calls |
| `pool_server` | `QuietDrain`, `ShutdownCompletes` | used as in `httpd.c`, tasks drain once arrivals pause and shutdown ends |
| `pool_starvation` | `EveryTaskRuns` violated | the list is a stack; an old task may wait for ever |
| `pool_malloc` | `QuietDrain` violated | a failed `malloc` leaves the mutex locked |
| `server_fds` | `TypeOK`, `DescriptorsAreCurrent`, `OneOwner`, `NoStrandedBacklog` | three connections on two descriptors: reuse and exhaustion |
| `server_live` | `LeaksExplained`, `VerdictThenClose`, `UsesPoolAsPromised`, `CarefulServed` | every failing call, programs that hang and a careless client: which descriptors stay open, a request gets one verdict and is closed after it, the pool is used within `TaskPool`, the only reasons for which a well-behaved client gets no verdict |
| `cgi` | `TypeOK`, `AnswerFaithful`, `BodyFaithful`, `NothingLeftBehind`, `EndOfOutputIsEnd`, `ResponseEnds` | two CGI requests side by side, of any method and program, with failing calls |
| `request_lines` | `TypeOK`, `NothingLost`, `LinesMatch`, `HeaderCleared` | every text of up to six characters in every division into pieces, with lines that fill the buffer exactly and overfill it |
| `query` | `Provenance`, `SteadyIsFound`, `TableSurvives`, `CacheConverges` | two queries beside `weather` and `main`, each of which may fail or be stopped |
| `city_names` | `KeyAgrees`, `MapHonest` | which names are listed under the key that is asked for, among names that fit and names that overrun one array or both |
| `fetch` | `TerminatorFits`, `WholeUnlessBroken`, `Returns` | pages of 0 to 50 bytes in every division, with a buffer that starts at 6 and an int of at most 63 |
| `crawl` | `PageIsCurrent`, `IndexTellsCrawl`, `DeathSparesTable`, `AnswerExplained`, `Recovers` | crawl after crawl against a site that fails at any page, with a client at any time |

Bounds.  Pool: three workers, because two must compete while a third sleeps;
four task nodes, so that the list holds one more task than there are workers.
`RoomForTask` stops a caller when all nodes are in use.  The violation runs use
the smallest pool that shows the behaviour.  Server: two workers, two or three
connections, an event array of one or two entries, so that it overflows; the
listen queue is as long as there are connections.  `cgi`: two requests, since
inheritance takes one to fork while the other has pipes open; a body and an
output of two bytes over pipes of one, so that both sides block; a byte of log;
one client is prompt, the other may be as slow as it likes.  A POST without a
body is left to the methods that are neither GET nor POST, which take the same
steps.  `query`: two cities, one stored
under its name and one with `+`; two queries, so that one fills the cache the
other reads.  `fetch`: the sizes 4096 and 100 are scaled to 6 and 2; three
doublings happen, and a fourth would need more than an int.  `crawl`: `LIMIT` is 1 instead of 150 and the list has up to
three cities, so that the loop ends both ways.  `city_names`: pages of four
names, among them longer and shorter ones, ones with a digit f, a blank, and ASCII
characters that look like the digits of a byte; with `BUF` 3 and `STR` 9 the
names of three bytes overrun `str`, and one of four overruns `buf`.
`PAGE_MAX` and `MAP_MAX` bound inputs; no counter is capped.  Symmetry (of
tasks, descriptors, workers, careless connections) is used in `pool_api` and
`server_fds` only, which have no liveness properties.

Deadlock is checked in `pool_server`, `query` and `crawl`.  The other runs
switch it off: a mutex left locked stops everybody, the process may be killed,
a program may wait for ever, every client has gone home, or the call returns.

Fairness.  Weak fairness of each thread and process: the operating system
schedules what can run.  In the pool it covers `WorkerFinish`, that is, it
supposes that the functions given to the pool return; `HttpServer` shows when
they do not (`clear_header` on a stalled client, `exe_cgi` with a program that
does not end, for which no fairness is assumed).  Nobody is made to call the
API, no call is made to fail, and wakeups need not be spurious; `QuietDrain`
and `EveryTaskRuns` suppose that spurious wakeups end some day, since a thread
that is woken spuriously for ever can keep taking the mutex.  In `HttpServer`
a careful client does send its request.  In `CgiRequest` workers and children
run on, clients owe nothing.  In `WeatherQuery` queries that were started run
on, and entries expire, since `memcache` stores them for a day; refreshers may
stop anywhere.  In `HttpFetch` and `RequestReader` the reader runs on and
the peer owes nothing: that it closes, or that the text arrives, is a premise of
`Returns` and `HeaderCleared`.  In `WeatherCrawler` a crawl that has begun goes
on; that crawls are started and the site stays up is a premise of `Recovers`.

What the runs say about the code that its authors may not expect:

* Requests that are rejected (also: a client that connects and leaves), not
  found or refused by the pool are never closed; `LeaksExplained` says that
  these are the only ones.
* `NoStrandedBacklog` has an exception for an accept loop that ended with an
  error: connections then wait in the listen queue until someone else connects.
* `CarefulServed` lists what leaves a client without a verdict that has sent its
  whole request and waits.  The process ends: SIGPIPE when another client leaves
  during its answer, or a failed `epoll_wait`.  Or for ever: a failed `accept` has
  left it in the listen queue and nobody else connects, a failed `malloc` has left
  the pool's mutex locked, its own program does not end, or every worker is
  with a program that does not end or a client that has stalled.  (After a failed
  `threadpool_init` main goes on, and every request is refused, which is a
  verdict.)  Each reason but the last is met on the instance of the run; the last
  takes as many such clients as there are workers.  The run has finitely many
  clients.  With arrivals without end the last-in-first-out list may pass over a
  client for ever, which is what `pool_starvation` shows.
* A second `threadpool_destroy` keeps the mutex (`DestroyAgain`); nothing is
  freed too early by it, but workers that have not left yet never get the
  mutex, and the first call waits for them.
* `ResponseEnds` has an exception for programs that read their input to its
  end: the server closes it only after the program's output has ended.  Such a
  program also holds the sockets of the clients whose requests were under way
  when it was forked, and their answers do not end either.
* `AnswerFaithful`: a client whose path is not a program that can be run (a page
  asked for with a query) may be sent lines of the server's log instead, which
  may be about other clients.
* `BodyFaithful`: a byte of a POST body that is late makes the byte before it
  appear again, because the failed `recv` is not noticed.  A POST never reaches
  `find_cgi`'s query: nobody sets CONTENT_LENGTH.
* `NothingLost`: a CR whose LF arrives later counts as two line ends, so that
  the headers may be taken to end early.
* `HeaderCleared`: a line that fills `get_line`'s buffer exactly leaves its line end
  to the next call, which takes it for the blank line; the headers behind it
  are not read.  A `recv` that finds nothing is the only other reason to stop early.
* `KeyAgrees`: a city is listed under the key its query asks for exactly if its
  bytes are not ASCII and have no digit f, as long as no longer name came before
  it.  After a longer one it is not, since `cityname` is not cleared.  One
  exception is possible: `UncodeTostr` leaves ASCII characters out, and what is
  left of the longer name may by chance be what the browser sends for them.  This
  is said of names both programs have room for: with the sizes of the code a name
  of Chinese characters must not have more than three.
* `weather.cpp` as it stands inserts nothing, so a crawl empties the table;
  `CacheConverges` then says that the cache becomes empty too.
* `IndexTellsCrawl`: a failed crawl does replace `index.html`, by messages.
  `Recovers` says that a later good one repairs it.
* `AnswerExplained`: a client whose request overlaps the copy may get a page
  that is empty or cut at the size of the old one; and one whose socket is full
  never gets the rest, since `sendfile` is called once.

## 4. Proofs

`ThreadPoolProof` proves, for every `thread_num`, every set of callers,
destroyers and tasks and every choice of failing calls allowed by
`PoolAssumption` (at least one worker; the initialising thread is a caller;
callers, workers and `None` differ):

* `TypeCorrect`, `WakeupsAreNotLost`, `CounterIsExact`, `TasksHaveOneOwner`,
  `FreedWhenQuiescent`, `GracefulShutdownDrains`: `TypeOK` and the five
  invariants of `pool_api`;
* `Refinement`: `Spec => ImplementsTaskPool`.

The argument.  None of the properties is inductive alone.  `IInv` adds three
layers: `Phases` (where callers can be in each stage of the pool's life: at
most one thread joins or frees, nobody is in the API before the pool is open,
a raised flag outlives `threadpool_init`), `Counts` (a worker exists iff its
number is at most `thread_count`, plus one while the creator has not counted
it; `start_size` is the number of threads that have not left; only a running
worker holds a task) and `ListCounted` (the counter equals the length of the
list, or the list has been freed).  Each layer has its own step lemma, relative
to the layers before it, with one step per action.  `NoLostWakeup` then follows by
counting: a task added while someone sleeps turns one sleeper into a seeker, a
task taken removes one seeker, and a worker goes to sleep only on an empty
list.  The refinement maps the list to the set of its nodes; `TaskOwnedOnce`
makes `Submit` and `Start` legal, `QuiescentAtFree` and `GracefulDrains` make
`Discard` legal or empty.  `IInv` was checked with TLC on the instance of
`pool_api` before it was proved.

`HttpFetchProof` proves `FetchTypeCorrect`, `NulInsideBuffer` and
`PagesAreWhole` for every first size, margin, page length and width of int
with 0 < MARGIN <= START <= INT_MAX (`FetchAssumption`).  The invariant: what is counted is
what is allocated, recv is called and the loop left only with MARGIN bytes free
(doubling a buffer of at least MARGIN bytes restores that), and a last return
value of 0 means that the page is complete, because recv had room.

`WeatherQueryProof` proves `QueryTypeCorrect`, `AnswersHaveProvenance`,
`SteadyCitiesAreFound` and `TableIsLeft` for any sets of queries, refreshers and
cities and any failures (`QueryAssumption`).  The invariant adds that no table
means no rows and that what a query counts as steady is present (`TableSound`), that a row on its
way to the cache belongs to the key it will be stored under (`FillSound`), and
that a query at its second name has missed the first (`FirstMissed`).

`HttpServerProof` proves the five invariants of `server_fds` and `server_live`,
the action property `VerdictThenClose` and the use of the pool, for any sets of connections, descriptors and workers,
any `MAX_EVENTS` and any failures (`ServerAssumption`): `ServerTypeCorrect`,
`DescriptorsStayCurrent`, `DescriptorsHaveOneOwner`, `BacklogIsAnnounced`,
`OnlyKnownLeaks`, `OneVerdict`, and `PoolIsUsedAsPromised`, which is `Spec =>
UsesPoolAsPromised`.  The places that hold a descriptor are the epoll set, the
event array, the pool's list and the workers.  `Exclusive` says that no two of
them hold the same one, which a one-shot event keeps so: `epoll_wait` takes it
out of the epoll set as it puts it into the array.  Only with that is `Current`
inductive (what a place holds denotes the connection it was issued for): a
close by one thread would otherwise invalidate what another holds.  `Placed`
adds that a connection is in the listen queue or behind one descriptor,
`Accounted` that an open descriptor is held or its request given up, and
`Announced` that a waiting connection has an event to come.  `OneOwner` counts
the places of a descriptor; it follows from `Exclusive` because each of the
counted sets then has one element at most, and only one of them has one.
`OneVerdict` rests on a second invariant, `Undecided`, inductive relative to the
first: a request has no verdict before the place that holds its descriptor has
come to one, and has one when a worker is about to close it.  `Effect` sums up
what any step does to that: it gives at most one verdict, on a request that
waits for one, after which nobody but a worker about to close has it.

`CgiRequestProof` proves the five invariants of `cgi` for any number of
concurrent calls, any size of pipe, output and body and any failures
(`CgiAssumption`): `CgiTypeCorrect`, `AnswersAreFaithful`, `BodiesAreFaithful`,
`ReturnsAreClean`, `EndsAreEnds`.  The invariant speaks of one call at a time.
`Stage` relates the places of worker and child; `EndsHeld` says which ends the
server holds at each place, and that a running child holds the write end of its
output; `Copied` relates the answer to what was produced and is still in the
pipe, and says that a call whose `execl` failed had produced nothing before; `Relayed` relates what was fed to the last byte received.  That a fork or an
exit of another call changes who holds this call's ends, but neither what the
server nor what this call's own child holds of it, is the lemma `Others`: it is
why inheritance across calls delays the end of an answer and never falsifies it.
`EndMeansEnded` is the heart of it: read returns 0 only when no copy of the
write end is open, so the child, which holds one while it runs, has ended.

`RequestReaderProof` proves the three invariants of `request_lines` for every
set of texts of any length and every `max_len` above 1 (`ReaderAssumption`):
`ReaderTypeCorrect`, `NothingIsLost`, `LinesAreTheTexts`.  Lines are defined by
ranks, that is by the cardinality of a set, rather than by a recursion over the
text, so that a step needs only how the rank of the next character relates to
that of the last (`RankNext`).  The invariant: each stored character stands at
its rank (`Placed`), every rank is taken (`Onto`), a LF left behind by its CR was
late (`Split`), `buf` has room (`Room`); and while nothing was late and no line
too long, `buf` has no LF but its last character (`Line`), the cuts are the
line ends (`Cut`) and no blank line was passed (`Blanks`).  A last line
without an end is the exception that makes `Cut` inductive: it exists only at
the end of the text.

`WeatherCrawlerProof` proves the four invariants of `crawl` and `TypeOK` for
every `LIMIT`, every number of cities and any set of readers
(`CrawlAssumption`): `CrawlTypeCorrect`, `PagesAreCurrent`, `IndexTells`,
`DeathsSpareTable`, `AnswersAreExplained`.  The invariant says what a turn of the
loop has left (`Turn`: an untouched table, an empty `resp` but in the first turn,
two messages a turn at most), which file tells how the last crawl to end went
(`Told`: `result.html` during the copy, else `index.html`), and what a reader
between `stat` and `open` knows (`Seen`).

`CityNamesProof` proves both properties of `city_names`, `KeysAgree` and
`MapIsHonest`, for every set of names and pages of any
length and all sizes of the two arrays (`NamesAssumption`); both speak of names
that have room.  The induction theorems of the library take an operator as a parameter,
which no installed prover can instantiate; but that a set of natural numbers has
a least element is a statement about sets (`WFMin`), and gives an induction in
which the property is a set (`Induction`).  With it `FlattenSeq`, a function
defined by recursion, is shown to exist and to be what its recursion says
(`JoinsExist`, `FlattenNext`), and then, byte by byte: what is asked for is
what is shown of the bytes (`AskedIsShown`); it is what is written if the name is
plain (`PlainAgrees`), longer with an ASCII character (`NameFacts`), and has a
digit f, which is never written, if the name has one (`FIsShown`); and a plain
name can be read off its key (`PlainPositions`), so that no two share one
(`PlainInjective`).  The invariant of the steps says that the buffer is as long
as the longest name so far and begins with the last (`Longest`, `Begins`), and
that on a page of growing plain names each entry has the key of the name it
points to (`Mapped`).

The inductive invariant of each module was checked with TLC on the instances of its runs before
it was proved.

Only model-checked, and why:

* the liveness properties (`QuietDrain`, `ShutdownCompletes`, `CarefulServed`,
  `ResponseEnds`, `CacheConverges`, `Returns`, `Recovers`, `HeaderCleared`):
  fairness is beyond the prover;
* that `HttpServer` and its parts in detail (`CgiRequest`, `RequestReader`) agree
  is by construction of their interfaces, and no run or proof covers it.

## 5. Plan

Every invariant and action property that a run checks is also proved.  What
would be next:

1. A common specification of a request's life that `HttpServer` and `CgiRequest`
   both refine, so that the interface between them is checked too.
2. `HttpServer` over `ThreadPool` itself instead of `TaskPool` with a list, and
   clients without end, so that the overtaking in the list shows in `CarefulServed`.

## Not modelled

* Third-party code: `lib` (libevent, libmemcached, memcached), `mysql_lib`,
  `http_load`.  It makes up nearly all lines of the repository; what the
  program uses of it is modelled as the environment (`Expire`, a MySQL that runs one
  statement at a time).
* `commsocket.c` beyond `Server_init` and `activate_nonblock`: no program calls
  its framed send and receive, and the two calls that are used only set up the
  initial state.
* `memorypool.c` and `.h` are empty; the shell scripts start and stop processes.
* The HTML that `find_cgi` and `weather.cpp` print, and how dates and degrees
  are cut out of a page, which is reduced to whether it succeeds.
* Functions that nothing calls (`prase`, `wea_cmp`, `SaveToSql`, `MemcacheDel`,
  `My_epoll_mod`, `My_epoll_del`), the earlier version `weather_1.cpp`, and the
  test drivers beside `memcache.h`.
* Two runs of `run.sh` at the same time: nothing in the repository starts them so.
* Paths, file modes and the strings of the environment, beyond what the
  decisions taken on them tell apart.
