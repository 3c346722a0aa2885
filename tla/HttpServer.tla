----------------------------- MODULE HttpServer -----------------------------
(***************************************************************************)
(* httpd.c: the epoll loop of main, the requests that the pool's workers   *)
(* serve (accept_request), and the kernel objects both share: the listen   *)
(* queue, the descriptor table and the epoll instance.                     *)
(*                                                                         *)
(* The pool appears through what threadpool_add and the workers do to its  *)
(* list; ThreadPool models its inside.  A request is three pieces of text: *)
(* 1, the beginning of the request line; 2, the rest of it with its line   *)
(* end; 3, the header lines with the blank line that ends them.            *)
(***************************************************************************)
EXTENDS Integers, Sequences, FiniteSets, SequencesExt

CONSTANTS
  Conns,      \* the connections clients open
  Careful,    \* those whose client sends its request in one piece and waits
  FDs,        \* descriptors the process may have open for connections
  Workers,    \* the threads of the pool
  MAXEVENTS,  \* the size of the array given to epoll_wait
  Faults,     \* calls that may fail, and "program": a CGI program may never end
  Listen,     \* listenfd
  None

\* Descriptors travel with the connection they were issued for, which the
\* code does not know: it only has the number.
Jobs == [fd : FDs, conn : Conns]

ASSUME ServerAssumption ==
  /\ Careful \subseteq Conns
  /\ MAXEVENTS \in Nat \ {0}
  /\ Listen \notin FDs
  /\ None \notin Conns \cup FDs \cup Jobs
  /\ IsFiniteSet(FDs)       \* a process has a limit of open files
  /\ IsFiniteSet(Workers)
  /\ Faults \subseteq {"accept", "epoll_wait", "threadpool_init", "malloc", "open", "fork", "program"}

VARIABLES
  peer,        \* the client's end: "away", "up", "closed" (FIN) or "reset"
  sent,        \* pieces of its request that have arrived
  got,         \* pieces the server has read
  backlog,     \* connections waiting in the listen queue
  table,       \* the descriptor table
  armed,       \* descriptors whose epoll entry can still fire
  ready,       \* what is on epoll's ready list, in no order the code relies on
  mpc,         \* where main is
  batch,       \* events[i .. activenum - 1]
  accept_err,  \* the last accept loop ended with an error other than EAGAIN
  tp,          \* the pool as main sees it: "open", "NULL", "shutdown", or "locked" for good
  pending,     \* the pool's list, first node first
  wpc,         \* where each worker is in accept_request
  job,         \* what the worker was given
  outcome      \* what became of the connection's request

client == <<peer, sent>>
kernel == <<backlog, table, armed, ready>>
loop == <<mpc, batch, accept_err>>
pool == <<tp, pending>>
workers == <<wpc, job>>
vars == <<client, got, kernel, loop, pool, workers, outcome>>

Events == [fd : FDs \cup {Listen}, conn : Conns \cup {None}, err : BOOLEAN]
Outcomes == {"none", "error", "refused", "rejected", "missing", "answered", "empty", "silent"}

TypeOK ==
  /\ peer \in [Conns -> {"away", "up", "closed", "reset"}]
  /\ sent \in [Conns -> 0 .. 3]
  /\ got \in [Conns -> 0 .. 3] /\ \A c \in Conns : got[c] <= sent[c]
  /\ backlog \in Seq(Conns)
  /\ table \in [FDs -> Conns \cup {None}]
  /\ armed \subseteq FDs
  /\ ready \subseteq FDs \cup {Listen}
  /\ mpc \in {"wait", "dispatch", "accept", "destroy", "exit", "killed"}
  /\ batch \in Seq(Events) /\ Len(batch) <= MAXEVENTS
  /\ accept_err \in BOOLEAN
  /\ tp \in {"open", "NULL", "shutdown", "locked"}
  /\ pending \in Seq(Jobs)
  /\ wpc \in [Workers -> {"idle", "line", "clear404", "clear_page", "clear_cgi", "page", "cgi", "hung", "close"}]
  /\ job \in [Workers -> Jobs \cup {None}]
  /\ outcome \in [Conns -> Outcomes]

\* main is about to enter its loop: listenfd is non-blocking, registered
\* edge-triggered, and threadpool_init has returned.
Init ==
  /\ peer = [c \in Conns |-> "away"]
  /\ sent = [c \in Conns |-> 0]
  /\ got = [c \in Conns |-> 0]
  /\ backlog = << >>
  /\ table = [f \in FDs |-> None]
  /\ armed = {}
  /\ ready = {}
  /\ mpc = "wait"
  /\ batch = << >>
  /\ accept_err = FALSE
  /\ tp \in {"open"} \cup (IF "threadpool_init" \in Faults THEN {"NULL"} ELSE {})
  /\ pending = << >>
  /\ wpc = [w \in Workers |-> "idle"]
  /\ job = [w \in Workers |-> None]
  /\ outcome = [c \in Conns |-> "none"]

-----------------------------------------------------------------------------
(* The kernel *)

FreeFDs == {f \in FDs : table[f] = None}
FDsOf(c) == {f \in FDs : table[f] = c}

\* The ready list after something happened on connection c: epoll is told
\* through the entry of its descriptor, if that can still fire.
Notify(c) == ready \cup (FDsOf(c) \cap armed)

Readable(c) == got[c] < sent[c] \/ peer[c] \in {"closed", "reset"}

\* Closing a descriptor also removes it from the epoll instance.
Close(f) ==
  /\ table' = [table EXCEPT ![f] = None]
  /\ armed' = armed \ {f}
  /\ ready' = ready \ {f}

-----------------------------------------------------------------------------
(* Clients *)

Connect(c) ==
  /\ peer[c] = "away"
  /\ peer' = [peer EXCEPT ![c] = "up"]
  /\ backlog' = Append(backlog, c)
  /\ ready' = ready \cup {Listen}
  /\ UNCHANGED <<sent, got, table, armed, loop, pool, workers, outcome>>

Send(c) ==
  /\ peer[c] = "up"
  /\ sent[c] < 3
  /\ sent' = [sent EXCEPT ![c] = IF c \in Careful THEN 3 ELSE @ + 1]
  /\ ready' = Notify(c)
  /\ UNCHANGED <<peer, got, backlog, table, armed, loop, pool, workers, outcome>>

\* A client that is not careful may hang up or reset at any time.
Leave(c) ==
  /\ c \notin Careful
  /\ peer[c] = "up"
  /\ peer' = [peer EXCEPT ![c] = "closed"]
  /\ ready' = Notify(c)
  /\ UNCHANGED <<sent, got, backlog, table, armed, loop, pool, workers, outcome>>

Reset(c) ==
  /\ c \notin Careful
  /\ peer[c] \in {"up", "closed"}
  /\ peer' = [peer EXCEPT ![c] = "reset"]
  /\ ready' = Notify(c)
  /\ UNCHANGED <<sent, got, backlog, table, armed, loop, pool, workers, outcome>>

-----------------------------------------------------------------------------
(* main *)

\* What epoll_wait finds when it polls an entry of its ready list.
Pollable(x) == IF x = Listen THEN backlog # << >> ELSE Readable(table[x])

Event(x) ==
  IF x = Listen THEN [fd |-> x, conn |-> None, err |-> FALSE]
  ELSE [fd |-> x, conn |-> table[x], err |-> peer[table[x]] = "reset"]

\* Mutant: registered without EPOLLONESHOT.
Disarm_Never(taken) == UNCHANGED armed
\* EPOLLONESHOT: an entry that fires is disabled, and never re-enabled.
Disarm(taken) == armed' = armed \ taken

\* Mutant: more events than the array has room for.
BatchSize_Unbounded(pollable) == Cardinality(pollable)
BatchSize(pollable) ==
  IF Cardinality(pollable) < MAXEVENTS THEN Cardinality(pollable) ELSE MAXEVENTS

\* The ready list is polled: what turns out not to be ready is dropped, what
\* does not fit into the array stays for the next call.
My_epoll_wait ==
  /\ mpc = "wait"
  /\ ready # {}
  /\ LET pollable == {x \in ready : Pollable(x)}
     IN \E taken \in SUBSET pollable :
          /\ Cardinality(taken) = BatchSize(pollable)
          /\ \E order \in SetToSeqs(taken) : batch' = [i \in DOMAIN order |-> Event(order[i])]
          /\ Disarm(taken)
          /\ ready' = pollable \ taken
          /\ mpc' = IF taken = {} THEN "wait" ELSE "dispatch"
  /\ UNCHANGED <<client, got, backlog, table, accept_err, pool, workers, outcome>>

\* EINTR included: the loop ends and the pool is shut down at once, if
\* threadpool_destroy gets its mutex.
EpollWaitFails ==
  /\ "epoll_wait" \in Faults
  /\ mpc = "wait"
  /\ mpc' = "destroy"
  /\ tp' = IF tp = "open" THEN "shutdown" ELSE tp
  /\ UNCHANGED <<client, got, kernel, batch, accept_err, pending, workers, outcome>>

\* ++i
NextEvent ==
  /\ batch' = Tail(batch)
  /\ mpc' = IF Len(batch) = 1 THEN "wait" ELSE "dispatch"

DispatchListen ==
  /\ mpc = "dispatch"
  /\ Head(batch).fd = Listen
  /\ mpc' = "accept"
  /\ UNCHANGED <<client, got, kernel, batch, accept_err, pool, workers, outcome>>

\* Mutant: without the continue, the closed descriptor goes to the pool.
DispatchError_FallsThrough ==
  /\ mpc = "dispatch"
  /\ Head(batch).err
  /\ Close(Head(batch).fd)
  /\ pending' = <<[fd |-> Head(batch).fd, conn |-> Head(batch).conn]>> \o pending
  /\ NextEvent
  /\ UNCHANGED <<client, got, backlog, accept_err, tp, workers, outcome>>

\* EPOLLERR or EPOLLHUP: close, without a look at the request.
DispatchError ==
  /\ mpc = "dispatch"
  /\ Head(batch).err
  /\ Close(Head(batch).fd)
  /\ outcome' = [outcome EXCEPT ![Head(batch).conn] = "error"]
  /\ NextEvent
  /\ UNCHANGED <<client, got, backlog, accept_err, pool, workers>>

\* threadpool_add links the task in front of the others.  When it does not
\* ("threadpool_add error"), the descriptor stays open; when the reason was
\* malloc, main has also kept the pool's mutex, and its next call blocks.
DispatchRequest ==
  /\ mpc = "dispatch"
  /\ tp # "locked"
  /\ LET e == Head(batch)
         Refuse == outcome' = [outcome EXCEPT ![e.conn] = "refused"] /\ UNCHANGED pending
     IN /\ e.fd # Listen
        /\ ~e.err
        /\ \/ /\ tp = "open"
              /\ pending' = <<[fd |-> e.fd, conn |-> e.conn]>> \o pending
              /\ UNCHANGED <<tp, outcome>>
           \/ tp # "open" /\ Refuse /\ UNCHANGED tp
           \/ "malloc" \in Faults /\ tp = "open" /\ Refuse /\ tp' = "locked"
  /\ NextEvent
  /\ UNCHANGED <<client, got, kernel, accept_err, workers>>

\* Mutant: one accept per event.
AfterAccept_Once == NextEvent
\* while(1): accept again.
AfterAccept == UNCHANGED <<mpc, batch>>

\* accept, activate_nonblock and My_epoll_add: the new entry is ready at
\* once if the request was faster.
Accept ==
  /\ mpc = "accept"
  /\ backlog # << >>
  /\ \E f \in FreeFDs :
       /\ table' = [table EXCEPT ![f] = Head(backlog)]
       /\ armed' = armed \cup {f}
       /\ ready' = IF Readable(Head(backlog)) THEN ready \cup {f} ELSE ready
  /\ backlog' = Tail(backlog)
  /\ AfterAccept
  /\ UNCHANGED <<client, got, accept_err, pool, workers, outcome>>

\* EAGAIN: every incoming connection has been dealt with.
AcceptDrained ==
  /\ mpc = "accept"
  /\ backlog = << >>
  /\ accept_err' = FALSE
  /\ NextEvent
  /\ UNCHANGED <<client, got, kernel, pool, workers, outcome>>

\* EMFILE and the like: the loop ends all the same.
AcceptFails ==
  /\ mpc = "accept"
  /\ backlog # << >>
  /\ FreeFDs = {} \/ "accept" \in Faults
  /\ accept_err' = TRUE
  /\ NextEvent
  /\ UNCHANGED <<client, got, kernel, pool, workers, outcome>>

\* threadpool_destroy(tp, 0) returns when every worker is done with the
\* request it is in; what is still in the list is dropped.  It never gets
\* there if main still has the mutex.
Exit ==
  /\ mpc = "destroy"
  /\ tp # "locked"
  /\ \A w \in Workers : wpc[w] = "idle"
  /\ mpc' = "exit"
  /\ UNCHANGED <<client, got, kernel, batch, accept_err, pool, workers, outcome>>

-----------------------------------------------------------------------------
(* accept_request, in a worker *)

\* The connection the worker's descriptor denotes now.
Sock(w) == table[job[w].fd]

WorkerTake(w) ==
  /\ tp = "open"
  /\ wpc[w] = "idle"
  /\ pending # << >>
  /\ job' = [job EXCEPT ![w] = Head(pending)]
  /\ pending' = Tail(pending)
  /\ wpc' = [wpc EXCEPT ![w] = "line"]
  /\ UNCHANGED <<client, got, kernel, loop, tp, outcome>>

\* Mutant: the end of a request does not close its socket.
CloseSock_Forgotten(f) == UNCHANGED <<table, armed, ready>>
CloseSock(f) == Close(f)

Return(w) ==
  /\ wpc' = [wpc EXCEPT ![w] = "idle"]
  /\ job' = [job EXCEPT ![w] = None]

\* get_line for the request line takes what is there: all of the line, its
\* beginning if the rest is still on its way, or nothing (end of file).
get_line(c) == got' = [got EXCEPT ![c] = IF sent[c] >= 2 THEN 2 ELSE sent[c]]

\* What accept_request finds out about a request: how its method compares
\* with GET and POST, whether the url of a GET has a "?", and what stat says
\* of the path.
Requests == [method : {"before GET", "GET", "between", "POST", "after POST"},
             query : BOOLEAN,
             file : {"missing", "directory", "executable", "plain"}]

\* cgi == 1
IsCgi(r) == r.method = "POST" \/ (r.method = "GET" /\ r.query) \/ r.file = "executable"

\* Where the request goes: only methods that sort before both GET and POST
\* are rejected, and only with GET and POST does exe_cgi read the headers.
Route(r) ==
  CASE r.method = "before GET" -> "reject"
    [] r.method # "before GET" /\ r.file = "missing" -> "clear404"
    [] r.method # "before GET" /\ r.file # "missing" /\ IsCgi(r) ->
         IF r.method \in {"GET", "POST"} THEN "clear_cgi" ELSE "cgi"
    [] OTHER -> "clear_page"

\* A line that was cut may read as anything, and an empty one has an empty
\* method, which sorts first.
Reads(c, r) == sent[c] > 0 \/ r.method = "before GET"

\* A request that is rejected leaves its socket open.
RejectRequest(w) ==
  /\ wpc[w] = "line"
  /\ get_line(Sock(w))
  /\ \E r \in Requests : Reads(Sock(w), r) /\ Route(r) = "reject"
  /\ outcome' = [outcome EXCEPT ![Sock(w)] = "rejected"]
  /\ Return(w)
  /\ UNCHANGED <<client, kernel, loop, pool>>

RouteRequest(w) ==
  /\ wpc[w] = "line"
  /\ get_line(Sock(w))
  /\ \E r \in Requests :
       /\ Reads(Sock(w), r) /\ Route(r) # "reject"
       /\ wpc' = [wpc EXCEPT ![w] = Route(r)]
  /\ UNCHANGED <<client, kernel, loop, pool, job, outcome>>

\* clear_header, and the same loop for POST in exe_cgi, spin until get_line
\* returns an empty line.  That is the blank line, or the rest of a cut
\* request line when the cut was just before its line end.
clear_header(c) ==
  \/ sent[c] = 3 /\ got' = [got EXCEPT ![c] = 3]
  \/ got[c] = 1 /\ sent[c] >= 2 /\ got' = [got EXCEPT ![c] = 2]

ClearHeader(w) ==
  /\ wpc[w] \in {"clear_page", "clear_cgi"}
  /\ clear_header(Sock(w))
  /\ wpc' = [wpc EXCEPT ![w] = IF @ = "clear_page" THEN "page" ELSE "cgi"]
  /\ UNCHANGED <<client, kernel, loop, pool, job, outcome>>

\* The path does not exist: no answer, and the socket stays open.
NotFound(w) ==
  /\ wpc[w] = "clear404"
  /\ clear_header(Sock(w))
  /\ outcome' = [outcome EXCEPT ![Sock(w)] = "missing"]
  /\ Return(w)
  /\ UNCHANGED <<client, kernel, loop, pool>>

\* A page that cannot be opened is not answered at all.
echo_html(w) ==
  /\ wpc[w] = "page"
  /\ \E o \in {"answered"} \cup (IF "open" \in Faults THEN {"silent"} ELSE {}) :
       outcome' = [outcome EXCEPT ![Sock(w)] = o]
  /\ wpc' = [wpc EXCEPT ![w] = "close"]
  /\ UNCHANGED <<client, got, kernel, loop, pool, job>>

\* exe_cgi after its headers.  Content-Length: -1 is not answered; without
\* pipes or a child the client gets the status line and nothing else.
exe_cgi(w) ==
  /\ wpc[w] = "cgi"
  /\ \E o \in {"answered", "silent"} \cup (IF "fork" \in Faults THEN {"empty"} ELSE {}) :
       outcome' = [outcome EXCEPT ![Sock(w)] = o]
  /\ wpc' = [wpc EXCEPT ![w] = "close"]
  /\ UNCHANGED <<client, got, kernel, loop, pool, job>>

\* read and waitpid have no time limit: a program that never ends (one that
\* reads its input to the end is enough) keeps its worker for ever.
ProgramHangs(w) ==
  /\ "program" \in Faults
  /\ wpc[w] = "cgi"
  /\ wpc' = [wpc EXCEPT ![w] = "hung"]
  /\ UNCHANGED <<client, got, kernel, loop, pool, job, outcome>>

\* Nothing handles SIGPIPE: sending to a client that has gone may end the
\* whole process.
SigPipe(w) ==
  /\ wpc[w] \in {"page", "cgi", "hung"}
  /\ peer[Sock(w)] \in {"closed", "reset"}
  /\ mpc' = "killed"
  /\ UNCHANGED <<client, got, kernel, batch, accept_err, pool, workers, outcome>>

FinishRequest(w) ==
  /\ wpc[w] = "close"
  /\ CloseSock(job[w].fd)
  /\ Return(w)
  /\ UNCHANGED <<client, got, backlog, loop, pool, outcome>>

-----------------------------------------------------------------------------
ClientStep(c) == Connect(c) \/ Send(c) \/ Leave(c) \/ Reset(c)

MainStep ==
  \/ My_epoll_wait \/ DispatchListen \/ DispatchError \/ DispatchRequest
  \/ Accept \/ AcceptDrained \/ AcceptFails \/ Exit

WorkerStep(w) ==
  \/ WorkerTake(w) \/ RejectRequest(w) \/ RouteRequest(w)
  \/ ClearHeader(w) \/ NotFound(w) \/ echo_html(w) \/ exe_cgi(w) \/ ProgramHangs(w)
  \/ SigPipe(w) \/ FinishRequest(w)

Next ==
  /\ mpc \notin {"exit", "killed"}
  /\ \/ \E c \in Conns : ClientStep(c)
     \/ MainStep
     \/ EpollWaitFails
     \/ \E w \in Workers : WorkerStep(w)

\* Threads are scheduled, but a program that hangs need not write anything,
\* and a careful client sends its request.
Fairness ==
  /\ WF_vars(MainStep)
  /\ \A w \in Workers : WF_vars(wpc[w] # "hung" /\ WorkerStep(w))
  /\ \A c \in Careful : WF_vars(Send(c))

Spec == Init /\ [][Next]_vars
FairSpec == Spec /\ Fairness

-----------------------------------------------------------------------------
(* Safety *)

Handed == {[fd |-> e.fd, conn |-> e.conn] : e \in {e \in ToSet(batch) : e.fd # Listen}}
          \cup ToSet(pending) \cup {job[w] : w \in {w \in Workers : wpc[w] # "idle"}}

\* A descriptor number that is on its way from epoll to a worker, or in a
\* worker, still denotes the connection epoll reported: nobody has closed
\* it and accept has not reused the number for another client.
DescriptorsAreCurrent == \A h \in Handed : table[h.fd] = h.conn

\* How many hands hold descriptor f: epoll (if it can still fire), main's
\* array, the pool's list, the workers.
Hands(f) ==
  (IF f \in armed THEN 1 ELSE 0)
  + Cardinality({i \in 1 .. Len(batch) : batch[i].fd = f})
  + Cardinality({i \in 1 .. Len(pending) : pending[i].fd = f})
  + Cardinality({w \in Workers : wpc[w] # "idle" /\ job[w].fd = f})

\* At most one thread at a time owns a descriptor, so that two workers never
\* read the same request and nobody closes under another's hands.
OneOwner == \A f \in FDs : Hands(f) <= 1

\* A descriptor that nobody owns any more and that is still open stays open
\* for ever.  That happens only to connections whose request was rejected,
\* not found, or refused by the pool: every request that got as far as
\* echo_html or exe_cgi, whatever came of it, has been closed.
LeaksExplained ==
  \A f \in FDs : table[f] # None /\ Hands(f) = 0
                   => outcome[table[f]] \in {"rejected", "missing", "refused"}

\* A request gets one verdict: although its descriptor passes from main to the
\* list and to a worker, none of them answers, rejects or refuses what has
\* had its verdict before.  A descriptor is closed after the verdict only,
\* and its number is free for accept before it denotes another connection.
VerdictThenClose ==
  [][/\ \A c \in Conns : outcome[c] # "none" => outcome'[c] = outcome[c]
     /\ \A f \in FDs : table[f] # None /\ table'[f] # table[f] =>
          table'[f] = None /\ outcome'[table[f]] # "none"]_vars

\* Edge-triggered accept: when main goes back to epoll_wait no connection is
\* left in the listen queue without an event to come, except when accept
\* failed for another reason than EAGAIN.
NoStrandedBacklog ==
  mpc = "wait" /\ backlog # << >> => Listen \in ready \/ accept_err

Pool == INSTANCE TaskPool WITH
  Tasks <- Jobs,
  pending <- ToSet(pending),
  running <- job,
  mode <- IF tp = "shutdown" THEN "immediate" ELSE "open"

\* The server sees of its pool only what TaskPool promises, and never hands
\* in a task that is already waiting or running.
UsesPoolAsPromised == Pool!Spec

-----------------------------------------------------------------------------
(* Liveness *)

\* The process has ended, or is about to.
Ending == mpc \in {"killed", "destroy", "exit"}

\* accept failed before it came to c, and nobody has connected since.
Stranded(c) == c \in ToSet(backlog) /\ accept_err

\* c's own program does not end.
Hanging(c) == \E w \in Workers : wpc[w] = "hung" /\ job[w].conn = c

\* Every worker is with a program that does not end, or with a client that
\* does not send the rest of its request.
NoWorkerLeft ==
  \A w \in Workers :
    \/ wpc[w] = "hung"
    \/ wpc[w] \in {"clear404", "clear_page", "clear_cgi"} /\ sent[Sock(w)] < 3

\* A client that sends its whole request at once and waits gets the server's
\* verdict, unless the server ends: SIGPIPE, or epoll_wait fails.  Otherwise
\* there are only four reasons to go without, and each is there to stay: accept
\* has left the client in the listen queue and no other connects, a failed
\* malloc has left the pool locked, the client's own program does not end, or no
\* worker is left.  The clients here are finitely many: under arrivals without
\* end the pool's list, being last in first out, may pass over a client for
\* ever.
CarefulServed ==
  \A c \in Careful :
    (peer[c] = "up") ~>
      (\/ outcome[c] # "none" \/ Ending
       \/ [](Stranded(c) \/ tp = "locked" \/ Hanging(c) \/ NoWorkerLeft))
=============================================================================
