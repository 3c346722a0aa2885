----------------------------- MODULE CgiRequest -----------------------------
(***************************************************************************)
(* exe_cgi of httpd.c, run by several workers of one process at a time:    *)
(* the two pipes of each call, the child it forks, the body it feeds to    *)
(* the child, the copy loop and the wait.  Nothing is close-on-exec, so a  *)
(* child inherits every pipe end and every client's socket the server has  *)
(* open when it forks, those of other requests included.                   *)
(*                                                                         *)
(* Bytes are numbered: byte i of a body or of a program's output is i, and *)
(* a byte of the server's own log, which is about any client, is 0.        *)
(* Reading the headers is HttpServer's part.                               *)
(***************************************************************************)
EXTENDS Integers, Sequences, FiniteSets

CONSTANTS
  Requests,   \* the calls of exe_cgi; each names its worker and its child too
  Prompt,     \* those whose client sends its body at once, waits and reads
  Methods,    \* "GET", "POST", or "other" (any method that sorts after GET)
  Programs,   \* "find_cgi", or "filter": a program that reads stdin to its end
  Lengths,    \* what Content-Length may say, as atoi reads it
  PIPE_BUF,   \* the capacity of a pipe
  Output,     \* bytes a program writes in all
  Log,        \* bytes of its log the server may have in its stdio buffer
  Faults,     \* what may fail: "pipe", "fork", "execl", "program"
  Server      \* the server process

Ends == {"cgi_input[0]", "cgi_input[1]", "cgi_output[0]", "cgi_output[1]", "sock"}
Pipes == Ends \ {"sock"}
Processes == Requests \cup {Server}

ASSUME CgiAssumption ==
  /\ IsFiniteSet(Requests)
  /\ Prompt \subseteq Requests
  /\ Methods \subseteq {"GET", "POST", "other"}
  /\ Programs \subseteq {"find_cgi", "filter"}
  /\ Lengths \subseteq Int
  /\ PIPE_BUF \in Nat \ {0}
  /\ Output \in Nat \ {0}
  /\ Log \in 0 .. PIPE_BUF
  /\ Faults \subseteq {"pipe", "fork", "execl", "program"}
  /\ Server \notin Requests

VARIABLES
  pc,              \* where the worker is in exe_cgi
  method,
  program,         \* what path names
  content_length,
  arrived,         \* bytes of the body that have reached the socket
  received,        \* bytes of it that recv has taken
  c,               \* the worker's one-byte buffer
  fed,             \* what was written to cgi_input[1], byte by byte
  unread,          \* how much of fed is still in the pipe
  child,           \* where the child is
  spilled,         \* execl has failed, and exit has written log to the child's stdout
  produced,        \* bytes the child has written to its stdout
  uncopied,        \* how many of them are still in the pipe
  answer,          \* the bytes of it the client's socket accepted
  open,            \* open[r][e]: the processes that hold end e of request r
  alive            \* the server process has not been killed

request == <<method, program, content_length>>
input == <<arrived, received, c, fed, unread>>
output == <<spilled, produced, uncopied, answer>>
vars == <<pc, request, input, child, output, open, alive>>

TypeOK ==
  /\ pc \in [Requests -> {"accepted", "pipe_in", "pipe_out", "fork", "parent", "recv", "write",
                          "copy", "waitpid", "return", "closed"}]
  /\ method \in [Requests -> Methods]
  /\ program \in [Requests -> Programs]
  /\ content_length \in [Requests -> Lengths \cup {0}]
  /\ arrived \in [Requests -> Nat] /\ received \in [Requests -> Nat] /\ c \in [Requests -> Nat]
  /\ fed \in [Requests -> Seq(Nat)] /\ unread \in [Requests -> 0 .. PIPE_BUF]
  /\ spilled \in [Requests -> BOOLEAN] /\ produced \in [Requests -> Nat] /\ uncopied \in [Requests -> 0 .. PIPE_BUF]
  /\ answer \in [Requests -> Seq(Nat)]
  /\ \A r \in Requests :
       /\ c[r] <= received[r] /\ received[r] <= arrived[r]
       /\ unread[r] <= Len(fed[r]) /\ uncopied[r] <= produced[r]
       /\ produced[r] <= (IF spilled[r] THEN Log ELSE Output)
       /\ \A i \in 1 .. Len(fed[r]) : fed[r][i] <= received[r]
       /\ \A i \in 1 .. Len(answer[r]) : answer[r][i] <= produced[r]
  /\ child \in [Requests -> {"none", "forked", "dup2", "find_cgi", "filter", "body", "zombie", "reaped"}]
  /\ open \in [Requests -> [Ends -> SUBSET Processes]]
  /\ alive \in BOOLEAN

\* accept_request has found out that path is a program.
Init ==
  /\ pc = [r \in Requests |-> "accepted"]
  /\ method \in [Requests -> Methods]
  /\ program \in [Requests -> Programs]
  /\ content_length = [r \in Requests |-> 0]
  /\ arrived = [r \in Requests |-> 0]
  /\ received = [r \in Requests |-> 0]
  /\ c = [r \in Requests |-> 0]
  /\ fed = [r \in Requests |-> << >>]
  /\ unread = [r \in Requests |-> 0]
  /\ child = [r \in Requests |-> "none"]
  /\ spilled = [r \in Requests |-> FALSE]
  /\ produced = [r \in Requests |-> 0]
  /\ uncopied = [r \in Requests |-> 0]
  /\ answer = [r \in Requests |-> << >>]
  /\ open = [r \in Requests |-> [e \in Ends |-> IF e = "sock" THEN {Server} ELSE {}]]
  /\ alive = TRUE

Goto(r, place) == pc' = [pc EXCEPT ![r] = place]

-----------------------------------------------------------------------------
(* The descriptor tables of the processes *)

\* The server opens, and process p closes, ends of request r.
OpenEnds(r, ends) == [open EXCEPT ![r] = [e \in Ends |-> IF e \in ends THEN {Server} ELSE @[e]]]
CloseEnds(p, r, ends) == [open EXCEPT ![r] = [e \in Ends |-> IF e \in ends THEN @[e] \ {p} ELSE @[e]]]

\* fork: the child p holds whatever the server holds.
Inherit(p) ==
  [q \in Requests |-> [e \in Ends |->
     IF Server \in open[q][e] THEN open[q][e] \cup {p} ELSE open[q][e]]]

\* exit, or death by a signal: process p closes everything.
CloseAll(p) == [q \in Requests |-> [e \in Ends |-> open[q][e] \ {p}]]

-----------------------------------------------------------------------------
(* The client *)

SendBody(r) ==
  /\ r \notin Prompt
  /\ arrived[r] < content_length[r]
  /\ arrived' = [arrived EXCEPT ![r] = @ + 1]
  /\ UNCHANGED <<pc, request, received, c, fed, unread, child, output, open, alive>>

-----------------------------------------------------------------------------
(* exe_cgi in the worker *)

\* The headers are read and, unless Content-Length was -1, the status line
\* is sent.
Headers(r) ==
  /\ pc[r] = "accepted"
  /\ \E n \in IF method[r] = "POST" THEN Lengths ELSE {0} :
       /\ content_length' = [content_length EXCEPT ![r] = n]
       /\ arrived' = [arrived EXCEPT ![r] = IF r \in Prompt /\ n > 0 THEN n ELSE 0]
       /\ Goto(r, IF n = -1 THEN "return" ELSE "pipe_in")
  /\ UNCHANGED <<method, program, received, c, fed, unread, child, output, open, alive>>

PipeIn(r) ==
  /\ pc[r] = "pipe_in"
  /\ open' = OpenEnds(r, {"cgi_input[0]", "cgi_input[1]"})
  /\ Goto(r, "pipe_out")
  /\ UNCHANGED <<request, input, child, output, alive>>

PipeOut(r) ==
  /\ pc[r] = "pipe_out"
  /\ open' = OpenEnds(r, {"cgi_output[0]", "cgi_output[1]"})
  /\ Goto(r, "fork")
  /\ UNCHANGED <<request, input, child, output, alive>>

\* Mutant: the error return of the second pipe() forgets the first pipe.
GiveUp_KeepsInput(place) == IF place = "fork" THEN Pipes ELSE {}
\* The ends the three error returns close: of the first pipe() none, of the
\* second those of the first, and of fork all four.
GiveUp(place) ==
  CASE place = "pipe_in"  -> {}
    [] place = "pipe_out" -> {"cgi_input[0]", "cgi_input[1]"}
    [] place = "fork"     -> Pipes

PipeOrForkFails(r) ==
  /\ \/ pc[r] \in {"pipe_in", "pipe_out"} /\ "pipe" \in Faults
     \/ pc[r] = "fork" /\ "fork" \in Faults
  /\ open' = CloseEnds(Server, r, GiveUp(pc[r]))
  /\ Goto(r, "return")
  /\ UNCHANGED <<request, input, child, output, alive>>

Fork(r) ==
  /\ pc[r] = "fork"
  /\ open' = Inherit(r)
  /\ child' = [child EXCEPT ![r] = "forked"]
  /\ Goto(r, "parent")
  /\ UNCHANGED <<request, input, output, alive>>

\* Mutant: the parent keeps its copy of the end the child writes to.
ParentEnds_Input == {"cgi_input[0]"}
ParentEnds == {"cgi_input[0]", "cgi_output[1]"}

ParentCloses(r) ==
  /\ pc[r] = "parent"
  /\ open' = CloseEnds(Server, r, ParentEnds)
  /\ Goto(r, IF method[r] = "POST" /\ content_length[r] > 0 THEN "recv" ELSE "copy")
  /\ UNCHANGED <<request, input, child, output, alive>>

\* Mutant: the buffer is cleared before every recv.
Recv_Cleared(r) ==
  /\ received' = [received EXCEPT ![r] = IF @ < arrived[r] THEN @ + 1 ELSE @]
  /\ c' = [c EXCEPT ![r] = IF received[r] < arrived[r] THEN received[r] + 1 ELSE 0]
\* Mutant: every recv is taken to have brought a byte.
Recv_Counted(r) ==
  /\ received' = [received EXCEPT ![r] = @ + 1]
  /\ c' = [c EXCEPT ![r] = received[r] + 1]
\* The socket does not block: without a byte, recv fails and c keeps its
\* value, which nobody checks.
Recv(r) ==
  IF received[r] < arrived[r]
  THEN /\ received' = [received EXCEPT ![r] = @ + 1]
       /\ c' = [c EXCEPT ![r] = received[r] + 1]
  ELSE UNCHANGED <<received, c>>

PostRecv(r) ==
  /\ pc[r] = "recv"
  /\ Recv(r)
  /\ Goto(r, "write")
  /\ UNCHANGED <<request, arrived, fed, unread, child, output, open, alive>>

\* write blocks while the pipe is full.
PostWrite(r) ==
  /\ pc[r] = "write"
  /\ open[r]["cgi_input[0]"] # {}
  /\ unread[r] < PIPE_BUF
  /\ fed' = [fed EXCEPT ![r] = Append(@, c[r])]
  /\ unread' = [unread EXCEPT ![r] = @ + 1]
  /\ Goto(r, IF Len(fed[r]) + 1 < content_length[r] THEN "recv" ELSE "copy")
  /\ UNCHANGED <<request, arrived, received, c, child, output, open, alive>>

\* Nothing handles SIGPIPE.  A body written for a child that has ended kills
\* the server, and so may anything sent to a client that has gone.
SigPipe(r) ==
  /\ \/ pc[r] = "write" /\ open[r]["cgi_input[0]"] = {}
     \/ r \notin Prompt /\ pc[r] = "pipe_in"
     \/ r \notin Prompt /\ pc[r] = "copy" /\ uncopied[r] > 0
  /\ alive' = FALSE
  /\ UNCHANGED <<pc, request, input, child, output, open>>

\* Byte i of what the child has written.
Byte(r, i) == IF spilled[r] THEN 0 ELSE i

\* read a byte from the child, send it to the client.  send does not block
\* either, and what a client that does not read makes it refuse is lost.
CopyByte(r) ==
  /\ pc[r] = "copy"
  /\ uncopied[r] > 0
  /\ uncopied' = [uncopied EXCEPT ![r] = @ - 1]
  /\ \/ answer' = [answer EXCEPT ![r] = Append(@, Byte(r, produced[r] - uncopied[r] + 1))]
     \/ r \notin Prompt /\ UNCHANGED answer
  /\ UNCHANGED <<pc, request, input, child, spilled, produced, open, alive>>

\* Mutant: an empty pipe is taken for the end of the output.
EndOfOutput_Empty(r) == uncopied[r] = 0
\* read returns 0 only when the pipe is empty and every copy of its write
\* end is closed.
EndOfOutput(r) == uncopied[r] = 0 /\ open[r]["cgi_output[1]"] = {}

CopyEnds(r) ==
  /\ pc[r] = "copy"
  /\ EndOfOutput(r)
  /\ open' = CloseEnds(Server, r, {"cgi_input[1]", "cgi_output[0]"})
  /\ Goto(r, "waitpid")
  /\ UNCHANGED <<request, input, child, output, alive>>

WaitPid(r) ==
  /\ pc[r] = "waitpid"
  /\ child[r] = "zombie"
  /\ child' = [child EXCEPT ![r] = "reaped"]
  /\ Goto(r, "return")
  /\ UNCHANGED <<request, input, output, open, alive>>

\* Back in accept_request: close(sock_client).
CloseClient(r) ==
  /\ pc[r] = "return"
  /\ open' = CloseEnds(Server, r, {"sock"})
  /\ Goto(r, "closed")
  /\ UNCHANGED <<request, input, child, output, alive>>

-----------------------------------------------------------------------------
(* The child *)

ChildSetup(r) ==
  /\ child[r] = "forked"
  /\ open' = CloseEnds(r, r, {"cgi_input[1]", "cgi_output[0]"})
  /\ child' = [child EXCEPT ![r] = "dup2"]
  /\ UNCHANGED <<pc, request, input, output, alive>>

\* The environment, then execl.  For anything but GET content_length is
\* formatted with %s: sprintf prints 0 as (null), and takes any other number
\* for an address, with which it crashes or not.
ChildExec(r) ==
  /\ child[r] = "dup2"
  /\ child' = [child EXCEPT ![r] = program[r]]
  /\ UNCHANGED <<pc, request, input, output, open, alive>>

Exit(r) ==
  /\ child' = [child EXCEPT ![r] = "zombie"]
  /\ open' = CloseAll(r)

ChildCrashes(r) ==
  /\ child[r] = "dup2"
  /\ method[r] # "GET" /\ content_length[r] # 0
  /\ Exit(r)
  /\ UNCHANGED <<pc, request, input, output, alive>>

\* execl returns only if it fails, as it does when path is not a program (a
\* page asked for with a query).  exit(1), unlike _exit, then flushes stdout:
\* what the server's threads had printed and stdio had not yet written when
\* it forked, if anything.  One write takes it all, and the pipe is empty.
ExeclFails(r) ==
  /\ "execl" \in Faults
  /\ child[r] = "dup2"
  /\ \E n \in 0 .. Log :
       /\ spilled' = [spilled EXCEPT ![r] = n > 0]
       /\ produced' = [produced EXCEPT ![r] = n]
       /\ uncopied' = [uncopied EXCEPT ![r] = n]
  /\ Exit(r)
  /\ UNCHANGED <<pc, request, input, answer, alive>>

\* A write to stdout; it blocks while the pipe is full.
Write(r) ==
  /\ uncopied[r] < PIPE_BUF
  /\ uncopied' = [uncopied EXCEPT ![r] = @ + 1]
  /\ produced' = [produced EXCEPT ![r] = @ + 1]
  /\ UNCHANGED <<spilled, answer>>

\* find_cgi prints the head of its page.  Without CONTENT_LENGTH, which
\* nobody sets, a POST then crashes in atoi; any other method but GET ends.
FindCgi(r) ==
  /\ child[r] = "find_cgi"
  /\ \/ /\ produced[r] = 0
        /\ Write(r)
        /\ UNCHANGED <<child, open>>
     \/ /\ produced[r] = 1
        /\ IF method[r] = "GET" THEN child' = [child EXCEPT ![r] = "body"] /\ UNCHANGED open ELSE Exit(r)
        /\ UNCHANGED output
  /\ UNCHANGED <<pc, request, input, alive>>

\* A program that reads its input until read returns 0.
Filter(r) ==
  /\ child[r] = "filter"
  /\ \/ /\ unread[r] > 0
        /\ unread' = [unread EXCEPT ![r] = @ - 1]
        /\ UNCHANGED child
     \/ /\ unread[r] = 0 /\ open[r]["cgi_input[1]"] = {}
        /\ child' = [child EXCEPT ![r] = "body"]
        /\ UNCHANGED unread
  /\ UNCHANGED <<pc, request, arrived, received, c, fed, output, open, alive>>

ChildBody(r) ==
  /\ child[r] = "body"
  /\ produced[r] < Output
  /\ Write(r)
  /\ UNCHANGED <<pc, request, input, child, open, alive>>

ChildExit(r) ==
  /\ \/ child[r] = "body" /\ produced[r] = Output
     \/ child[r] \in {"find_cgi", "filter", "body"} /\ "program" \in Faults
  /\ Exit(r)
  /\ UNCHANGED <<pc, request, input, output, alive>>

-----------------------------------------------------------------------------
WorkerStep(r) ==
  \/ Headers(r) \/ PipeIn(r) \/ PipeOut(r) \/ PipeOrForkFails(r) \/ Fork(r) \/ ParentCloses(r)
  \/ PostRecv(r) \/ PostWrite(r) \/ SigPipe(r) \/ CopyByte(r) \/ CopyEnds(r) \/ WaitPid(r) \/ CloseClient(r)

ChildStep(r) ==
  \/ ChildSetup(r) \/ ChildExec(r) \/ ChildCrashes(r) \/ ExeclFails(r)
  \/ FindCgi(r) \/ Filter(r) \/ ChildBody(r) \/ ChildExit(r)

Next == alive /\ \E r \in Requests : SendBody(r) \/ WorkerStep(r) \/ ChildStep(r)

\* Workers and children are scheduled; clients owe nothing.
Fairness == \A r \in Requests : WF_vars(alive /\ WorkerStep(r)) /\ WF_vars(alive /\ ChildStep(r))

Spec == Init /\ [][Next]_vars
FairSpec == Spec /\ Fairness

-----------------------------------------------------------------------------
(* Safety *)

\* What the client is sent is its program's output, in its order and without
\* repetition; or, if execl has failed and only then, text of the server's
\* log, which may be about other clients.  It is never some of both, and a
\* client that reads has got all of it by the time its request leaves the
\* copy loop.
AnswerFaithful ==
  \A r \in Requests :
    /\ \A i \in 1 .. Len(answer[r]) : answer[r][i] = 0 <=> spilled[r]
    /\ ~spilled[r] => \A i \in 1 .. Len(answer[r]) - 1 : answer[r][i] < answer[r][i + 1]
    /\ r \in Prompt => /\ ~spilled[r] => \A i \in 1 .. Len(answer[r]) : answer[r][i] = i
                       /\ pc[r] \in {"waitpid", "return", "closed"} => Len(answer[r]) = produced[r]

\* What the child is fed is the body in order: a byte that is late makes the
\* one before it (or NUL) appear again, but none is skipped or reordered;
\* the body of a client that sent it at once is fed as it is.
BodyFaithful ==
  \A r \in Requests :
    \A i \in 1 .. Len(fed[r]) :
      LET before == IF i = 1 THEN 0 ELSE fed[r][i - 1]
      IN fed[r][i] = before + 1 \/ (r \notin Prompt /\ fed[r][i] = before)

\* A call of exe_cgi that has returned, by whichever way, leaves no pipe end
\* open in the server and no child unreaped.
NothingLeftBehind ==
  \A r \in Requests : pc[r] \in {"return", "closed"} =>
    /\ \A e \in Pipes : Server \notin open[r][e]
    /\ child[r] \in {"none", "reaped"}

\* The end of the output is the end of the child: waitpid never blocks a
\* worker behind a program that has said all it had to say, and no program
\* is killed for writing to a pipe nobody reads.
EndOfOutputIsEnd ==
  \A r \in Requests :
    /\ pc[r] = "waitpid" => child[r] = "zombie"
    /\ child[r] \in {"find_cgi", "filter", "body"} => Server \in open[r]["cgi_output[0]"]

-----------------------------------------------------------------------------
(* Liveness *)

\* A program that waits for the end of its input.  The server keeps the
\* other end until the program has ended, so neither ever moves.
Hung(q) == child[q] = "filter"

\* The answer has no length, so the client takes the closing of its socket
\* for its end: it comes for every request unless the server is killed, or a
\* program that waits for the end of its input (its own, or one that was
\* forked by another worker while this request was under way) holds it too.
ResponseEnds ==
  \A r \in Requests :
    (pc[r] # "accepted") ~>
      (\/ open[r]["sock"] = {}
       \/ ~alive
       \/ \E q \in Requests : Hung(q) /\ q \in open[r]["sock"])
=============================================================================
