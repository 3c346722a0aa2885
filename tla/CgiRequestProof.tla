-------------------------- MODULE CgiRequestProof ---------------------------
(***************************************************************************)
(* Proofs about CgiRequest for every number of concurrent calls of         *)
(* exe_cgi, every size of pipe, output and body, and every choice of       *)
(* failing calls.                                                          *)
(*                                                                         *)
(* The inductive invariant speaks of one call at a time: how far its child *)
(* can be for each place of its worker (Stage), which ends of its pipes    *)
(* the server and its own child hold (EndsHeld), how the answer relates to *)
(* the output (Copied), and how what was fed relates to what was received  *)
(* (Relayed).  A step of another call touches none of it, although its     *)
(* fork and its exit change who holds this call's descriptors (Others).    *)
(***************************************************************************)
EXTENDS CgiRequest, SequenceTheorems, TLAPS

-----------------------------------------------------------------------------
(* Lists *)

\* Appending (write to a pipe, send to the browser).
LEMMA AppendFacts ==
  ASSUME NEW S, NEW q \in Seq(S), NEW t \in S
  PROVE  /\ Append(q, t) \in Seq(S)
         /\ Append(q, t) # << >>
         /\ Len(q) \in Nat
         /\ Len(Append(q, t)) = Len(q) + 1
         /\ Append(q, t)[Len(q) + 1] = t
         /\ \A i \in 1 .. Len(q) : Append(q, t)[i] = q[i]
<1>1. Len(q) \in Nat
  BY LenProperties
<1> QED
  BY <1>1, AppendProperties

\* A queue is empty exactly when it has no position.
LEMMA EmptyFacts ==
  ASSUME NEW S, NEW q \in Seq(S)
  PROVE  Len(q) \in Nat /\ (q = << >> <=> Len(q) = 0)
  BY EmptySeq, LenProperties

-----------------------------------------------------------------------------
(* The invariant *)

\* Places of the worker before fork, and while the child is at work.
Early == {"accepted", "pipe_in", "pipe_out", "fork"}
Serving == {"parent", "recv", "write", "copy"}

\* Places of a child that has not ended.
Running == {"forked", "dup2", "find_cgi", "filter", "body"}

Stage(r) ==
  /\ pc[r] \in Early => child[r] = "none"
  /\ pc[r] \in Serving => child[r] \in Running \cup {"zombie"}
  /\ pc[r] = "waitpid" => child[r] = "zombie"
  /\ pc[r] \in {"return", "closed"} => child[r] \in {"none", "reaped"}

EndsHeld(r) ==
  /\ pc[r] \in {"accepted", "pipe_in"} => \A e \in Pipes : Server \notin open[r][e]
  /\ pc[r] = "pipe_out" => Server \notin open[r]["cgi_output[1]"] /\ Server \notin open[r]["cgi_output[0]"]
  /\ pc[r] \in {"fork", "parent"} => Server \in open[r]["cgi_output[1]"] /\ Server \in open[r]["cgi_output[0]"]
  /\ pc[r] \in {"recv", "write", "copy"} =>
       /\ Server \in open[r]["cgi_output[0]"]
       /\ Server \notin open[r]["cgi_input[0]"] /\ Server \notin open[r]["cgi_output[1]"]
  /\ pc[r] \in {"waitpid", "return", "closed"} => \A e \in Pipes : Server \notin open[r][e]
  /\ child[r] \in Running => r \in open[r]["cgi_output[1]"]

Copied(r) ==
  /\ child[r] \in {"none", "forked", "dup2"} => produced[r] = 0 /\ ~spilled[r] /\ Len(answer[r]) = 0
  /\ spilled[r] => child[r] \in {"zombie", "reaped"}
  /\ pc[r] \in {"waitpid", "return", "closed"} => uncopied[r] = 0
  /\ \A i \in 1 .. Len(answer[r]) : /\ answer[r][i] <= produced[r] - uncopied[r]
                                    /\ answer[r][i] = 0 <=> spilled[r]
  /\ ~spilled[r] => \A i, j \in 1 .. Len(answer[r]) : j = i + 1 => answer[r][i] < answer[r][j]
  /\ r \in Prompt => /\ Len(answer[r]) = produced[r] - uncopied[r]
                     /\ ~spilled[r] => \A i \in 1 .. Len(answer[r]) : answer[r][i] = i

\* The last byte fed, NUL before the first.
Last(r) == IF fed[r] = << >> THEN 0 ELSE fed[r][Len(fed[r])]

Relayed(r) ==
  /\ pc[r] = "accepted" => arrived[r] = 0 /\ content_length[r] = 0
  /\ pc[r] \in Early \cup {"parent"} => fed[r] = << >> /\ received[r] = 0
  /\ c[r] = received[r]
  /\ r \in Prompt /\ content_length[r] > 0 => arrived[r] = content_length[r]
  /\ pc[r] = "recv" => c[r] = Last(r)
  /\ pc[r] = "write" => c[r] = Last(r) + 1 \/ (r \notin Prompt /\ c[r] = Last(r))
  /\ r \in Prompt /\ pc[r] \in {"recv", "write"} => Len(fed[r]) < content_length[r]
  /\ r \in Prompt /\ pc[r] = "recv" => received[r] = Len(fed[r])
  /\ r \in Prompt /\ pc[r] = "write" => received[r] = Len(fed[r]) + 1
  /\ \A i, j \in 1 .. Len(fed[r]) : j = i + 1 =>
       fed[r][j] = fed[r][i] + 1 \/ (r \notin Prompt /\ fed[r][j] = fed[r][i])
  /\ fed[r] # << >> => fed[r][1] = 1 \/ (r \notin Prompt /\ fed[r][1] = 0)

IInv == TypeOK /\ \A r \in Requests : Stage(r) /\ EndsHeld(r) /\ Copied(r) /\ Relayed(r)

-----------------------------------------------------------------------------
(* One call at a time *)

\* TypeOK in two parts: the sets the variables range over, and the bounds
\* that relate the counters of one call.
Types ==
  /\ pc \in [Requests -> {"accepted", "pipe_in", "pipe_out", "fork", "parent", "recv", "write",
                          "copy", "waitpid", "return", "closed"}]
  /\ method \in [Requests -> Methods]
  /\ program \in [Requests -> Programs]
  /\ content_length \in [Requests -> Lengths \cup {0}]
  /\ arrived \in [Requests -> Nat] /\ received \in [Requests -> Nat] /\ c \in [Requests -> Nat]
  /\ fed \in [Requests -> Seq(Nat)] /\ unread \in [Requests -> Nat]
  /\ spilled \in [Requests -> BOOLEAN] /\ produced \in [Requests -> Nat] /\ uncopied \in [Requests -> Nat]
  /\ answer \in [Requests -> Seq(Nat)]
  /\ child \in [Requests -> {"none", "forked", "dup2", "find_cgi", "filter", "body", "zombie", "reaped"}]
  /\ open \in [Requests -> [Ends -> SUBSET Processes]]
  /\ alive \in BOOLEAN

Bounds(r) ==
  /\ c[r] <= received[r] /\ received[r] <= arrived[r]
  /\ unread[r] <= PIPE_BUF /\ unread[r] <= Len(fed[r])
  /\ produced[r] <= (IF spilled[r] THEN Log ELSE Output)
  /\ uncopied[r] <= PIPE_BUF /\ uncopied[r] <= produced[r]
  /\ \A i \in 1 .. Len(fed[r]) : fed[r][i] <= received[r]
  /\ \A i \in 1 .. Len(answer[r]) : answer[r][i] <= produced[r]

Step(r) == SendBody(r) \/ WorkerStep(r) \/ ChildStep(r)

\* The two parts make up TypeOK.
LEMMA TypeParts == TypeOK <=> Types /\ \A r \in Requests : Bounds(r)
<1>1. TypeOK => Types /\ \A r \in Requests : Bounds(r)
  BY CgiAssumption DEF TypeOK, Types, Bounds
<1>2. Types /\ (\A r \in Requests : Bounds(r)) => TypeOK
  BY CgiAssumption DEF TypeOK, Types, Bounds
<1> QED
  BY <1>1, <1>2

\* pipe changes the table of one call only.
LEMMA OpenFacts ==
  ASSUME open \in [Requests -> [Ends -> SUBSET Processes]], NEW r \in Requests, NEW ends \in SUBSET Ends
  PROVE  /\ OpenEnds(r, ends) \in [Requests -> [Ends -> SUBSET Processes]]
         /\ \A q \in Requests \ {r} : OpenEnds(r, ends)[q] = open[q]
         /\ \A e \in Ends : OpenEnds(r, ends)[r][e] = IF e \in ends THEN {Server} ELSE open[r][e]
<1>1. OpenEnds(r, ends) \in [Requests -> [Ends -> SUBSET Processes]]
  BY DEF OpenEnds, Processes
<1> QED
  BY <1>1 DEF OpenEnds

\* And so does close.
LEMMA CloseFacts ==
  ASSUME open \in [Requests -> [Ends -> SUBSET Processes]],
         NEW r \in Requests, NEW p \in Processes, NEW ends \in SUBSET Ends, open' = CloseEnds(p, r, ends)
  PROVE  /\ open' \in [Requests -> [Ends -> SUBSET Processes]]
         /\ \A q \in Requests \ {r} : open'[q] = open[q]
         /\ \A e \in ends : open'[r][e] = open[r][e] \ {p}
         /\ \A e \in Ends \ ends : open'[r][e] = open[r][e]
<1>1. open' \in [Requests -> [Ends -> SUBSET Processes]]
  BY DEF CloseEnds, Processes
<1> QED
  BY <1>1 DEF CloseEnds

\* fork and exit add and remove the child, in the tables of all calls.
LEMMA ForkFacts ==
  ASSUME open \in [Requests -> [Ends -> SUBSET Processes]], NEW r \in Requests
  PROVE  /\ Inherit(r) \in [Requests -> [Ends -> SUBSET Processes]]
         /\ CloseAll(r) \in [Requests -> [Ends -> SUBSET Processes]]
         /\ \A q \in Requests, e \in Ends :
              /\ Inherit(r)[q][e] = IF Server \in open[q][e] THEN open[q][e] \cup {r} ELSE open[q][e]
              /\ CloseAll(r)[q][e] = open[q][e] \ {r}
<1>1. Inherit(r) \in [Requests -> [Ends -> SUBSET Processes]]
  BY DEF Inherit, Processes
<1>2. CloseAll(r) \in [Requests -> [Ends -> SUBSET Processes]]
  BY DEF CloseAll, Processes
<1> QED
  BY <1>1, <1>2 DEF Inherit, CloseAll

\* How the descriptor tables can change in a step of call r.
LEMMA Tables ==
  ASSUME Types, NEW r \in Requests, Step(r)
  PROVE  \/ UNCHANGED open
         \/ \E ends \in SUBSET Ends : open' = OpenEnds(r, ends)
         \/ \E p \in {Server, r}, ends \in SUBSET Ends : open' = CloseEnds(p, r, ends)
         \/ open' = Inherit(r)
         \/ open' = CloseAll(r)
<1>1. CASE SendBody(r) \/ Headers(r) \/ PostRecv(r) \/ PostWrite(r) \/ SigPipe(r) \/ CopyByte(r) \/ WaitPid(r)
           \/ ChildExec(r) \/ Filter(r) \/ ChildBody(r)
  BY <1>1 DEF SendBody, Headers, PostRecv, PostWrite, SigPipe, CopyByte, WaitPid, ChildExec, Filter, ChildBody
<1>2. CASE PipeIn(r)
  <2>1. {"cgi_input[0]", "cgi_input[1]"} \in SUBSET Ends
    BY DEF Ends
  <2> QED
    BY <1>2, <2>1 DEF PipeIn
<1>3. CASE PipeOut(r)
  <2>1. {"cgi_output[0]", "cgi_output[1]"} \in SUBSET Ends
    BY DEF Ends
  <2> QED
    BY <1>3, <2>1 DEF PipeOut
<1>4. CASE PipeOrForkFails(r)
  <2>1. GiveUp(pc[r]) \in SUBSET Ends
    BY <1>4 DEF PipeOrForkFails, GiveUp, Pipes, Ends
  <2> QED
    BY <1>4, <2>1 DEF PipeOrForkFails
<1>5. CASE ParentCloses(r)
  <2>1. ParentEnds \in SUBSET Ends
    BY DEF Ends, ParentEnds
  <2> QED
    BY <1>5, <2>1 DEF ParentCloses
<1>6. CASE CopyEnds(r) \/ ChildSetup(r)
  <2>1. {"cgi_input[1]", "cgi_output[0]"} \in SUBSET Ends
    BY DEF Ends
  <2> QED
    BY <1>6, <2>1 DEF CopyEnds, ChildSetup
<1>7. CASE CloseClient(r)
  <2>1. {"sock"} \in SUBSET Ends
    BY DEF Ends
  <2> QED
    BY <1>7, <2>1 DEF CloseClient
<1>8. CASE Fork(r)
  BY <1>8 DEF Fork
<1>9. CASE ChildCrashes(r) \/ ExeclFails(r) \/ FindCgi(r) \/ ChildExit(r)
  BY <1>9 DEF ChildCrashes, ExeclFails, FindCgi, ChildExit, Exit
<1> QED
  BY <1>1, <1>2, <1>3, <1>4, <1>5, <1>6, <1>7, <1>8, <1>9 DEF Step, WorkerStep, ChildStep

\* A step of call r leaves every other call alone; what it does to the tables
\* changes neither what the server nor what that call's child holds of it.
LEMMA Others ==
  ASSUME Types, NEW r \in Requests, Step(r), NEW q \in Requests \ {r}
  PROVE  /\ pc'[q] = pc[q] /\ method'[q] = method[q] /\ content_length'[q] = content_length[q]
         /\ arrived'[q] = arrived[q] /\ received'[q] = received[q] /\ c'[q] = c[q]
         /\ fed'[q] = fed[q] /\ unread'[q] = unread[q] /\ child'[q] = child[q]
         /\ spilled'[q] = spilled[q] /\ produced'[q] = produced[q] /\ uncopied'[q] = uncopied[q] /\ answer'[q] = answer[q]
         /\ \A e \in Ends : /\ Server \in open'[q][e] <=> Server \in open[q][e]
                            /\ q \in open'[q][e] <=> q \in open[q][e]
<1>1. \A e \in Ends : /\ Server \in open'[q][e] <=> Server \in open[q][e]
                      /\ q \in open'[q][e] <=> q \in open[q][e]
  <2>1. r \in Processes /\ Server \in Processes /\ Server # r
    BY CgiAssumption DEF Processes
  <2>2. open \in [Requests -> [Ends -> SUBSET Processes]]
    BY DEF Types
  <2>3. CASE UNCHANGED open
    BY <2>3
  <2>4. CASE \E ends \in SUBSET Ends : open' = OpenEnds(r, ends)
    BY <2>1, <2>2, <2>4, OpenFacts
  <2>5. CASE \E p \in {Server, r}, ends \in SUBSET Ends : open' = CloseEnds(p, r, ends)
    <3>1. PICK p \in {Server, r}, ends \in SUBSET Ends : open' = CloseEnds(p, r, ends)
      BY <2>5
    <3>2. p \in Processes
      BY <2>1
    <3> QED
      BY <2>2, <3>1, <3>2, CloseFacts
  <2>6. CASE open' = Inherit(r)
    <3>1. \A e \in Ends : open'[q][e] = IF Server \in open[q][e] THEN open[q][e] \cup {r} ELSE open[q][e]
      BY <2>6 DEF Inherit
    <3> QED
      BY <2>1, <3>1
  <2>7. CASE open' = CloseAll(r)
    <3>1. \A e \in Ends : open'[q][e] = open[q][e] \ {r}
      BY <2>7 DEF CloseAll
    <3> QED
      BY <2>1, <3>1
  <2> QED
    BY <2>3, <2>4, <2>5, <2>6, <2>7, Tables
<1> USE DEF Types, Goto, request, input, output
<1>2. CASE SendBody(r)
  BY <1>1, <1>2 DEF SendBody
<1>3. CASE Headers(r)
  BY <1>1, <1>3 DEF Headers
<1>4. CASE PipeIn(r) \/ PipeOut(r) \/ PipeOrForkFails(r) \/ Fork(r) \/ ParentCloses(r)
  BY <1>1, <1>4 DEF PipeIn, PipeOut, PipeOrForkFails, Fork, ParentCloses
<1>5. CASE PostRecv(r) \/ PostWrite(r)
  BY <1>1, <1>5, SMTT(30) DEF PostRecv, PostWrite, Recv
<1>6. CASE SigPipe(r) \/ CopyByte(r)
  BY <1>1, <1>6 DEF SigPipe, CopyByte
<1>7. CASE CopyEnds(r) \/ WaitPid(r) \/ CloseClient(r)
  BY <1>1, <1>7, SMTT(30) DEF CopyEnds, WaitPid, CloseClient
<1>8. CASE ChildSetup(r) \/ ChildExec(r) \/ ChildCrashes(r) \/ ExeclFails(r)
  BY <1>1, <1>8 DEF ChildSetup, ChildExec, ChildCrashes, ExeclFails, Exit
<1>9. CASE FindCgi(r) \/ Filter(r)
  BY <1>1, <1>9 DEF FindCgi, Filter, Write, Exit
<1>10. CASE ChildBody(r) \/ ChildExit(r)
  BY <1>1, <1>10 DEF ChildBody, ChildExit, Write, Exit
<1> QED
  BY <1>2, <1>3, <1>4, <1>5, <1>6, <1>7, <1>8, <1>9, <1>10 DEF Step, WorkerStep, ChildStep

\* The steps that touch the request and its body.
LEMMA InputMoves ==
  ASSUME NEW r \in Requests, Step(r)
  PROVE  \/ SendBody(r) \/ Headers(r) \/ PostRecv(r) \/ PostWrite(r) \/ Filter(r)
         \/ UNCHANGED <<request, input>>
  BY DEF Step, WorkerStep, ChildStep, PipeIn, PipeOut, PipeOrForkFails, Fork, ParentCloses, SigPipe, CopyByte,
         CopyEnds, WaitPid, CloseClient, ChildSetup, ChildExec, ChildCrashes, ExeclFails, FindCgi, ChildBody, ChildExit

\* The steps that touch the output: a byte is copied, a program that is not
\* done yet writes one, execl fails, or none of these.
LEMMA OutputMoves ==
  ASSUME NEW r \in Requests, Step(r)
  PROVE  \/ CopyByte(r)
         \/ /\ Write(r) /\ child[r] \in {"find_cgi", "body"} /\ (produced[r] = 0 \/ produced[r] < Output)
            /\ UNCHANGED <<pc, child>>
         \/ ExeclFails(r)
         \/ UNCHANGED output
  BY DEF Step, WorkerStep, ChildStep, SendBody, Headers, PipeIn, PipeOut, PipeOrForkFails, Fork, ParentCloses,
         PostRecv, PostWrite, SigPipe, CopyEnds, WaitPid, CloseClient, ChildSetup, ChildExec, ChildCrashes,
         FindCgi, Filter, ChildBody, ChildExit, output

\* Every step keeps the variables in their sets.
LEMMA TypesStep ==
  ASSUME Types, NEW r \in Requests, Bounds(r), Step(r)
  PROVE  Types'
<1>1. open' \in [Requests -> [Ends -> SUBSET Processes]]
  <2>1. r \in Processes /\ Server \in Processes
    BY DEF Processes
  <2>2. open \in [Requests -> [Ends -> SUBSET Processes]]
    BY DEF Types
  <2>3. CASE \E ends \in SUBSET Ends : open' = OpenEnds(r, ends)
    BY <2>1, <2>2, <2>3, OpenFacts
  <2>4. CASE \E p \in {Server, r}, ends \in SUBSET Ends : open' = CloseEnds(p, r, ends)
    <3>1. PICK p \in {Server, r}, ends \in SUBSET Ends : open' = CloseEnds(p, r, ends)
      BY <2>4
    <3>2. p \in Processes
      BY <2>1
    <3> QED
      BY <2>2, <3>1, <3>2, CloseFacts
  <2>5. CASE open' = Inherit(r) \/ open' = CloseAll(r)
    BY <2>2, <2>5, ForkFacts
  <2> QED
    BY <2>2, <2>3, <2>4, <2>5, Tables
<1>2. /\ pc' \in [Requests -> {"accepted", "pipe_in", "pipe_out", "fork", "parent", "recv", "write",
                               "copy", "waitpid", "return", "closed"}]
      /\ method' \in [Requests -> Methods]
      /\ program' \in [Requests -> Programs]
      /\ child' \in [Requests -> {"none", "forked", "dup2", "find_cgi", "filter", "body", "zombie", "reaped"}]
  <2> USE CgiAssumption DEF Types, Goto, request, input, output
  <2>1. CASE SendBody(r) \/ Headers(r) \/ PipeIn(r) \/ PipeOut(r)
    BY <2>1, ZenonT(30) DEF SendBody, Headers, PipeIn, PipeOut
  <2>2. CASE PipeOrForkFails(r) \/ Fork(r) \/ ParentCloses(r) \/ PostRecv(r)
    BY <2>2, ZenonT(30) DEF PipeOrForkFails, Fork, ParentCloses, PostRecv
  <2>3. CASE PostWrite(r) \/ SigPipe(r) \/ CopyByte(r) \/ CopyEnds(r) \/ WaitPid(r) \/ CloseClient(r)
    BY <2>3, ZenonT(30) DEF PostWrite, SigPipe, CopyByte, CopyEnds, WaitPid, CloseClient
  <2>4. CASE ChildSetup(r) \/ ChildCrashes(r) \/ ExeclFails(r)
    BY <2>4, ZenonT(30) DEF ChildSetup, ChildCrashes, ExeclFails, Exit
  <2>5. CASE ChildExec(r)
    <3>1. program[r] \in {"find_cgi", "filter"}
      OBVIOUS
    <3> QED
      BY <2>5, <3>1 DEF ChildExec
  <2>6. CASE FindCgi(r) \/ Filter(r) \/ ChildBody(r) \/ ChildExit(r)
    BY <2>6, ZenonT(30) DEF FindCgi, Filter, ChildBody, ChildExit, Exit
  <2> QED
    BY <2>1, <2>2, <2>3, <2>4, <2>5, <2>6 DEF Step, WorkerStep, ChildStep
<1>3. /\ content_length' \in [Requests -> Lengths \cup {0}]
      /\ arrived' \in [Requests -> Nat] /\ received' \in [Requests -> Nat] /\ c' \in [Requests -> Nat]
      /\ fed' \in [Requests -> Seq(Nat)] /\ unread' \in [Requests -> Nat]
  <2> USE DEF Types
  <2>1. CASE SendBody(r)
    <3>1. arrived' \in [Requests -> Nat]
      BY <2>1 DEF SendBody
    <3> QED
      BY <2>1, <3>1 DEF SendBody, request
  <2>2. CASE Headers(r)
    <3>1. PICK n \in Lengths \cup {0} :
            /\ content_length' = [content_length EXCEPT ![r] = n]
            /\ arrived' = [arrived EXCEPT ![r] = IF r \in Prompt /\ n > 0 THEN n ELSE 0]
      <4>1. PICK n \in IF method[r] = "POST" THEN Lengths ELSE {0} :
              /\ content_length' = [content_length EXCEPT ![r] = n]
              /\ arrived' = [arrived EXCEPT ![r] = IF r \in Prompt /\ n > 0 THEN n ELSE 0]
        BY <2>2 DEF Headers
      <4>2. n \in Lengths \cup {0}
        OBVIOUS
      <4> QED
        BY <4>1, <4>2
    <3>2. (IF r \in Prompt /\ n > 0 THEN n ELSE 0) \in Nat
      BY CgiAssumption
    <3>3. arrived' \in [Requests -> Nat]
      BY <3>1, <3>2
    <3> QED
      BY <2>2, <3>1, <3>3 DEF Headers
  <2>3. CASE PostRecv(r)
    <3>1. received' \in [Requests -> Nat] /\ c' \in [Requests -> Nat]
      <4>1. received[r] + 1 \in Nat
        OBVIOUS
      <4>2. CASE UNCHANGED <<received, c>>
        BY <4>2
      <4>3. CASE /\ received' = [received EXCEPT ![r] = received[r] + 1]
                 /\ c' = [c EXCEPT ![r] = received[r] + 1]
        BY <4>1, <4>3
      <4> QED
        BY <2>3, <4>2, <4>3 DEF PostRecv, Recv
    <3> QED
      BY <2>3, <3>1 DEF PostRecv, request
  <2>4. CASE PostWrite(r)
    <3>1. Append(fed[r], c[r]) \in Seq(Nat)
      BY AppendFacts
    <3>2. fed' \in [Requests -> Seq(Nat)] /\ unread' \in [Requests -> Nat]
      BY <2>4, <3>1 DEF PostWrite
    <3> QED
      BY <2>4, <3>2 DEF PostWrite, request
  <2>5. CASE Filter(r)
    <3>1. unread' \in [Requests -> Nat]
      <4>1. unread[r] > 0 => unread[r] - 1 \in Nat
        OBVIOUS
      <4> QED
        BY <2>5, <4>1 DEF Filter
    <3> QED
      BY <2>5, <3>1 DEF Filter, request
  <2>6. CASE UNCHANGED <<request, input>>
    BY <2>6 DEF request, input
  <2> QED
    BY <2>1, <2>2, <2>3, <2>4, <2>5, <2>6, InputMoves
<1>4. /\ spilled' \in [Requests -> BOOLEAN] /\ produced' \in [Requests -> Nat] /\ uncopied' \in [Requests -> Nat]
      /\ answer' \in [Requests -> Seq(Nat)]
  <2> USE DEF Types
  <2>1. CASE CopyByte(r)
    <3>1. uncopied' \in [Requests -> Nat]
      BY <2>1 DEF CopyByte
    <3>2. Byte(r, produced[r] - uncopied[r] + 1) \in Nat
      BY DEF Bounds, Byte
    <3>3. Append(answer[r], Byte(r, produced[r] - uncopied[r] + 1)) \in Seq(Nat)
      BY <3>2, AppendFacts
    <3>4. answer' \in [Requests -> Seq(Nat)]
      BY <2>1, <3>3 DEF CopyByte
    <3> QED
      BY <2>1, <3>1, <3>4 DEF CopyByte
  <2>2. CASE Write(r)
    <3>1. uncopied[r] + 1 \in Nat /\ produced[r] + 1 \in Nat
      OBVIOUS
    <3> QED
      BY <2>2, <3>1 DEF Write
  <2>3. CASE ExeclFails(r)
    <3>1. PICK n \in 0 .. Log : /\ spilled' = [spilled EXCEPT ![r] = n > 0]
                                /\ produced' = [produced EXCEPT ![r] = n]
                                /\ uncopied' = [uncopied EXCEPT ![r] = n]
      BY <2>3 DEF ExeclFails
    <3>2. n \in Nat /\ (n > 0) \in BOOLEAN
      BY CgiAssumption
    <3>3. spilled' \in [Requests -> BOOLEAN]
      BY <3>1, <3>2
    <3>4. produced' \in [Requests -> Nat] /\ uncopied' \in [Requests -> Nat]
      BY <3>1, <3>2
    <3> QED
      BY <2>3, <3>3, <3>4 DEF ExeclFails
  <2>4. CASE UNCHANGED output
    BY <2>4 DEF output
  <2> QED
    BY <2>1, <2>2, <2>3, <2>4, OutputMoves
<1>5. alive' \in BOOLEAN
  BY DEF Types, Step, WorkerStep, ChildStep, SendBody, Headers, PipeIn, PipeOut, PipeOrForkFails, Fork,
         ParentCloses, PostRecv, PostWrite, SigPipe, CopyByte, CopyEnds, WaitPid, CloseClient, ChildSetup,
         ChildExec, ChildCrashes, ExeclFails, FindCgi, Filter, ChildBody, ChildExit
<1> QED
  BY <1>1, <1>2, <1>3, <1>4, <1>5 DEF Types

-----------------------------------------------------------------------------
(* The call that takes the step *)

\* A pipe is read to its end only when the child has ended: a running child
\* holds its write end itself.
LEMMA EndMeansEnded ==
  ASSUME Types, NEW r \in Requests, Stage(r), EndsHeld(r), pc[r] = "copy", EndOfOutput(r)
  PROVE  child[r] = "zombie" /\ uncopied[r] = 0
  BY DEF EndOfOutput, EndsHeld, Stage, Serving, Running

\* Worker and child keep in step.
LEMMA StageStep ==
  ASSUME Types, NEW r \in Requests, Stage(r), EndsHeld(r), Step(r)
  PROVE  Stage(r)'
<1> USE DEF Stage, Early, Serving, Running, Types, Goto
<1>1. CASE SendBody(r) \/ Headers(r) \/ PipeIn(r) \/ PipeOut(r)
  BY <1>1 DEF SendBody, Headers, PipeIn, PipeOut
<1>2. CASE PipeOrForkFails(r) \/ Fork(r) \/ ParentCloses(r) \/ PostRecv(r)
  BY <1>2, SMTT(30) DEF PipeOrForkFails, Fork, ParentCloses, PostRecv
<1>3. CASE PostWrite(r) \/ SigPipe(r) \/ CopyByte(r) \/ WaitPid(r) \/ CloseClient(r)
  BY <1>3 DEF PostWrite, SigPipe, CopyByte, WaitPid, CloseClient
<1>4. CASE CopyEnds(r)
  BY <1>4, EndMeansEnded DEF CopyEnds
<1>5. CASE ChildSetup(r) \/ ChildCrashes(r) \/ ExeclFails(r)
  BY <1>5 DEF ChildSetup, ChildCrashes, ExeclFails, Exit
<1>6. CASE ChildExec(r)
  <2>1. program[r] \in {"find_cgi", "filter"}
    BY CgiAssumption
  <2> QED
    BY <1>6, <2>1 DEF ChildExec
<1>7. CASE FindCgi(r) \/ Filter(r) \/ ChildBody(r) \/ ChildExit(r)
  BY <1>7 DEF FindCgi, Filter, ChildBody, ChildExit, Exit
<1> QED
  BY <1>1, <1>2, <1>3, <1>4, <1>5, <1>6, <1>7 DEF Step, WorkerStep, ChildStep

\* The server and the child hold the ends they need and no others.
LEMMA EndsHeldStep ==
  ASSUME Types, NEW r \in Requests, Stage(r), EndsHeld(r), Step(r)
  PROVE  EndsHeld(r)'
<1>0. /\ r \in Processes /\ Server \in Processes /\ Server # r
      /\ open \in [Requests -> [Ends -> SUBSET Processes]]
  BY CgiAssumption DEF Processes, Types
<1> USE DEF Goto
<1>1. CASE SendBody(r) \/ SigPipe(r) \/ CopyByte(r) \/ ChildBody(r)
  BY <1>1 DEF SendBody, SigPipe, CopyByte, ChildBody, EndsHeld
<1>2. CASE Headers(r) \/ PostRecv(r) \/ PostWrite(r)
  <2>1. /\ UNCHANGED <<open, child>>
        /\ \/ pc[r] = "accepted" /\ pc'[r] \in {"return", "pipe_in"}
           \/ pc[r] \in {"recv", "write"} /\ pc'[r] \in {"recv", "write", "copy"}
    BY <1>2 DEF Headers, PostRecv, PostWrite, Types
  <2> QED
    BY <2>1 DEF EndsHeld
<1>3. CASE PipeIn(r)
  <2>1. pc[r] = "pipe_in" /\ pc'[r] = "pipe_out" /\ child'[r] = "none"
    BY <1>3 DEF PipeIn, Types, Stage, Early
  <2>2. \A e \in {"cgi_output[0]", "cgi_output[1]"} : open'[r][e] = open[r][e]
    <3>1. {"cgi_input[0]", "cgi_input[1]"} \in SUBSET Ends
      BY DEF Ends
    <3>2. open' = OpenEnds(r, {"cgi_input[0]", "cgi_input[1]"})
      BY <1>3 DEF PipeIn
    <3> QED
      BY <1>0, <3>1, <3>2, OpenFacts DEF Ends
  <2> QED
    BY <2>1, <2>2 DEF EndsHeld, Running, Pipes, Ends
<1>4. CASE PipeOut(r)
  <2>1. pc'[r] = "fork" /\ child'[r] = "none"
    BY <1>4 DEF PipeOut, Types, Stage, Early
  <2>2. Server \in open'[r]["cgi_output[1]"] /\ Server \in open'[r]["cgi_output[0]"]
    <3>1. {"cgi_output[0]", "cgi_output[1]"} \in SUBSET Ends
      BY DEF Ends
    <3>2. open' = OpenEnds(r, {"cgi_output[0]", "cgi_output[1]"})
      BY <1>4 DEF PipeOut
    <3> QED
      BY <1>0, <3>1, <3>2, OpenFacts
  <2> QED
    BY <2>1, <2>2 DEF EndsHeld, Running
<1>5. CASE PipeOrForkFails(r)
  <2>1. pc'[r] = "return" /\ child'[r] = "none"
    BY <1>5 DEF PipeOrForkFails, Types, Stage, Early
  <2>2. \A e \in Pipes : Server \notin open'[r][e]
    <3>1. GiveUp(pc[r]) \in SUBSET Ends
      BY <1>5 DEF PipeOrForkFails, GiveUp, Pipes, Ends
    <3>2. open' = CloseEnds(Server, r, GiveUp(pc[r]))
      BY <1>5 DEF PipeOrForkFails
    <3>3. /\ \A e \in GiveUp(pc[r]) : open'[r][e] = open[r][e] \ {Server}
          /\ \A e \in Ends \ GiveUp(pc[r]) : open'[r][e] = open[r][e]
      BY <1>0, <3>1, <3>2, CloseFacts
    <3>4. \A e \in Pipes \ GiveUp(pc[r]) : Server \notin open[r][e]
      BY <1>5 DEF PipeOrForkFails, EndsHeld, GiveUp, Pipes, Ends
    <3> QED
      BY <3>3, <3>4 DEF Pipes
  <2> QED
    BY <2>1, <2>2 DEF EndsHeld, Running
<1>6. CASE Fork(r)
  <2>1. pc[r] = "fork" /\ pc'[r] = "parent" /\ open' = Inherit(r)
    BY <1>6 DEF Fork, Types
  <2>2. \A e \in Ends : open'[r][e] = IF Server \in open[r][e] THEN open[r][e] \cup {r} ELSE open[r][e]
    BY <2>1 DEF Inherit
  <2>3. \A e \in {"cgi_output[0]", "cgi_output[1]"} : Server \in open'[r][e] /\ r \in open'[r][e]
    BY <2>1, <2>2 DEF EndsHeld, Ends
  <2> QED
    BY <2>1, <2>3 DEF EndsHeld
<1>7. CASE ParentCloses(r)
  <2>1. pc[r] = "parent" /\ pc'[r] \in {"recv", "copy"} /\ UNCHANGED child
    BY <1>7 DEF ParentCloses, Types
  <2>2. /\ \A e \in ParentEnds : open'[r][e] = open[r][e] \ {Server}
        /\ \A e \in Ends \ ParentEnds : open'[r][e] = open[r][e]
    <3>1. ParentEnds \in SUBSET Ends
      BY DEF Ends, ParentEnds
    <3>2. open' = CloseEnds(Server, r, ParentEnds)
      BY <1>7 DEF ParentCloses
    <3> QED
      BY <1>0, <3>1, <3>2, CloseFacts
  <2>3. /\ Server \in open'[r]["cgi_output[0]"]
        /\ Server \notin open'[r]["cgi_input[0]"] /\ Server \notin open'[r]["cgi_output[1]"]
        /\ child[r] \in Running => r \in open'[r]["cgi_output[1]"]
    BY <1>0, <2>1, <2>2 DEF EndsHeld, Ends, ParentEnds
  <2> QED
    BY <2>1, <2>3 DEF EndsHeld
<1>8. CASE CopyEnds(r)
  <2>1. pc[r] = "copy" /\ pc'[r] = "waitpid" /\ child'[r] = "zombie"
    BY <1>8, EndMeansEnded DEF CopyEnds, Types
  <2>2. /\ \A e \in {"cgi_input[1]", "cgi_output[0]"} : open'[r][e] = open[r][e] \ {Server}
        /\ \A e \in Ends \ {"cgi_input[1]", "cgi_output[0]"} : open'[r][e] = open[r][e]
    <3>1. {"cgi_input[1]", "cgi_output[0]"} \in SUBSET Ends
      BY DEF Ends
    <3>2. open' = CloseEnds(Server, r, {"cgi_input[1]", "cgi_output[0]"})
      BY <1>8 DEF CopyEnds
    <3> QED
      BY <1>0, <3>1, <3>2, CloseFacts
  <2>3. \A e \in Pipes : Server \notin open'[r][e]
    BY <2>1, <2>2 DEF EndsHeld, Pipes, Ends
  <2> QED
    BY <2>1, <2>3 DEF EndsHeld, Running
<1>9. CASE WaitPid(r)
  <2>1. pc[r] = "waitpid" /\ pc'[r] = "return" /\ child'[r] = "reaped" /\ UNCHANGED open
    BY <1>9 DEF WaitPid, Types
  <2> QED
    BY <2>1 DEF EndsHeld, Running
<1>10. CASE CloseClient(r)
  <2>1. pc[r] = "return" /\ pc'[r] = "closed" /\ child'[r] \in {"none", "reaped"}
    BY <1>10 DEF CloseClient, Types, Stage
  <2>2. \A e \in Pipes : open'[r][e] = open[r][e]
    <3>1. {"sock"} \in SUBSET Ends
      BY DEF Ends
    <3>2. open' = CloseEnds(Server, r, {"sock"})
      BY <1>10 DEF CloseClient
    <3> QED
      BY <1>0, <3>1, <3>2, CloseFacts DEF Pipes
  <2> QED
    BY <2>1, <2>2 DEF EndsHeld, Running
<1>11. CASE ChildSetup(r)
  <2>1. child[r] = "forked" /\ UNCHANGED pc
    BY <1>11 DEF ChildSetup
  <2>2. /\ \A e \in {"cgi_input[1]", "cgi_output[0]"} : open'[r][e] = open[r][e] \ {r}
        /\ \A e \in Ends \ {"cgi_input[1]", "cgi_output[0]"} : open'[r][e] = open[r][e]
    <3>1. {"cgi_input[1]", "cgi_output[0]"} \in SUBSET Ends
      BY DEF Ends
    <3>2. open' = CloseEnds(r, r, {"cgi_input[1]", "cgi_output[0]"})
      BY <1>11 DEF ChildSetup
    <3> QED
      BY <1>0, <3>1, <3>2, CloseFacts
  <2>3. \A e \in Ends : Server \in open'[r][e] <=> Server \in open[r][e]
    BY <1>0, <2>2
  <2>4. r \in open'[r]["cgi_output[1]"]
    BY <2>1, <2>2 DEF EndsHeld, Running, Ends
  <2> QED
    BY <2>1, <2>3, <2>4 DEF EndsHeld, Pipes, Ends
<1>12. CASE ChildExec(r) \/ Filter(r) \/ (FindCgi(r) /\ UNCHANGED open)
  <2>1. child[r] \in Running /\ UNCHANGED <<pc, open>>
    BY <1>12 DEF ChildExec, Filter, FindCgi, Running
  <2> QED
    BY <2>1 DEF EndsHeld
<1>13. CASE Exit(r) /\ UNCHANGED pc
  <2>1. child'[r] = "zombie" /\ \A e \in Ends : open'[r][e] = open[r][e] \ {r}
    BY <1>13 DEF Exit, CloseAll, Types
  <2>2. \A e \in Ends : Server \in open'[r][e] <=> Server \in open[r][e]
    BY <1>0, <2>1
  <2> QED
    BY <1>13, <2>1, <2>2 DEF EndsHeld, Pipes, Ends, Running
<1>14. ChildCrashes(r) \/ ExeclFails(r) \/ FindCgi(r) \/ ChildExit(r) =>
         \/ FindCgi(r) /\ UNCHANGED open
         \/ Exit(r) /\ UNCHANGED pc
  BY DEF ChildCrashes, ExeclFails, FindCgi, ChildExit
<1> QED
  BY <1>1, <1>2, <1>3, <1>4, <1>5, <1>6, <1>7, <1>8, <1>9, <1>10, <1>11, <1>12, <1>13, <1>14
     DEF Step, WorkerStep, ChildStep

\* What CopyByte does to its call.
LEMMA CopyFacts ==
  ASSUME Types, NEW r \in Requests, Bounds(r), CopyByte(r)
  PROVE  /\ uncopied[r] \in Nat \ {0} /\ uncopied'[r] = uncopied[r] - 1
         /\ produced[r] \in Nat /\ uncopied[r] <= produced[r] /\ UNCHANGED <<spilled, produced, pc, child>>
         /\ Len(answer[r]) \in Nat
         /\ \/ r \notin Prompt /\ answer'[r] = answer[r]
            \/ /\ Len(answer'[r]) = Len(answer[r]) + 1
               /\ answer'[r][Len(answer[r]) + 1] = Byte(r, produced[r] - uncopied[r] + 1)
               /\ \A i \in 1 .. Len(answer[r]) : answer'[r][i] = answer[r][i]
<1>1. /\ uncopied[r] \in Nat \ {0} /\ uncopied'[r] = uncopied[r] - 1
      /\ produced[r] \in Nat /\ uncopied[r] <= produced[r] /\ UNCHANGED <<spilled, produced, pc, child>>
  BY DEF CopyByte, Types, Bounds
<1>2. answer[r] \in Seq(Nat) /\ Byte(r, produced[r] - uncopied[r] + 1) \in Nat
  BY <1>1 DEF Types, Byte
<1>3. \/ r \notin Prompt /\ answer'[r] = answer[r]
      \/ answer'[r] = Append(answer[r], Byte(r, produced[r] - uncopied[r] + 1))
  BY DEF CopyByte, Types
<1> DEFINE more == Append(answer[r], Byte(r, produced[r] - uncopied[r] + 1))
<1>4. /\ Len(answer[r]) \in Nat /\ Len(more) = Len(answer[r]) + 1
      /\ more[Len(answer[r]) + 1] = Byte(r, produced[r] - uncopied[r] + 1)
      /\ \A i \in 1 .. Len(answer[r]) : more[i] = answer[r][i]
  BY <1>2, AppendFacts
<1> QED
  BY <1>1, <1>3, <1>4

\* What Write does to its call.
LEMMA WriteFacts ==
  ASSUME Types, NEW r \in Requests, Write(r)
  PROVE  /\ uncopied[r] \in Nat /\ uncopied[r] < PIPE_BUF /\ uncopied'[r] = uncopied[r] + 1
         /\ produced[r] \in Nat /\ produced'[r] = produced[r] + 1 /\ UNCHANGED <<spilled, answer>>
  BY DEF Write, Types

\* What a failed execl does to its call.
LEMMA SpillFacts ==
  ASSUME Types, NEW r \in Requests, ExeclFails(r)
  PROVE  /\ child[r] = "dup2" /\ child'[r] = "zombie" /\ UNCHANGED <<pc, answer>>
         /\ produced'[r] \in 0 .. Log /\ uncopied'[r] = produced'[r]
         /\ spilled'[r] \in BOOLEAN /\ (spilled'[r] <=> produced'[r] > 0)
<1>1. PICK n \in 0 .. Log : /\ spilled' = [spilled EXCEPT ![r] = n > 0]
                            /\ produced' = [produced EXCEPT ![r] = n]
                            /\ uncopied' = [uncopied EXCEPT ![r] = n]
  BY DEF ExeclFails
<1>2. produced'[r] = n /\ uncopied'[r] = n
  BY <1>1 DEF Types
<1>4. spilled'[r] \in BOOLEAN /\ (spilled'[r] <=> n > 0)
  <2>1. (n > 0) \in BOOLEAN
    BY CgiAssumption
  <2>2. spilled'[r] = (n > 0)
    BY <1>1, Zenon DEF Types
  <2> QED
    BY <2>1, <2>2
<1>3. child[r] = "dup2" /\ child'[r] = "zombie" /\ UNCHANGED <<pc, answer>>
  BY DEF ExeclFails, Exit, Types
<1> QED
  BY <1>2, <1>3, <1>4

\* What PostWrite does to its call.
LEMMA FeedFacts ==
  ASSUME Types, NEW r \in Requests, PostWrite(r)
  PROVE  /\ Len(fed[r]) \in Nat /\ fed'[r] # << >> /\ Len(fed'[r]) = Len(fed[r]) + 1
         /\ fed'[r][Len(fed[r]) + 1] = c[r] /\ c[r] \in Nat
         /\ \A i \in 1 .. Len(fed[r]) : fed'[r][i] = fed[r][i]
         /\ unread'[r] = unread[r] + 1 /\ unread[r] \in Nat /\ unread[r] < PIPE_BUF
         /\ UNCHANGED <<request, arrived, received, c>>
         /\ pc[r] = "write"
         /\ pc'[r] = IF Len(fed[r]) + 1 < content_length[r] THEN "recv" ELSE "copy"
<1>1. fed[r] \in Seq(Nat) /\ c[r] \in Nat
  BY DEF Types
<1>2. fed'[r] = Append(fed[r], c[r])
  BY DEF PostWrite, Types
<1>3. /\ Len(fed[r]) \in Nat /\ fed'[r] # << >> /\ Len(fed'[r]) = Len(fed[r]) + 1
      /\ fed'[r][Len(fed[r]) + 1] = c[r]
      /\ \A i \in 1 .. Len(fed[r]) : fed'[r][i] = fed[r][i]
  BY <1>1, <1>2, AppendFacts
<1>4. /\ unread'[r] = unread[r] + 1 /\ unread[r] \in Nat /\ unread[r] < PIPE_BUF
      /\ UNCHANGED <<request, arrived, received, c>>
      /\ pc[r] = "write"
      /\ pc'[r] = IF Len(fed[r]) + 1 < content_length[r] THEN "recv" ELSE "copy"
  BY DEF PostWrite, Types, Goto
<1> QED
  BY <1>1, <1>3, <1>4

\* What PostRecv does to its call.
LEMMA RecvFacts ==
  ASSUME Types, NEW r \in Requests, PostRecv(r)
  PROVE  /\ pc[r] = "recv" /\ pc'[r] = "write" /\ UNCHANGED <<request, arrived, fed, unread>>
         /\ \/ /\ received[r] < arrived[r] /\ received'[r] = received[r] + 1 /\ c'[r] = received[r] + 1
            \/ /\ ~(received[r] < arrived[r]) /\ received'[r] = received[r] /\ c'[r] = c[r]
  BY DEF PostRecv, Recv, Goto, Types

\* What Headers does to its call.
LEMMA HeaderFacts ==
  ASSUME Types, NEW r \in Requests, Headers(r)
  PROVE  /\ pc[r] = "accepted" /\ pc'[r] \in {"return", "pipe_in"} /\ UNCHANGED <<received, c, fed, unread>>
         /\ content_length'[r] \in Int
         /\ arrived'[r] = IF r \in Prompt /\ content_length'[r] > 0 THEN content_length'[r] ELSE 0
<1>1. PICK n \in IF method[r] = "POST" THEN Lengths ELSE {0} :
        /\ content_length' = [content_length EXCEPT ![r] = n]
        /\ arrived' = [arrived EXCEPT ![r] = IF r \in Prompt /\ n > 0 THEN n ELSE 0]
        /\ Goto(r, IF n = -1 THEN "return" ELSE "pipe_in")
  BY DEF Headers
<1>2. n \in Int
  BY CgiAssumption
<1>3. content_length'[r] = n /\ arrived'[r] = IF r \in Prompt /\ n > 0 THEN n ELSE 0
  BY <1>1 DEF Types
<1> QED
  BY <1>1, <1>2, <1>3 DEF Headers, Goto, Types

\* The counters of a call stay within their bounds.
LEMMA BoundsStep ==
  ASSUME Types, NEW r \in Requests, Bounds(r), Copied(r), Relayed(r), Step(r)
  PROVE  Bounds(r)'
<1> USE CgiAssumption
<1>1. /\ c'[r] <= received'[r] /\ received'[r] <= arrived'[r]
      /\ unread'[r] <= PIPE_BUF /\ unread'[r] <= Len(fed'[r])
      /\ \A i \in 1 .. Len(fed'[r]) : fed'[r][i] <= received'[r]
  <2>0. /\ arrived[r] \in Nat /\ received[r] \in Nat /\ c[r] \in Nat /\ unread[r] \in Nat
        /\ fed[r] \in Seq(Nat) /\ Len(fed[r]) \in Nat
        /\ \A i \in 1 .. Len(fed[r]) : fed[r][i] \in Nat
    BY LenProperties, ElementOfSeq DEF Types
  <2>1. CASE SendBody(r)
    BY <2>0, <2>1 DEF SendBody, Bounds, Types
  <2>2. CASE Headers(r)
    BY <2>0, <2>2, HeaderFacts DEF Bounds, Relayed, Early
  <2>3. CASE PostRecv(r)
    <3>1. /\ UNCHANGED <<arrived, fed, unread>> /\ c'[r] <= received'[r] /\ received'[r] <= arrived[r]
          /\ received'[r] \in Nat /\ received[r] <= received'[r]
      <4>1. /\ UNCHANGED <<arrived, fed, unread>>
            /\ \/ /\ received[r] < arrived[r] /\ received'[r] = received[r] + 1 /\ c'[r] = received[r] + 1
               \/ /\ ~(received[r] < arrived[r]) /\ received'[r] = received[r] /\ c'[r] = c[r]
        BY <2>3, RecvFacts
      <4>2. /\ arrived[r] \in Nat /\ received[r] \in Nat /\ c[r] \in Nat
            /\ c[r] <= received[r] /\ received[r] <= arrived[r]
        BY <2>0 DEF Bounds
      <4> QED
        BY <4>1, <4>2
    <3>2. \A i \in 1 .. Len(fed[r]) : fed[r][i] <= received'[r]
      BY <2>0, <3>1, SMTT(30) DEF Bounds
    <3> QED
      BY <3>1, <3>2 DEF Bounds
  <2>4. CASE PostWrite(r)
    <3>1. /\ Len(fed'[r]) = Len(fed[r]) + 1 /\ fed'[r][Len(fed[r]) + 1] = c[r]
          /\ \A i \in 1 .. Len(fed[r]) : fed'[r][i] = fed[r][i]
          /\ unread'[r] = unread[r] + 1 /\ unread[r] < PIPE_BUF /\ UNCHANGED <<arrived, received, c>>
      BY <2>4, FeedFacts
    <3>2. ASSUME NEW i \in 1 .. Len(fed'[r])
          PROVE  fed'[r][i] <= received[r]
      <4>1. CASE i = Len(fed[r]) + 1
        BY <3>1, <4>1 DEF Bounds
      <4>2. CASE i \in 1 .. Len(fed[r])
        BY <3>1, <4>2 DEF Bounds
      <4> QED
        BY <2>0, <3>1, <4>1, <4>2
    <3> QED
      BY <2>0, <3>1, <3>2 DEF Bounds
  <2>5. CASE Filter(r)
    <3>1. unread'[r] <= unread[r] /\ UNCHANGED <<arrived, received, c, fed>>
      BY <2>0, <2>5 DEF Filter, Types
    <3>2. unread'[r] <= PIPE_BUF /\ unread'[r] <= Len(fed[r])
      BY <2>0, <2>5 DEF Filter, Types, Bounds
    <3> QED
      BY <3>1, <3>2 DEF Bounds
  <2>6. CASE UNCHANGED <<request, input>>
    BY <2>6 DEF request, input, Bounds
  <2> QED
    BY <2>1, <2>2, <2>3, <2>4, <2>5, <2>6, InputMoves
<1>2. /\ produced'[r] <= (IF spilled'[r] THEN Log ELSE Output)
      /\ uncopied'[r] <= PIPE_BUF /\ uncopied'[r] <= produced'[r]
      /\ \A i \in 1 .. Len(answer'[r]) : answer'[r][i] <= produced'[r]
  <2>1. CASE CopyByte(r)
    <3>1. ASSUME NEW i \in 1 .. Len(answer'[r])
          PROVE  answer'[r][i] <= produced[r]
      <4>1. CASE answer'[r] = answer[r]
        BY <3>1, <4>1 DEF Bounds
      <4>2. CASE /\ Len(answer'[r]) = Len(answer[r]) + 1
                 /\ answer'[r][Len(answer[r]) + 1] = Byte(r, produced[r] - uncopied[r] + 1)
                 /\ \A k \in 1 .. Len(answer[r]) : answer'[r][k] = answer[r][k]
        <5>1. CASE i = Len(answer[r]) + 1
          BY <2>1, <4>2, <5>1, CopyFacts DEF Byte
        <5>2. CASE i \in 1 .. Len(answer[r])
          BY <4>2, <5>2 DEF Bounds
        <5> QED
          BY <2>1, <3>1, <4>2, <5>1, <5>2, CopyFacts
      <4> QED
        BY <2>1, <4>1, <4>2, CopyFacts
    <3> QED
      BY <2>1, <3>1, CopyFacts, SMTT(30) DEF Bounds
  <2>2. CASE Write(r) /\ child[r] \in {"find_cgi", "body"} /\ (produced[r] = 0 \/ produced[r] < Output)
    <3>1. /\ produced'[r] = produced[r] + 1 /\ uncopied'[r] = uncopied[r] + 1 /\ uncopied[r] < PIPE_BUF
          /\ produced[r] \in Nat /\ uncopied[r] \in Nat /\ UNCHANGED <<spilled, answer>>
      BY <2>2, WriteFacts
    <3>2. ~spilled[r]
      BY <2>2 DEF Copied
    <3>3. answer[r] \in Seq(Nat) /\ \A i \in 1 .. Len(answer[r]) : answer[r][i] \in Nat
      BY ElementOfSeq DEF Types
    <3>4. ASSUME NEW i \in 1 .. Len(answer[r])
          PROVE  answer[r][i] <= produced'[r]
      BY <3>1, <3>3 DEF Bounds
    <3> QED
      BY <2>2, <3>1, <3>2, <3>4 DEF Bounds
  <2>3. CASE ExeclFails(r)
    <3>1. Len(answer[r]) = 0 /\ UNCHANGED answer
      BY <2>3, SpillFacts DEF Copied
    <3> QED
      BY <2>3, <3>1, SpillFacts
  <2>4. CASE UNCHANGED output
    BY <2>4 DEF output, Bounds
  <2> QED
    BY <2>1, <2>2, <2>3, <2>4, OutputMoves
<1> QED
  BY <1>1, <1>2 DEF Bounds

\* Once a child has gone past dup2 it does not come back.
LEMMA NoReturn ==
  ASSUME Types, NEW r \in Requests, Stage(r), Step(r)
  PROVE  /\ child'[r] \in {"none", "forked", "dup2"} => child[r] \in {"none", "forked", "dup2"}
         /\ child[r] \in {"zombie", "reaped"} => child'[r] \in {"zombie", "reaped"}
<1> USE DEF Types
<1>1. CASE SendBody(r) \/ Headers(r) \/ PipeIn(r) \/ PipeOut(r) \/ PipeOrForkFails(r) \/ ParentCloses(r)
           \/ PostRecv(r) \/ PostWrite(r) \/ SigPipe(r) \/ CopyByte(r) \/ CopyEnds(r) \/ CloseClient(r)
  BY <1>1 DEF SendBody, Headers, PipeIn, PipeOut, PipeOrForkFails, ParentCloses,
              PostRecv, PostWrite, SigPipe, CopyByte, CopyEnds, CloseClient
<1>2. CASE Fork(r)
  BY <1>2 DEF Fork, Stage, Early
<1>3. CASE WaitPid(r)
  BY <1>3 DEF WaitPid
<1>4. CASE ChildExec(r)
  BY <1>4 DEF ChildExec
<1>5. CASE ChildSetup(r) \/ ChildCrashes(r) \/ ExeclFails(r)
  BY <1>5 DEF ChildSetup, ChildCrashes, ExeclFails, Exit
<1>6. CASE FindCgi(r) \/ Filter(r)
  BY <1>6 DEF FindCgi, Filter, Exit
<1>7. CASE ChildBody(r) \/ ChildExit(r)
  BY <1>7 DEF ChildBody, ChildExit, Exit
<1> QED
  BY <1>1, <1>2, <1>3, <1>4, <1>5, <1>6, <1>7 DEF Step, WorkerStep, ChildStep

\* The answer keeps being the output without the bytes a client refused.
LEMMA CopiedStep ==
  ASSUME Types, NEW r \in Requests, Bounds(r), Stage(r), EndsHeld(r), Copied(r), Step(r)
  PROVE  Copied(r)'
<1>0. /\ produced[r] \in Nat /\ uncopied[r] \in Nat /\ uncopied[r] <= produced[r] /\ Len(answer[r]) \in Nat
      /\ \A i \in 1 .. Len(answer[r]) : answer[r][i] \in Nat
  BY LenProperties, ElementOfSeq DEF Types, Bounds
<1>a. produced[r] \in Nat /\ uncopied[r] \in Nat
  BY <1>0
<1>1. CASE CopyByte(r)
  <2>1. /\ pc[r] = "copy" /\ uncopied'[r] = uncopied[r] - 1 /\ uncopied[r] \in Nat \ {0}
        /\ UNCHANGED <<spilled, produced, pc, child>>
        /\ \/ r \notin Prompt /\ answer'[r] = answer[r]
           \/ /\ Len(answer'[r]) = Len(answer[r]) + 1
              /\ answer'[r][Len(answer[r]) + 1] = Byte(r, produced[r] - uncopied[r] + 1)
              /\ \A i \in 1 .. Len(answer[r]) : answer'[r][i] = answer[r][i]
    BY <1>1, CopyFacts DEF CopyByte
  <2>a. child[r] \notin {"none", "forked", "dup2"}
    BY <1>0, <2>1 DEF Copied
  <2>2. CASE r \notin Prompt /\ answer'[r] = answer[r]
    <3>1. \A i \in 1 .. Len(answer[r]) : answer[r][i] <= produced[r] - uncopied'[r]
      BY <1>0, <2>1 DEF Copied
    <3> QED
      BY <2>1, <2>a, <2>2, <3>1 DEF Copied
  <2>3. CASE /\ Len(answer'[r]) = Len(answer[r]) + 1
             /\ answer'[r][Len(answer[r]) + 1] = Byte(r, produced[r] - uncopied[r] + 1)
             /\ \A i \in 1 .. Len(answer[r]) : answer'[r][i] = answer[r][i]
    <3>1. \A i \in 1 .. Len(answer'[r]) : i \in 1 .. Len(answer[r]) \/ i = Len(answer[r]) + 1
      BY <1>0, <2>3
    <3>2. ASSUME NEW i \in 1 .. Len(answer'[r])
          PROVE  answer'[r][i] <= produced'[r] - uncopied'[r] /\ (answer'[r][i] = 0 <=> spilled[r])
      <4>1. produced'[r] - uncopied'[r] = produced[r] - uncopied[r] + 1
        BY <1>a, <2>1
      <4>2. CASE i = Len(answer[r]) + 1
        BY <1>0, <2>3, <4>1, <4>2 DEF Byte
      <4>3. CASE i \in 1 .. Len(answer[r])
        <5>1. /\ answer'[r][i] = answer[r][i] /\ answer[r][i] \in Nat /\ answer[r][i] <= produced[r] - uncopied[r]
              /\ answer[r][i] = 0 <=> spilled[r]
          BY <1>0, <2>3, <4>3 DEF Copied
        <5> QED
          BY <1>a, <4>1, <5>1
      <4> QED
        BY <3>1, <4>2, <4>3
    <3>3. ASSUME ~spilled[r], NEW i \in 1 .. Len(answer'[r]), NEW j \in 1 .. Len(answer'[r]), j = i + 1
          PROVE  answer'[r][i] < answer'[r][j]
      <4>a. Len(answer'[r]) = Len(answer[r]) + 1 /\ Len(answer[r]) \in Nat
        BY <1>0, <2>3
      <4>b. i \in 1 .. Len(answer[r])
        BY <3>3, <4>a
      <4>1. i \in 1 .. Len(answer[r]) /\ answer'[r][i] = answer[r][i]
        BY <2>3, <4>b
      <4>2. CASE j = Len(answer[r]) + 1
        <5>1. answer'[r][j] = produced[r] - uncopied[r] + 1
          BY <2>3, <3>3, <4>2 DEF Byte
        <5>2. answer[r][i] \in Nat /\ answer[r][i] <= produced[r] - uncopied[r]
          BY <1>0, <4>1 DEF Copied
        <5> QED
          BY <1>a, <4>1, <5>1, <5>2
      <4>3. CASE j \in 1 .. Len(answer[r])
        BY <2>3, <3>3, <4>1, <4>3 DEF Copied
      <4> QED
        BY <3>1, <4>2, <4>3
    <3>4. ASSUME r \in Prompt
          PROVE  /\ Len(answer'[r]) = produced'[r] - uncopied'[r]
                 /\ ~spilled[r] => \A i \in 1 .. Len(answer'[r]) : answer'[r][i] = i
      <4>1. produced'[r] - uncopied'[r] = produced[r] - uncopied[r] + 1
        BY <1>a, <2>1
      <4>2. /\ Len(answer[r]) = produced[r] - uncopied[r]
            /\ ~spilled[r] => \A i \in 1 .. Len(answer[r]) : answer[r][i] = i
        BY <3>4 DEF Copied
      <4>3. Len(answer'[r]) = produced'[r] - uncopied'[r]
        BY <2>3, <4>1, <4>2
      <4>4. ~spilled[r] => answer'[r][Len(answer[r]) + 1] = Len(answer[r]) + 1
        BY <2>3, <4>2 DEF Byte
      <4> QED
        BY <2>3, <3>1, <4>2, <4>3, <4>4
    <3> QED
      BY <2>1, <2>a, <3>2, <3>3, <3>4 DEF Copied
  <2> QED
    BY <2>1, <2>2, <2>3
<1>2. CASE Write(r) /\ child[r] \in {"find_cgi", "body"} /\ UNCHANGED <<pc, child>>
  <2>1. uncopied'[r] = uncopied[r] + 1 /\ produced'[r] = produced[r] + 1 /\ UNCHANGED <<spilled, answer>>
    BY <1>2, WriteFacts
  <2>2. pc[r] \notin {"waitpid", "return", "closed"}
    BY <1>2 DEF Stage
  <2>3. produced'[r] - uncopied'[r] = produced[r] - uncopied[r]
    BY <1>a, <2>1
  <2> QED
    BY <1>2, <2>1, <2>2, <2>3 DEF Copied
<1>3. CASE ExeclFails(r)
  <2>1. /\ child[r] = "dup2" /\ child'[r] = "zombie" /\ UNCHANGED <<pc, answer>>
        /\ produced'[r] - uncopied'[r] = 0
    BY <1>3, SpillFacts, CgiAssumption
  <2>2. pc[r] \notin {"waitpid", "return", "closed"} /\ Len(answer[r]) = 0
    BY <2>1 DEF Stage, Copied
  <2>3. \A i \in 1 .. Len(answer[r]) : FALSE
    BY <2>2
  <2> QED
    BY <2>1, <2>2, <2>3 DEF Copied
<1>4. CASE UNCHANGED output
  <2>1. /\ child'[r] \in {"none", "forked", "dup2"} => child[r] \in {"none", "forked", "dup2"}
        /\ child[r] \in {"zombie", "reaped"} => child'[r] \in {"zombie", "reaped"}
    BY NoReturn
  <2>2. pc'[r] \in {"waitpid", "return", "closed"} => uncopied[r] = 0
    <3>1. CASE pc[r] \in {"waitpid", "return", "closed"}
      BY <3>1 DEF Copied
    <3>2. CASE child[r] = "none"
      BY <1>0, <3>2 DEF Copied
    <3>3. CASE pc[r] \in Serving
      <4>1. CASE CopyEnds(r)
        BY <4>1, EndMeansEnded DEF CopyEnds
      <4>2. CASE ~ CopyEnds(r)
        <5>1. pc'[r] \in Serving
          BY <3>3, <4>2 DEF Step, WorkerStep, ChildStep, SendBody, Headers, PipeIn, PipeOut, PipeOrForkFails, Fork,
             ParentCloses, PostRecv, PostWrite, SigPipe, CopyByte, WaitPid, CloseClient, ChildSetup, ChildExec,
             ChildCrashes, ExeclFails, FindCgi, Filter, ChildBody, ChildExit, Types, Serving, Goto
        <5> QED
          BY <5>1 DEF Serving
      <4> QED
        BY <4>1, <4>2
    <3> QED
      BY <3>1, <3>2, <3>3 DEF Stage, Types, Early, Serving
  <2>3. UNCHANGED <<spilled, produced, uncopied, answer>>
    BY <1>4 DEF output
  <2> QED
    BY <2>1, <2>2, <2>3 DEF Copied
<1> QED
  BY <1>1, <1>2, <1>3, <1>4, OutputMoves

\* What was fed keeps being the body, with late bytes repeated.
LEMMA RelayedStep ==
  ASSUME Types, NEW r \in Requests, Bounds(r), Relayed(r), Step(r)
  PROVE  Relayed(r)'
<1>0. /\ arrived[r] \in Nat /\ received[r] \in Nat /\ c[r] \in Nat /\ content_length[r] \in Int
      /\ fed[r] \in Seq(Nat) /\ Len(fed[r]) \in Nat /\ (fed[r] = << >> <=> Len(fed[r]) = 0)
      /\ \A i \in 1 .. Len(fed[r]) : fed[r][i] \in Nat
  <2>1. arrived[r] \in Nat /\ received[r] \in Nat /\ c[r] \in Nat /\ fed[r] \in Seq(Nat)
    BY DEF Types
  <2>2. content_length[r] \in Int
    <3>1. content_length[r] \in Lengths \cup {0}
      BY DEF Types
    <3>2. Lengths \subseteq Int
      BY CgiAssumption
    <3>3. CASE content_length[r] = 0
      BY <3>3
    <3>4. CASE content_length[r] \in Lengths
      BY <3>2, <3>4
    <3> QED
      BY <3>1, <3>3, <3>4
  <2>3. Len(fed[r]) \in Nat /\ (fed[r] = << >> <=> Len(fed[r]) = 0)
    BY <2>1, EmptyFacts
  <2>4. \A i \in 1 .. Len(fed[r]) : fed[r][i] \in Nat
    BY <2>1, ElementOfSeq
  <2> QED
    BY <2>1, <2>2, <2>3, <2>4
<1>a. Len(fed[r]) \in Nat
  BY <1>0
<1>1. CASE SendBody(r)
  <2>1. /\ r \notin Prompt /\ arrived[r] < content_length[r]
        /\ UNCHANGED <<pc, content_length, received, c, fed>>
    BY <1>1 DEF SendBody, request
  <2>2. pc[r] # "accepted"
    BY <1>0, <2>1 DEF Relayed
  <2> QED
    BY <2>1, <2>2 DEF Relayed, Last
<1>2. CASE Headers(r)
  <2>1. /\ pc[r] = "accepted" /\ pc'[r] \in {"return", "pipe_in"} /\ UNCHANGED <<received, c, fed>>
        /\ content_length'[r] \in Int
        /\ arrived'[r] = IF r \in Prompt /\ content_length'[r] > 0 THEN content_length'[r] ELSE 0
    BY <1>2, HeaderFacts
  <2>2. fed[r] = << >> /\ received[r] = 0 /\ c[r] = 0
    BY <2>1 DEF Relayed, Early
  <2> QED
    BY <1>0, <2>1, <2>2 DEF Relayed, Early, Last
<1>3. CASE PostRecv(r)
  <2>1. /\ pc[r] = "recv" /\ pc'[r] = "write" /\ UNCHANGED <<content_length, arrived, fed>>
        /\ \/ /\ received[r] < arrived[r] /\ received'[r] = received[r] + 1 /\ c'[r] = received[r] + 1
           \/ /\ ~(received[r] < arrived[r]) /\ received'[r] = received[r] /\ c'[r] = c[r]
    BY <1>3, RecvFacts DEF request
  <2>2. c[r] = Last(r) /\ received[r] = c[r] /\ Last(r)' = Last(r)
    BY <2>1 DEF Relayed, Last
  <2>3. r \in Prompt => received[r] < arrived[r] /\ received[r] = Len(fed[r])
    BY <1>0, <2>1 DEF Relayed
  <2>4. c'[r] = received'[r] /\ (c'[r] = Last(r) + 1 \/ (r \notin Prompt /\ c'[r] = Last(r)))
    BY <1>0, <2>1, <2>2, <2>3
  <2>5. r \in Prompt => received'[r] = Len(fed[r]) + 1
    BY <2>1, <2>3
  <2> QED
    BY <2>1, <2>2, <2>4, <2>5 DEF Relayed, Early
<1>4. CASE PostWrite(r)
  <2>1. /\ pc[r] = "write" /\ fed'[r] # << >> /\ Len(fed'[r]) = Len(fed[r]) + 1
        /\ fed'[r][Len(fed[r]) + 1] = c[r]
        /\ \A i \in 1 .. Len(fed[r]) : fed'[r][i] = fed[r][i]
        /\ UNCHANGED <<content_length, arrived, received, c>>
        /\ pc'[r] = IF Len(fed[r]) + 1 < content_length[r] THEN "recv" ELSE "copy"
    BY <1>4, FeedFacts DEF request
  <2>2. c[r] = Last(r) + 1 \/ (r \notin Prompt /\ c[r] = Last(r))
    BY <2>1 DEF Relayed
  <2>3. Last(r)' = c[r]
    BY <2>1 DEF Last
  <2>4. ASSUME NEW i \in 1 .. Len(fed'[r]), NEW j \in 1 .. Len(fed'[r]), j = i + 1
        PROVE  fed'[r][j] = fed'[r][i] + 1 \/ (r \notin Prompt /\ fed'[r][j] = fed'[r][i])
    <3>0. Len(fed'[r]) = Len(fed[r]) + 1
      BY <2>1
    <3>1. i \in 1 .. Len(fed[r])
      BY <1>a, <2>4, <3>0
    <3>a. fed'[r][i] = fed[r][i]
      BY <2>1, <3>1
    <3>2. CASE j = Len(fed[r]) + 1
      <4>1. i = Len(fed[r]) /\ fed[r] # << >>
        BY <1>0, <2>4, <3>1, <3>2
      <4>2. Last(r) = fed[r][i]
        BY <4>1 DEF Last
      <4> QED
        BY <2>1, <2>2, <3>a, <3>2, <4>2
    <3>3. CASE j \in 1 .. Len(fed[r])
      BY <2>1, <2>4, <3>1, <3>a, <3>3 DEF Relayed
    <3> QED
      BY <1>a, <3>0, <3>2, <3>3
  <2>5. fed'[r][1] = 1 \/ (r \notin Prompt /\ fed'[r][1] = 0)
    <3>1. CASE fed[r] = << >>
      BY <1>0, <2>1, <2>2, <3>1 DEF Last
    <3>2. CASE fed[r] # << >>
      BY <1>0, <2>1, <3>2 DEF Relayed
    <3> QED
      BY <3>1, <3>2
  <2>6. r \in Prompt => received[r] = Len(fed[r]) + 1
    BY <2>1 DEF Relayed
  <2>7. /\ pc'[r] \in {"recv", "copy"}
        /\ pc'[r] = "recv" => Len(fed'[r]) < content_length[r]
    BY <2>1
  <2> QED
    BY <2>1, <2>3, <2>4, <2>5, <2>6, <2>7 DEF Relayed, Early
<1>5. CASE Filter(r)
  <2>1. UNCHANGED <<pc, content_length, arrived, received, c, fed>>
    BY <1>5 DEF Filter, request
  <2> QED
    BY <2>1 DEF Relayed, Last
<1>6. CASE ParentCloses(r)
  <2>1. /\ pc[r] = "parent" /\ UNCHANGED <<content_length, arrived, received, c, fed>>
        /\ pc'[r] = IF method[r] = "POST" /\ content_length[r] > 0 THEN "recv" ELSE "copy"
    BY <1>6 DEF ParentCloses, request, input, Goto, Types
  <2>2. fed[r] = << >> /\ received[r] = 0 /\ c[r] = 0 /\ Len(fed[r]) = 0 /\ Last(r)' = 0
    BY <1>0, <2>1 DEF Relayed, Last
  <2>3. pc'[r] \in {"recv", "copy"} /\ (pc'[r] = "recv" => content_length[r] > 0)
    BY <2>1
  <2> QED
    BY <1>0, <2>1, <2>2, <2>3 DEF Relayed, Early
<1>7. CASE UNCHANGED <<request, input>> /\ ~ ParentCloses(r)
  <2>1. UNCHANGED <<content_length, arrived, received, c, fed>>
    BY <1>7 DEF request, input
  <2>2. CASE pc'[r] = pc[r]
    BY <2>1, <2>2, ZenonT(30) DEF Relayed, Last
  <2>3. CASE pc'[r] # pc[r] /\ ~ Headers(r) /\ ~ PostRecv(r) /\ ~ PostWrite(r)
    <3>1. /\ pc'[r] \notin {"accepted", "recv", "write"}
          /\ pc'[r] \in Early \cup {"parent"} => pc[r] \in Early
      BY <1>7, <2>3 DEF Step, WorkerStep, ChildStep, SendBody, PipeIn, PipeOut, PipeOrForkFails, Fork,
             SigPipe, CopyByte, CopyEnds, WaitPid, CloseClient, ChildSetup, ChildExec,
             ChildCrashes, ExeclFails, FindCgi, Filter, ChildBody, ChildExit, Types, Early, Goto
    <3> QED
      BY <2>1, <3>1, ZenonT(30) DEF Relayed, Last
  <2> QED
    BY <1>2, <1>3, <1>4, <2>2, <2>3
<1> QED
  BY <1>1, <1>2, <1>3, <1>4, <1>5, <1>6, <1>7, InputMoves

-----------------------------------------------------------------------------
(* All calls together *)

\* The invariant of one call.
Mine(r) == Bounds(r) /\ Stage(r) /\ EndsHeld(r) /\ Copied(r) /\ Relayed(r)

\* IInv, call by call.
LEMMA Parts == IInv <=> Types /\ \A r \in Requests : Mine(r)
  BY TypeParts DEF IInv, Mine

\* The same in the next state.
LEMMA PartsNext == IInv' <=> (Types /\ \A r \in Requests : Mine(r))'
  BY Parts, PTL

\* The invariant holds before any call has read its headers.
LEMMA InitIInv == Init => IInv
<1> SUFFICES ASSUME Init
             PROVE  IInv
  OBVIOUS
<1>1. Types
  <2>1. open \in [Requests -> [Ends -> SUBSET Processes]]
    BY DEF Init, Processes
  <2>2. fed \in [Requests -> Seq(Nat)] /\ answer \in [Requests -> Seq(Nat)]
    BY DEF Init
  <2> QED
    BY <2>1, <2>2 DEF Init, Types
<1>2. ASSUME NEW r \in Requests
      PROVE  Mine(r)
  <2>1. /\ pc[r] = "accepted" /\ child[r] = "none" /\ content_length[r] = 0
        /\ arrived[r] = 0 /\ received[r] = 0 /\ c[r] = 0 /\ fed[r] = << >> /\ unread[r] = 0
        /\ ~spilled[r] /\ produced[r] = 0 /\ uncopied[r] = 0 /\ answer[r] = << >>
    BY DEF Init
  <2>2. \A e \in Pipes : open[r][e] = {}
    BY DEF Init, Pipes
  <2>3. Bounds(r)
    BY <2>1, CgiAssumption DEF Bounds
  <2>4. Stage(r) /\ EndsHeld(r)
    BY <2>1, <2>2 DEF Stage, EndsHeld, Early, Serving, Running
  <2>5. Copied(r)
    BY <2>1 DEF Copied
  <2>6. Relayed(r)
    BY <2>1 DEF Relayed
  <2> QED
    BY <2>3, <2>4, <2>5, <2>6 DEF Mine
<1> QED
  BY <1>1, <1>2, Parts

\* A step of one call keeps the invariant of another.
LEMMA OthersKeep ==
  ASSUME Types, NEW r \in Requests, Step(r), NEW q \in Requests \ {r}, Mine(q)
  PROVE  Mine(q)'
<1>1. /\ pc'[q] = pc[q] /\ content_length'[q] = content_length[q]
      /\ arrived'[q] = arrived[q] /\ received'[q] = received[q] /\ c'[q] = c[q]
      /\ fed'[q] = fed[q] /\ unread'[q] = unread[q] /\ child'[q] = child[q]
      /\ spilled'[q] = spilled[q] /\ produced'[q] = produced[q] /\ uncopied'[q] = uncopied[q] /\ answer'[q] = answer[q]
  BY Others
<1>2. \A e \in Ends : /\ Server \in open'[q][e] <=> Server \in open[q][e]
                      /\ q \in open'[q][e] <=> q \in open[q][e]
  BY Others
<1>3. Bounds(q)'
  BY <1>1 DEF Mine, Bounds
<1>4. Stage(q)'
  BY <1>1 DEF Mine, Stage
<1>5. EndsHeld(q)'
  BY <1>1, <1>2 DEF Mine, EndsHeld, Ends, Pipes
<1>6. Copied(q)'
  BY <1>1 DEF Mine, Copied
<1>7. Relayed(q)'
  <2>1. Last(q)' = Last(q)
    BY <1>1 DEF Last
  <2> QED
    BY <1>1, <2>1, SMTT(30) DEF Mine, Relayed
<1> QED
  BY <1>3, <1>4, <1>5, <1>6, <1>7 DEF Mine

\* Every step keeps the invariant.
LEMMA NextIInv == IInv /\ [Next]_vars => IInv'
<1> SUFFICES ASSUME IInv, [Next]_vars
             PROVE  IInv'
  OBVIOUS
<1>0. Types /\ \A r \in Requests : Mine(r)
  BY Parts
<1>1. ASSUME NEW r \in Requests, Step(r)
      PROVE  IInv'
  <2>1. Mine(r)
    BY <1>0
  <2>2. Types'
    BY <1>0, <1>1, <2>1, TypesStep DEF Mine
  <2>3. Mine(r)'
    BY <1>0, <1>1, <2>1, BoundsStep, StageStep, EndsHeldStep, CopiedStep, RelayedStep DEF Mine
  <2>4. ASSUME NEW q \in Requests
        PROVE  Mine(q)'
    <3>1. CASE q = r
      BY <2>3, <3>1
    <3>2. CASE q \in Requests \ {r}
      BY <1>0, <1>1, <3>2, OthersKeep
    <3> QED
      BY <3>1, <3>2
  <2>5. (Types /\ \A q \in Requests : Mine(q))'
    BY <2>2, <2>4
  <2> QED
    BY <2>5, PartsNext
<1>2. CASE UNCHANGED vars
  BY <1>2 DEF vars, request, input, output, IInv, TypeOK, Stage, EndsHeld, Copied, Relayed, Last
<1> QED
  BY <1>1, <1>2 DEF Next, Step

\* The inductive invariant holds throughout.
LEMMA Invariance == Spec => []IInv
  BY InitIInv, NextIInv, PTL DEF Spec

-----------------------------------------------------------------------------
(* The theorems *)

\* Every variable of every call keeps its type and bounds: no more bytes are
\* received than arrived, nor fed from beyond what was received, nor copied
\* than written, and neither pipe overflows.
THEOREM CgiTypeCorrect == Spec => []TypeOK
  BY Invariance, PTL DEF IInv

\* The copy loop sends a client its own program's output, in order and
\* without repetition, and all of it to a client that reads; only a child
\* whose execl failed makes it send text of the server's log, and nothing else.
THEOREM AnswersAreFaithful == Spec => []AnswerFaithful
<1>1. IInv => AnswerFaithful
  <2> SUFFICES ASSUME IInv, NEW r \in Requests
               PROVE  /\ \A i \in 1 .. Len(answer[r]) : answer[r][i] = 0 <=> spilled[r]
                      /\ ~spilled[r] => \A i \in 1 .. Len(answer[r]) - 1 : answer[r][i] < answer[r][i + 1]
                      /\ r \in Prompt =>
                           /\ ~spilled[r] => \A i \in 1 .. Len(answer[r]) : answer[r][i] = i
                           /\ pc[r] \in {"waitpid", "return", "closed"} => Len(answer[r]) = produced[r]
    BY DEF AnswerFaithful
  <2>1. Types /\ Copied(r)
    BY Parts DEF Mine
  <2>2. Len(answer[r]) \in Nat /\ produced[r] \in Nat
    BY <2>1, LenProperties DEF Types
  <2>3. ASSUME ~spilled[r], NEW i \in 1 .. Len(answer[r]) - 1
        PROVE  answer[r][i] < answer[r][i + 1]
    <3>1. i \in 1 .. Len(answer[r]) /\ i + 1 \in 1 .. Len(answer[r])
      BY <2>2
    <3> QED
      BY <2>1, <2>3, <3>1 DEF Copied
  <2> QED
    BY <2>1, <2>2, <2>3 DEF Copied
<1> QED
  BY <1>1, Invariance, PTL

\* The recv and write of the POST loop hand a child its body in order, with
\* only late bytes repeated, and exactly as sent when it was there in time.
THEOREM BodiesAreFaithful == Spec => []BodyFaithful
<1>1. IInv => BodyFaithful
  <2> SUFFICES ASSUME IInv, NEW r \in Requests, NEW i \in 1 .. Len(fed[r])
               PROVE  LET before == IF i = 1 THEN 0 ELSE fed[r][i - 1]
                      IN fed[r][i] = before + 1 \/ (r \notin Prompt /\ fed[r][i] = before)
    BY DEF BodyFaithful
  <2>1. Types /\ Relayed(r)
    BY Parts DEF Mine
  <2>2. Len(fed[r]) \in Nat /\ (fed[r] = << >> <=> Len(fed[r]) = 0)
    BY <2>1, EmptyFacts DEF Types
  <2>3. CASE i = 1
    BY <2>1, <2>2, <2>3 DEF Relayed
  <2>4. CASE i # 1
    <3>1. i - 1 \in 1 .. Len(fed[r]) /\ i = (i - 1) + 1
      BY <2>2, <2>4
    <3>2. \A k, j \in 1 .. Len(fed[r]) : j = k + 1 =>
            fed[r][j] = fed[r][k] + 1 \/ (r \notin Prompt /\ fed[r][j] = fed[r][k])
      BY <2>1 DEF Relayed
    <3> QED
      BY <2>4, <3>1, <3>2
  <2> QED
    BY <2>3, <2>4
<1> QED
  BY <1>1, Invariance, PTL

\* exe_cgi leaves no pipe end and no child behind, whichever way it returns
\* and whatever the other workers fork meanwhile.
THEOREM ReturnsAreClean == Spec => []NothingLeftBehind
<1>1. IInv => NothingLeftBehind
  BY DEF IInv, NothingLeftBehind, EndsHeld, Stage
<1> QED
  BY <1>1, Invariance, PTL

\* A worker reaches waitpid only when its child has ended, and a running
\* program always has somebody at the other end of its output.
THEOREM EndsAreEnds == Spec => []EndOfOutputIsEnd
<1>1. IInv => EndOfOutputIsEnd
  <2> SUFFICES ASSUME IInv, NEW r \in Requests
               PROVE  /\ pc[r] = "waitpid" => child[r] = "zombie"
                      /\ child[r] \in {"find_cgi", "filter", "body"} => Server \in open[r]["cgi_output[0]"]
    BY DEF EndOfOutputIsEnd
  <2>1. Types /\ Stage(r) /\ EndsHeld(r)
    BY Parts DEF Mine
  <2> QED
    BY <2>1 DEF Types, Stage, EndsHeld, Early, Serving
<1> QED
  BY <1>1, Invariance, PTL
=============================================================================
