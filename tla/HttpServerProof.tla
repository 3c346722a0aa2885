-------------------------- MODULE HttpServerProof ---------------------------
(***************************************************************************)
(* Proofs about HttpServer for every set of connections, descriptors and   *)
(* workers, every size of the event array and every choice of failing      *)
(* calls.                                                                  *)
(*                                                                         *)
(* A descriptor is handed from epoll to main's array, from there to the    *)
(* pool's list and from there to a worker.  The inductive invariant says   *)
(* that these places never share a descriptor (Exclusive), that what they  *)
(* hold denotes the connection it was issued for (Current), and that a     *)
(* connection is in one place of the kernel (Placed).                      *)
(***************************************************************************)
EXTENDS HttpServer, SequenceTheorems, FiniteSetTheorems, TLAPS

-----------------------------------------------------------------------------
(* Lists *)

\* Linking a node at the front (threadpool_add): length, elements, positions.
LEMMA LinkFacts ==
  ASSUME NEW S, NEW q \in Seq(S), NEW t \in S
  PROVE  /\ <<t>> \o q \in Seq(S)
         /\ Len(<<t>> \o q) = Len(q) + 1
         /\ (<<t>> \o q)[1] = t
         /\ \A i \in 2 .. Len(q) + 1 : (<<t>> \o q)[i] = q[i - 1]
<1>1. <<t>> \in Seq(S) /\ Len(<<t>>) = 1 /\ <<t>>[1] = t
  OBVIOUS
<1>2. Len(q) \in Nat
  BY LenProperties
<1> QED
  BY <1>1, <1>2, ConcatProperties

\* Taking the first node (threadpool_worker, accept, ++i in main's loop).
LEMMA UnlinkFacts ==
  ASSUME NEW S, NEW q \in Seq(S), q # << >>
  PROVE  /\ Len(q) \in Nat \ {0}
         /\ Head(q) = q[1] /\ Head(q) \in S
         /\ Tail(q) \in Seq(S)
         /\ Len(Tail(q)) = Len(q) - 1
         /\ \A i \in 1 .. Len(q) - 1 : Tail(q)[i] = q[i + 1]
<1>1. Len(q) \in Nat \ {0}
  BY EmptySeq
<1> QED
  BY <1>1, HeadTailProperties

\* Appending (connect to the listen queue).
LEMMA AppendFacts ==
  ASSUME NEW S, NEW q \in Seq(S), NEW t \in S
  PROVE  /\ Append(q, t) \in Seq(S)
         /\ Append(q, t) # << >>
         /\ Len(q) \in Nat
         /\ Len(Append(q, t)) = Len(q) + 1
         /\ Append(q, t)[Len(q) + 1] = t
         /\ \A i \in 1 .. Len(q) : Append(q, t)[i] = q[i]
<1>1. Len(q) \in Nat
  BY LenProperties
<1> QED
  BY <1>1, AppendProperties

\* A queue is empty exactly when it has no position.
LEMMA EmptyFacts ==
  ASSUME NEW S, NEW q \in Seq(S)
  PROVE  Len(q) \in Nat /\ (q = << >> <=> Len(q) = 0)
  BY EmptySeq, LenProperties

-----------------------------------------------------------------------------
(* The invariant *)

Busy == {w \in Workers : wpc[w] # "idle"}

\* What main's and the workers' places say of what they hold.
Shape ==
  /\ \A w \in Workers : wpc[w] = "idle" <=> job[w] = None
  /\ mpc = "wait" => batch = << >>
  /\ mpc \in {"dispatch", "accept"} => batch # << >>
  /\ mpc = "accept" => batch[1].fd = Listen
  /\ \A i \in 1 .. Len(batch) : batch[i].fd = Listen => ~batch[i].err

\* No descriptor is held twice: not by two places, and not twice by one.
Exclusive ==
  /\ \A i, j \in 1 .. Len(batch) : batch[i].fd = batch[j].fd => i = j
  /\ \A i, j \in 1 .. Len(pending) : pending[i].fd = pending[j].fd => i = j
  /\ \A v, w \in Busy : job[v].fd = job[w].fd => v = w
  /\ \A i \in 1 .. Len(batch) :
       /\ batch[i].fd \notin armed
       /\ \A j \in 1 .. Len(pending) : batch[i].fd # pending[j].fd
       /\ \A w \in Busy : batch[i].fd # job[w].fd
  /\ \A j \in 1 .. Len(pending) :
       /\ pending[j].fd \notin armed
       /\ \A w \in Busy : pending[j].fd # job[w].fd
  /\ \A w \in Busy : job[w].fd \notin armed

\* What is held is open, and denotes the connection it was issued for.
Current ==
  /\ \A f \in armed : table[f] # None
  /\ \A i \in 1 .. Len(batch) : batch[i].fd # Listen =>
       batch[i].conn \in Conns /\ table[batch[i].fd] = batch[i].conn
  /\ \A i \in 1 .. Len(pending) : table[pending[i].fd] = pending[i].conn
  /\ \A w \in Busy : table[job[w].fd] = job[w].conn
  /\ ready \subseteq armed \cup {Listen}

\* A connection is in the listen queue once, or behind one descriptor, or in
\* neither, and before it is opened it is in neither.
Placed ==
  /\ \A f, g \in FDs : table[f] = table[g] /\ table[f] # None => f = g
  /\ \A i, j \in 1 .. Len(backlog) : backlog[i] = backlog[j] => i = j
  /\ \A i \in 1 .. Len(backlog) : \A f \in FDs : table[f] # backlog[i]
  /\ \A i \in 1 .. Len(backlog) : peer[backlog[i]] # "away"
  /\ \A f \in FDs : table[f] # None => peer[table[f]] # "away"

\* An open descriptor is held by someone, or its request has been given up.
Held(f) ==
  \/ f \in armed
  \/ \E i \in 1 .. Len(batch) : batch[i].fd = f
  \/ \E i \in 1 .. Len(pending) : pending[i].fd = f
  \/ \E w \in Busy : job[w].fd = f

Accounted ==
  \A f \in FDs : table[f] # None =>
    Held(f) \/ outcome[table[f]] \in {"rejected", "missing", "refused"}

\* A connection in the listen queue has an event to come or in main's array.
Announced ==
  backlog # << >> =>
    Listen \in ready \/ accept_err \/ \E i \in 1 .. Len(batch) : batch[i].fd = Listen

\* Somebody has yet to decide about the request behind descriptor f.
Undone(f) ==
  \/ f \in armed
  \/ \E i \in 1 .. Len(batch) : batch[i].fd = f
  \/ \E i \in 1 .. Len(pending) : pending[i].fd = f
  \/ \E w \in Busy : job[w].fd = f /\ wpc[w] # "close"

\* There is no verdict before the one who has the request comes to it, and
\* there is one when a worker is about to close.
Undecided ==
  /\ \A c \in Conns : peer[c] = "away" => outcome[c] = "none"
  /\ \A i \in 1 .. Len(backlog) : outcome[backlog[i]] = "none"
  /\ \A f \in FDs : Undone(f) => outcome[table[f]] = "none"
  /\ \A w \in Busy : wpc[w] = "close" => outcome[job[w].conn] # "none"

IInv == TypeOK /\ Shape /\ Exclusive /\ Current /\ Placed /\ Accounted /\ Announced
-----------------------------------------------------------------------------
(* What epoll_wait does *)

\* An entry of the ready list denotes the listen socket or an open connection.
LEMMA ReadyFacts ==
  ASSUME TypeOK, Current, NEW x \in ready
  PROVE  /\ Event(x) \in Events
         /\ Event(x).fd = x
         /\ x # Listen => /\ x \in FDs /\ x \in armed
                          /\ table[x] \in Conns
                          /\ Event(x).conn = table[x]
         /\ x = Listen => ~Event(x).err
<1> USE ServerAssumption DEF TypeOK, Event, Events
<1>1. CASE x = Listen
  BY <1>1
<1>2. CASE x # Listen
  <2>1. x \in FDs /\ x \in armed /\ table[x] \in Conns
    BY <1>2 DEF Current
  <2> QED
    BY <1>2, <2>1
<1> QED
  BY <1>1, <1>2

\* The array lists each descriptor taken from the ready list exactly once,
\* and no more of them than it has room for.
LEMMA PollFacts ==
  ASSUME TypeOK, Current, My_epoll_wait
  PROVE  \E taken \in SUBSET ready :
           /\ \A x \in taken : Pollable(x)
           /\ armed' = armed \ taken
           /\ ready' = {x \in ready : Pollable(x)} \ taken
           /\ batch' \in Seq(Events) /\ Len(batch') <= MAXEVENTS
           /\ \A i \in 1 .. Len(batch') : batch'[i].fd \in taken /\ batch'[i] = Event(batch'[i].fd)
           /\ \A i, j \in 1 .. Len(batch') : batch'[i].fd = batch'[j].fd => i = j
           /\ \A x \in taken : \E i \in 1 .. Len(batch') : batch'[i].fd = x
           /\ mpc' = IF batch' = << >> THEN "wait" ELSE "dispatch"
<1> DEFINE pollable == {x \in ready : Pollable(x)}
<1>1. PICK taken \in SUBSET pollable :
        /\ Cardinality(taken) = BatchSize(pollable)
        /\ \E order \in SetToSeqs(taken) : batch' = [i \in DOMAIN order |-> Event(order[i])]
        /\ Disarm(taken)
        /\ ready' = pollable \ taken
        /\ mpc' = IF taken = {} THEN "wait" ELSE "dispatch"
  BY DEF My_epoll_wait
<1>2. PICK order \in SetToSeqs(taken) : batch' = [i \in DOMAIN order |-> Event(order[i])]
  BY <1>1
<1> DEFINE n == Cardinality(taken)
<1>3. IsFiniteSet(pollable) /\ IsFiniteSet(taken) /\ n \in Nat /\ Cardinality(pollable) \in Nat
  <2>1. IsFiniteSet(FDs \cup {Listen})
    BY FS_AddElement, ServerAssumption
  <2>2. pollable \in SUBSET (FDs \cup {Listen}) /\ taken \in SUBSET (FDs \cup {Listen})
    BY DEF TypeOK
  <2> QED
    BY <2>1, <2>2, FS_Subset, FS_CardinalityType
<1>4. n <= MAXEVENTS
  BY <1>1, <1>3, ServerAssumption DEF BatchSize
<1>5. order \in [1 .. n -> taken] /\ \A i, j \in 1 .. n : i # j => order[i] # order[j]
  BY <1>2 DEF SetToSeqs
<1>6. \A x \in taken : \E i \in 1 .. n : order[i] = x
  <2>1. order \in Injection(1 .. n, taken)
    BY <1>5 DEF Injection, IsInjective
  <2>2. Cardinality(1 .. n) = Cardinality(taken)
    BY <1>3, FS_Interval
  <2>3. order \in Surjection(1 .. n, taken)
    BY <1>3, <2>1, <2>2, FS_Injection
  <2> QED
    BY <2>3 DEF Surjection
<1>7. taken \subseteq ready
  OBVIOUS
<1>8. batch' = [i \in 1 .. n |-> Event(order[i])]
  BY <1>2, <1>5
<1>9. \A i \in 1 .. n : Event(order[i]) \in Events /\ Event(order[i]).fd = order[i]
  BY <1>5, <1>7, ReadyFacts
<1> HIDE DEF n
<1>10. batch' \in Seq(Events) /\ Len(batch') = n
  BY <1>3, <1>8, <1>9
<1>11. \A i \in 1 .. n : batch'[i].fd = order[i] /\ batch'[i] = Event(order[i])
  BY <1>8, <1>9
<1>12. taken = {} <=> batch' = << >>
  <2>1. taken = {} <=> n = 0
    BY <1>3, FS_EmptySet DEF n
  <2> QED
    BY <2>1, <1>10, EmptySeq
<1>13. armed' = armed \ taken
  BY <1>1 DEF Disarm
<1>14. /\ \A i \in 1 .. Len(batch') : batch'[i].fd \in taken /\ batch'[i] = Event(batch'[i].fd)
       /\ \A i, j \in 1 .. Len(batch') : batch'[i].fd = batch'[j].fd => i = j
  BY <1>5, <1>10, <1>11
<1>15. \A x \in taken : \E i \in 1 .. Len(batch') : batch'[i].fd = x
  BY <1>6, <1>10, <1>11
<1>16. Len(batch') <= MAXEVENTS
  BY <1>4, <1>10
<1>17. mpc' = IF batch' = << >> THEN "wait" ELSE "dispatch"
  BY <1>1, <1>12
<1>18. \A x \in taken : Pollable(x)
  OBVIOUS
<1> WITNESS taken \in SUBSET ready
<1> QED
  BY <1>1, <1>10, <1>13, <1>14, <1>15, <1>16, <1>17, <1>18
-----------------------------------------------------------------------------
(* What main and the workers hold *)

\* The event main is looking at, and the array behind it.
LEMMA HeadFacts ==
  ASSUME TypeOK, Shape, Current, mpc \in {"dispatch", "accept"}
  PROVE  /\ batch \in Seq(Events) /\ batch # << >> /\ Len(batch) \in Nat \ {0}
         /\ Head(batch) = batch[1] /\ batch[1] \in Events
         /\ batch[1].fd # Listen => /\ batch[1].fd \in FDs /\ batch[1].conn \in Conns
                                    /\ table[batch[1].fd] = batch[1].conn
         /\ batch[1].err => batch[1].fd # Listen
         /\ Tail(batch) \in Seq(Events) /\ Len(Tail(batch)) = Len(batch) - 1
         /\ \A i \in 1 .. Len(batch) - 1 : Tail(batch)[i] = batch[i + 1]
         /\ Len(batch) = 1 <=> Tail(batch) = << >>
<1>1. batch \in Seq(Events) /\ batch # << >>
  BY DEF TypeOK, Shape
<1>2. /\ Len(batch) \in Nat \ {0}
      /\ Head(batch) = batch[1] /\ Head(batch) \in Events
      /\ Tail(batch) \in Seq(Events) /\ Len(Tail(batch)) = Len(batch) - 1
      /\ \A i \in 1 .. Len(batch) - 1 : Tail(batch)[i] = batch[i + 1]
  BY <1>1, UnlinkFacts
<1>3. Len(batch) = 1 <=> Tail(batch) = << >>
  <2>1. Tail(batch) = << >> <=> Len(Tail(batch)) = 0
    BY <1>2, EmptyFacts
  <2> QED
    BY <1>2, <2>1
<1>4. batch[1].fd # Listen => /\ batch[1].fd \in FDs /\ batch[1].conn \in Conns
                              /\ table[batch[1].fd] = batch[1].conn
  BY <1>2 DEF Events, Current
<1>5. batch[1].err => batch[1].fd # Listen
  BY <1>2 DEF Shape
<1> QED
  BY <1>1, <1>2, <1>3, <1>4, <1>5

\* ++i: main goes on to the next event, or back to epoll_wait.
LEMMA NextEventFacts ==
  ASSUME TypeOK, Shape, Current, mpc \in {"dispatch", "accept"}, NextEvent
  PROVE  /\ batch' \in Seq(Events) /\ Len(batch') <= MAXEVENTS
         /\ Len(batch') = Len(batch) - 1 /\ Len(batch) \in Nat \ {0}
         /\ \A i \in 1 .. Len(batch') : i + 1 \in 1 .. Len(batch) /\ batch'[i] = batch[i + 1]
         /\ mpc' = IF batch' = << >> THEN "wait" ELSE "dispatch"
<1>1. Len(batch) <= MAXEVENTS /\ MAXEVENTS \in Nat
  BY ServerAssumption DEF TypeOK
<1> QED
  BY <1>1, HeadFacts DEF NextEvent

\* A worker inside accept_request holds a descriptor of a connection.
LEMMA WorkerFacts ==
  ASSUME TypeOK, Shape, Current, NEW w \in Workers, wpc[w] # "idle"
  PROVE  /\ job[w] \in Jobs /\ job[w].fd \in FDs /\ job[w].conn \in Conns
         /\ Sock(w) = job[w].conn /\ table[job[w].fd] = job[w].conn
<1>1. job[w] \in Jobs
  BY DEF TypeOK, Shape
<1> QED
  BY <1>1 DEF Jobs, Sock, Current, Busy

\* get_line and clear_header never read more than has arrived.
LEMMA ReadFacts ==
  ASSUME TypeOK, NEW c \in Conns, get_line(c) \/ clear_header(c)
  PROVE  got' \in [Conns -> 0 .. 3] /\ \A d \in Conns : got'[d] <= sent[d]
<1>1. CASE get_line(c) /\ sent[c] >= 2
  BY <1>1 DEF TypeOK, get_line
<1>2. CASE get_line(c) /\ ~(sent[c] >= 2)
  BY <1>2 DEF TypeOK, get_line
<1>3. CASE clear_header(c) /\ got' = [got EXCEPT ![c] = 2] /\ sent[c] >= 2
  BY <1>3 DEF TypeOK
<1>4. CASE clear_header(c) /\ got' = [got EXCEPT ![c] = 3] /\ sent[c] = 3
  BY <1>4 DEF TypeOK
<1> QED
  BY <1>1, <1>2, <1>3, <1>4 DEF clear_header

-----------------------------------------------------------------------------
(* The invariant, part by part *)

\* Every step keeps the types; a step that reads or answers a request needs
\* to know that its descriptor still denotes a connection.
LEMMA TypeStep ==
  ASSUME TypeOK, Shape, Current, Next
  PROVE  TypeOK'
<1> USE ServerAssumption
<1>1. ASSUME NEW c \in Conns, ClientStep(c)
      PROVE  TypeOK'
  <2>1. CASE Connect(c)
    <3>1. backlog' \in Seq(Conns)
      BY <2>1, AppendFacts DEF TypeOK, Connect
    <3> QED
      BY <2>1, <3>1 DEF TypeOK, Connect, loop, pool, workers
  <2>2. CASE Send(c)
    <3>1. sent' \in [Conns -> 0 .. 3] /\ \A d \in Conns : got[d] <= sent'[d]
      BY <2>2 DEF TypeOK, Send
    <3>2. ready' \subseteq FDs \cup {Listen}
      BY <2>2 DEF TypeOK, Send, Notify
    <3> QED
      BY <2>2, <3>1, <3>2, ZenonT(30) DEF TypeOK, Send, loop, pool, workers
  <2>3. CASE Leave(c) \/ Reset(c)
    BY <2>3, ZenonT(30) DEF TypeOK, Leave, Reset, Notify, loop, pool, workers
  <2> QED
    BY <1>1, <2>1, <2>2, <2>3 DEF ClientStep
<1>2. CASE My_epoll_wait
  <2>1. armed' \subseteq armed /\ ready' \subseteq ready /\ batch' \in Seq(Events)
        /\ Len(batch') <= MAXEVENTS /\ mpc' \in {"wait", "dispatch"}
    BY <1>2, PollFacts
  <2> QED
    BY <1>2, <2>1 DEF TypeOK, My_epoll_wait, client, pool, workers
<1>3. CASE DispatchListen \/ EpollWaitFails \/ Exit
  BY <1>3 DEF TypeOK, DispatchListen, EpollWaitFails, Exit, client, kernel, pool, workers
<1>4. CASE DispatchError
  <2>1. batch' \in Seq(Events) /\ Len(batch') <= MAXEVENTS /\ mpc' \in {"wait", "dispatch"}
    BY <1>4, NextEventFacts DEF DispatchError
  <2> QED
    BY <1>4, <2>1, HeadFacts DEF TypeOK, DispatchError, Close, client, pool, workers, Outcomes
<1>5. CASE DispatchRequest
  <2>1. mpc = "dispatch" /\ batch[1].fd # Listen
    BY <1>5, HeadFacts DEF DispatchRequest
  <2>2. [fd |-> batch[1].fd, conn |-> batch[1].conn] \in Jobs
    BY <2>1, HeadFacts DEF Jobs
  <2>3. <<[fd |-> batch[1].fd, conn |-> batch[1].conn]>> \o pending \in Seq(Jobs)
    BY <2>2, LinkFacts DEF TypeOK
  <2>4. batch' \in Seq(Events) /\ Len(batch') <= MAXEVENTS /\ mpc' \in {"wait", "dispatch"}
    BY <1>5, <2>1, NextEventFacts DEF DispatchRequest
  <2>5. pending' \in Seq(Jobs) /\ outcome' \in [Conns -> Outcomes] /\ tp' \in {tp, "locked"}
    <3>1. Head(batch) = batch[1] /\ batch[1].conn \in Conns
      BY <2>1, HeadFacts
    <3>2. \/ UNCHANGED outcome /\ pending' = <<[fd |-> batch[1].fd, conn |-> batch[1].conn]>> \o pending
          \/ UNCHANGED pending /\ outcome' = [outcome EXCEPT ![batch[1].conn] = "refused"]
      BY <1>5, <3>1 DEF DispatchRequest
    <3>4. tp' \in {tp, "locked"}
      BY <1>5 DEF DispatchRequest
    <3>3. [outcome EXCEPT ![batch[1].conn] = "refused"] \in [Conns -> Outcomes]
      BY DEF TypeOK, Outcomes
    <3> QED
      BY <2>3, <3>2, <3>3, <3>4 DEF TypeOK
  <2> QED
    BY <1>5, <2>4, <2>5 DEF TypeOK, DispatchRequest, client, kernel, workers
<1>6. CASE Accept
  <2>1. Head(backlog) \in Conns /\ Tail(backlog) \in Seq(Conns)
    BY <1>6, UnlinkFacts DEF TypeOK, Accept
  <2> QED
    BY <1>6, <2>1 DEF TypeOK, Accept, AfterAccept, FreeFDs, client, pool, workers
<1>7. CASE AcceptDrained \/ AcceptFails
  <2>1. batch' \in Seq(Events) /\ Len(batch') <= MAXEVENTS /\ mpc' \in {"wait", "dispatch"}
    BY <1>7, NextEventFacts DEF AcceptDrained, AcceptFails
  <2> QED
    BY <1>7, <2>1 DEF TypeOK, AcceptDrained, AcceptFails, client, kernel, pool, workers
<1>8. ASSUME NEW w \in Workers, WorkerStep(w)
      PROVE  TypeOK'
  <2>1. CASE WorkerTake(w)
    <3>1. Head(pending) \in Jobs /\ Tail(pending) \in Seq(Jobs)
      BY <2>1, UnlinkFacts DEF TypeOK, WorkerTake
    <3> QED
      BY <2>1, <3>1 DEF TypeOK, WorkerTake, client, kernel, loop
  <2>2. CASE RejectRequest(w) \/ NotFound(w)
    <3>1. wpc[w] # "idle" /\ UNCHANGED <<client, kernel, loop, pool>>
      BY <2>2 DEF RejectRequest, NotFound
    <3>2. got' \in [Conns -> 0 .. 3] /\ \A d \in Conns : got'[d] <= sent[d]
      BY <2>2, <3>1, WorkerFacts, ReadFacts DEF RejectRequest, NotFound
    <3>3. outcome' \in [Conns -> Outcomes]
      BY <2>2, <3>1, WorkerFacts DEF TypeOK, RejectRequest, NotFound, Outcomes
    <3>4. Return(w)
      BY <2>2 DEF RejectRequest, NotFound
    <3> QED
      BY <3>1, <3>2, <3>3, <3>4 DEF TypeOK, Return, client, kernel, loop, pool
  <2>3. CASE RouteRequest(w)
    <3>1. PICK r \in Requests : Route(r) # "reject" /\ wpc' = [wpc EXCEPT ![w] = Route(r)]
      BY <2>3 DEF RouteRequest
    <3>2. Route(r) \in {"clear404", "clear_cgi", "cgi", "clear_page"}
      BY <3>1 DEF Route
    <3> QED
      BY <2>3, <3>1, <3>2, WorkerFacts, ReadFacts, ZenonT(30) DEF TypeOK, RouteRequest, client, kernel, loop, pool
  <2>4. CASE ClearHeader(w)
    <3>1. wpc' \in [Workers -> {"idle", "line", "clear404", "clear_page", "clear_cgi", "page", "cgi", "hung", "close"}]
      BY <2>4 DEF TypeOK, ClearHeader
    <3>2. got' \in [Conns -> 0 .. 3] /\ \A d \in Conns : got'[d] <= sent[d]
      BY <2>4, WorkerFacts, ReadFacts DEF ClearHeader
    <3> QED
      BY <2>4, <3>1, <3>2 DEF TypeOK, ClearHeader, client, kernel, loop, pool
  <2>5. CASE echo_html(w) \/ exe_cgi(w)
    <3>1. PICK o \in {"answered", "silent", "empty"} : outcome' = [outcome EXCEPT ![Sock(w)] = o]
      BY <2>5 DEF echo_html, exe_cgi
    <3>2. outcome' \in [Conns -> Outcomes]
      BY <3>1 DEF TypeOK, Outcomes
    <3> QED
      BY <2>5, <3>2 DEF TypeOK, echo_html, exe_cgi, client, kernel, loop, pool
  <2>6. CASE ProgramHangs(w) \/ SigPipe(w)
    BY <2>6 DEF TypeOK, ProgramHangs, SigPipe, client, kernel, loop, pool, workers
  <2>7. CASE FinishRequest(w)
    BY <2>7, WorkerFacts DEF TypeOK, FinishRequest, CloseSock, Close, Return, client, loop, pool
  <2> QED
    BY <1>8, <2>1, <2>2, <2>3, <2>4, <2>5, <2>6, <2>7 DEF WorkerStep
<1> QED
  BY <1>1, <1>2, <1>3, <1>4, <1>5, <1>6, <1>7, <1>8 DEF Next, MainStep

\* A node of the pool's list names a descriptor and a connection.
LEMMA PendingFacts ==
  ASSUME TypeOK, NEW j \in 1 .. Len(pending)
  PROVE  pending[j] \in Jobs /\ pending[j].fd \in FDs /\ pending[j].conn \in Conns
<1>1. pending[j] \in Jobs
  BY ElementOfSeq DEF TypeOK
<1> QED
  BY <1>1 DEF Jobs

\* An entry of main's array is for the listen socket or for a descriptor.
LEMMA ArrayFacts ==
  ASSUME TypeOK, NEW k \in 1 .. Len(batch)
  PROVE  batch[k].fd # Listen => batch[k].fd \in FDs
<1>1. batch[k] \in Events
  BY ElementOfSeq DEF TypeOK
<1> QED
  BY <1>1 DEF Events

\* A step of a client, of main between two events, or of a worker inside its
\* request: no descriptor changes hands.
Stays == UNCHANGED <<batch, pending, armed, table, job, Busy>>

\* What a step does to the places that hold descriptors.
LEMMA Moves ==
  ASSUME TypeOK, Shape, Current, Next
  PROVE  \/ Stays \/ My_epoll_wait \/ DispatchError \/ DispatchRequest \/ Accept
         \/ AcceptDrained \/ AcceptFails
         \/ \E w \in Workers : WorkerTake(w) \/ RejectRequest(w) \/ NotFound(w) \/ FinishRequest(w)
<1>1. ASSUME NEW c \in Conns, ClientStep(c)
      PROVE  Stays
  BY <1>1 DEF ClientStep, Connect, Send, Leave, Reset, Stays, Busy, loop, pool, workers
<1>2. CASE DispatchListen \/ EpollWaitFails \/ Exit
  BY <1>2 DEF DispatchListen, EpollWaitFails, Exit, Stays, Busy, kernel, pool, workers
<1>3. ASSUME NEW w \in Workers, RouteRequest(w)
      PROVE  Stays
  <2>1. PICK r \in Requests : Route(r) # "reject" /\ wpc' = [wpc EXCEPT ![w] = Route(r)]
    BY <1>3 DEF RouteRequest
  <2>2. Route(r) # "idle"
    BY <2>1 DEF Route
  <2>3. Busy' = Busy
    BY <1>3, <2>1, <2>2 DEF RouteRequest, Busy, TypeOK
  <2> QED
    BY <1>3, <2>3 DEF RouteRequest, Stays, kernel, loop, pool
<1>4. ASSUME NEW w \in Workers, ClearHeader(w) \/ echo_html(w) \/ exe_cgi(w) \/ ProgramHangs(w)
                                 \/ SigPipe(w)
      PROVE  Stays
  <2>1. Busy' = Busy
    BY <1>4 DEF ClearHeader, echo_html, exe_cgi, ProgramHangs, SigPipe, Busy, TypeOK, workers
  <2> QED
    BY <1>4, <2>1 DEF ClearHeader, echo_html, exe_cgi, ProgramHangs, SigPipe, Stays, kernel, loop, pool, workers
<1> QED
  BY <1>1, <1>2, <1>3, <1>4 DEF Next, MainStep, WorkerStep

\* A worker that returns from accept_request holds nothing any more, and the
\* others are not touched.
LEMMA ReturnFacts ==
  ASSUME TypeOK, NEW w \in Workers, Return(w)
  PROVE  /\ Busy' = Busy \ {w}
         /\ \A v \in Busy' : job'[v] = job[v]
         /\ wpc'[w] = "idle" /\ job'[w] = None
         /\ \A v \in Workers \ {w} : wpc'[v] = wpc[v] /\ job'[v] = job[v]
  BY DEF Return, Busy, TypeOK

\* A worker takes the first node of the list.
LEMMA TakeFacts ==
  ASSUME TypeOK, NEW w \in Workers, WorkerTake(w)
  PROVE  /\ Len(pending) \in Nat \ {0} /\ pending[1] \in Jobs
         /\ Len(pending') = Len(pending) - 1
         /\ \A i \in 1 .. Len(pending') : i + 1 \in 1 .. Len(pending) /\ pending'[i] = pending[i + 1]
         /\ w \notin Busy /\ Busy' = Busy \cup {w}
         /\ job'[w] = pending[1] /\ wpc'[w] = "line"
         /\ \A v \in Workers \ {w} : wpc'[v] = wpc[v] /\ job'[v] = job[v]
         /\ UNCHANGED <<batch, armed, table, ready, mpc, backlog, accept_err, outcome, tp, peer>>
<1>1. pending \in Seq(Jobs) /\ pending # << >>
  BY DEF TypeOK, WorkerTake
<1>2. /\ Len(pending) \in Nat \ {0} /\ Head(pending) = pending[1] /\ pending[1] \in Jobs
      /\ Len(pending') = Len(pending) - 1
      /\ \A i \in 1 .. Len(pending) - 1 : pending'[i] = pending[i + 1]
  BY <1>1, UnlinkFacts DEF WorkerTake
<1>3. /\ w \notin Busy /\ Busy' = Busy \cup {w}
      /\ job'[w] = Head(pending) /\ wpc'[w] = "line"
      /\ \A v \in Workers \ {w} : wpc'[v] = wpc[v] /\ job'[v] = job[v]
  BY DEF WorkerTake, Busy, TypeOK
<1> QED
  BY <1>2, <1>3 DEF WorkerTake, kernel, loop, client

\* threadpool_add puts main's event in front of the list.
LEMMA SubmitFacts ==
  ASSUME TypeOK, Shape, Current, DispatchRequest
  PROVE  /\ batch[1].fd \in FDs /\ batch[1].conn \in Conns /\ 1 \in 1 .. Len(batch)
         /\ NextEvent /\ mpc = "dispatch"
         /\ UNCHANGED <<armed, table, ready, wpc, job, Busy, backlog, accept_err, peer>>
         /\ (tp' = "shutdown") = (tp = "shutdown")
         /\ \/ /\ tp = "open" /\ UNCHANGED outcome
               /\ pending' \in Seq(Jobs) /\ Len(pending) \in Nat
               /\ pending' = <<[fd |-> batch[1].fd, conn |-> batch[1].conn]>> \o pending
               /\ Len(pending') = Len(pending) + 1
               /\ pending'[1] = [fd |-> batch[1].fd, conn |-> batch[1].conn]
               /\ \A i \in 2 .. Len(pending') : i - 1 \in 1 .. Len(pending) /\ pending'[i] = pending[i - 1]
            \/ /\ UNCHANGED pending
               /\ outcome' = [outcome EXCEPT ![batch[1].conn] = "refused"]
<1> DEFINE t == [fd |-> batch[1].fd, conn |-> batch[1].conn]
<1>1. mpc = "dispatch" /\ NextEvent /\ Head(batch) = batch[1]
      /\ batch[1].fd \in FDs /\ batch[1].conn \in Conns /\ 1 \in 1 .. Len(batch)
  BY HeadFacts DEF DispatchRequest
<1>2. t \in Jobs /\ pending \in Seq(Jobs) /\ Len(pending) \in Nat
  BY <1>1, LenProperties DEF Jobs, TypeOK
<1>3. /\ <<t>> \o pending \in Seq(Jobs)
      /\ Len(<<t>> \o pending) = Len(pending) + 1
      /\ (<<t>> \o pending)[1] = t
      /\ \A i \in 2 .. Len(pending) + 1 : (<<t>> \o pending)[i] = pending[i - 1]
  BY <1>2, LinkFacts
<1>4. UNCHANGED <<armed, table, ready, wpc, job, Busy, backlog, accept_err, peer>>
  BY DEF DispatchRequest, kernel, workers, Busy, client
<1>5. \/ tp = "open" /\ UNCHANGED outcome /\ pending' = <<t>> \o pending
      \/ UNCHANGED pending /\ outcome' = [outcome EXCEPT ![batch[1].conn] = "refused"]
  BY <1>1 DEF DispatchRequest
<1>7. (tp' = "shutdown") = (tp = "shutdown")
  BY DEF DispatchRequest
<1>6. CASE tp = "open" /\ UNCHANGED outcome /\ pending' = <<t>> \o pending
  <2>1. /\ pending' \in Seq(Jobs) /\ Len(pending') = Len(pending) + 1 /\ pending'[1] = t
        /\ \A i \in 2 .. Len(pending') : i - 1 \in 1 .. Len(pending) /\ pending'[i] = pending[i - 1]
    BY <1>2, <1>3, <1>6
  <2> QED
    BY <1>1, <1>2, <1>4, <1>6, <1>7, <2>1
<1> QED
  BY <1>1, <1>4, <1>5, <1>6, <1>7

\* Where main and the workers are agrees with what they hold.
LEMMA ShapeStep ==
  ASSUME TypeOK, Shape, Current, Next
  PROVE  Shape'
<1>1. \A w \in Workers : wpc'[w] = "idle" <=> job'[w] = None
  <2>1. ASSUME NEW v \in Workers, WorkerTake(v)
        PROVE  \A w \in Workers : wpc'[w] = "idle" <=> job'[w] = None
    BY <2>1, TakeFacts, ServerAssumption DEF Shape
  <2>2. ASSUME NEW v \in Workers, Return(v)
        PROVE  \A w \in Workers : wpc'[w] = "idle" <=> job'[w] = None
    BY <2>2, ReturnFacts DEF Shape
  <2>3. ASSUME UNCHANGED <<job, Busy>>
        PROVE  \A w \in Workers : wpc'[w] = "idle" <=> job'[w] = None
    <3>1. \A w \in Workers : wpc'[w] = "idle" <=> wpc[w] = "idle"
      BY <2>3 DEF Busy
    <3> QED
      BY <2>3, <3>1 DEF Shape
  <2>4. CASE My_epoll_wait \/ DispatchError \/ DispatchRequest \/ Accept \/ AcceptDrained \/ AcceptFails
    BY <2>3, <2>4 DEF My_epoll_wait, DispatchError, DispatchRequest, Accept, AcceptDrained, AcceptFails,
                      workers, Busy
  <2> QED
    BY <2>1, <2>2, <2>3, <2>4, Moves DEF Stays, RejectRequest, NotFound, FinishRequest
<1>2. /\ mpc' = "wait" => batch' = << >>
      /\ mpc' \in {"dispatch", "accept"} => batch' # << >>
      /\ mpc' = "accept" => batch'[1].fd = Listen
      /\ \A i \in 1 .. Len(batch') : batch'[i].fd = Listen => ~batch'[i].err
  <2>1. CASE UNCHANGED <<mpc, batch>>
    BY <2>1 DEF Shape
  <2>2. CASE My_epoll_wait
    BY <2>2, PollFacts, ReadyFacts
  <2>3. CASE mpc \in {"dispatch", "accept"} /\ NextEvent
    BY <2>3, NextEventFacts DEF Shape
  <2>4. CASE DispatchListen
    BY <2>4, HeadFacts DEF DispatchListen, Shape
  <2>5. CASE batch' = batch /\ mpc' \in {"destroy", "exit", "killed"}
    BY <2>5 DEF Shape
  <2>6. CASE UNCHANGED <<mpc, batch>> \/ My_epoll_wait \/ DispatchListen
             \/ (mpc \in {"dispatch", "accept"} /\ NextEvent)
             \/ (batch' = batch /\ mpc' \in {"destroy", "exit", "killed"})
    BY <2>1, <2>2, <2>3, <2>4, <2>5, <2>6
  <2>7. ASSUME NEW c \in Conns, ClientStep(c)
        PROVE  UNCHANGED <<mpc, batch>>
    BY <2>7 DEF ClientStep, Connect, Send, Leave, Reset, loop
  <2>8. ASSUME NEW w \in Workers, WorkerStep(w)
        PROVE  UNCHANGED <<mpc, batch>> \/ (batch' = batch /\ mpc' = "killed")
    BY <2>8 DEF WorkerStep, WorkerTake, RejectRequest, RouteRequest, ClearHeader, NotFound,
                echo_html, exe_cgi, ProgramHangs, SigPipe, FinishRequest, loop
  <2>9. MainStep \/ EpollWaitFails =>
          \/ UNCHANGED <<mpc, batch>> \/ My_epoll_wait \/ DispatchListen
          \/ (mpc \in {"dispatch", "accept"} /\ NextEvent)
          \/ (batch' = batch /\ mpc' \in {"destroy", "exit", "killed"})
    BY DEF MainStep, EpollWaitFails, Exit, DispatchError, DispatchRequest, Accept, AfterAccept,
           AcceptDrained, AcceptFails
  <2> QED
    BY <2>6, <2>7, <2>8, <2>9 DEF Next
<1> QED
  BY <1>1, <1>2 DEF Shape

\* What is left in main's array after an event: distinct descriptors that
\* were there before, without the one of that event.
LEMMA AdvanceFacts ==
  ASSUME TypeOK, Shape, Current, Exclusive, mpc \in {"dispatch", "accept"}, NextEvent
  PROVE  /\ \A i, j \in 1 .. Len(batch') : batch'[i].fd = batch'[j].fd => i = j
         /\ \A i \in 1 .. Len(batch') : /\ batch'[i].fd # batch[1].fd
                                        /\ \E k \in 1 .. Len(batch) : batch'[i] = batch[k]
         /\ \A k \in 1 .. Len(batch) : k = 1 \/ \E i \in 1 .. Len(batch') : batch'[i] = batch[k]
         /\ 1 \in 1 .. Len(batch)
<1>1. /\ Len(batch') = Len(batch) - 1 /\ Len(batch) \in Nat \ {0}
      /\ \A i \in 1 .. Len(batch') : i + 1 \in 1 .. Len(batch) /\ batch'[i] = batch[i + 1]
  BY NextEventFacts
<1>2. ASSUME NEW i \in 1 .. Len(batch'), NEW j \in 1 .. Len(batch'), batch'[i].fd = batch'[j].fd
      PROVE  i = j
  <2>1. i + 1 = j + 1
    BY <1>1, <1>2, ZenonT(30) DEF Exclusive
  <2> QED
    BY <1>1, <2>1
<1>3. ASSUME NEW i \in 1 .. Len(batch')
      PROVE  batch'[i].fd # batch[1].fd
  <2>1. i + 1 \in 1 .. Len(batch) /\ batch'[i] = batch[i + 1] /\ i + 1 # 1 /\ 1 \in 1 .. Len(batch)
    BY <1>1
  <2> QED
    BY <2>1 DEF Exclusive
<1>4. ASSUME NEW k \in 1 .. Len(batch), k # 1
      PROVE  \E i \in 1 .. Len(batch') : batch'[i] = batch[k]
  <2>1. k - 1 \in 1 .. Len(batch') /\ batch'[k - 1] = batch[k - 1 + 1] /\ k - 1 + 1 = k
    BY <1>1, <1>4
  <2> QED
    BY <2>1
<1>5. \A i \in 1 .. Len(batch') : \E k \in 1 .. Len(batch) : batch'[i] = batch[k]
  BY <1>1
<1>6. 1 \in 1 .. Len(batch)
  BY <1>1
<1>7. \A i, j \in 1 .. Len(batch') : batch'[i].fd = batch'[j].fd => i = j
  BY <1>2
<1>8. \A i \in 1 .. Len(batch') : /\ batch'[i].fd # batch[1].fd
                                  /\ \E k \in 1 .. Len(batch) : batch'[i] = batch[k]
  BY <1>3, <1>5, Zenon
<1>9. \A k \in 1 .. Len(batch) : k = 1 \/ \E i \in 1 .. Len(batch') : batch'[i] = batch[k]
  BY <1>4, Zenon
<1> QED
  BY <1>6, <1>7, <1>8, <1>9

\* No step makes two places hold one descriptor: what moves leaves the place
\* it comes from, and what accept hands out was held by nobody.
LEMMA ExclusiveStep ==
  ASSUME TypeOK, Shape, Current, Exclusive, Next
  PROVE  Exclusive'
<1>1. CASE Stays
  BY <1>1 DEF Stays, Exclusive
<1>2. CASE My_epoll_wait
  <2>1. PICK taken \in SUBSET ready :
          /\ armed' = armed \ taken
          /\ \A i \in 1 .. Len(batch') : batch'[i].fd \in taken
          /\ \A i, j \in 1 .. Len(batch') : batch'[i].fd = batch'[j].fd => i = j
    BY <1>2, PollFacts
  <2>2. UNCHANGED <<pending, job, Busy>>
    BY <1>2 DEF My_epoll_wait, pool, workers, Busy
  <2>3. taken \subseteq armed \cup {Listen}
    BY DEF Current
  <2>4. \A i \in 1 .. Len(batch') : batch'[i].fd \in armed \cup {Listen} /\ batch'[i].fd \notin armed'
    BY <2>1, <2>3, ServerAssumption DEF TypeOK
  <2>5. (\A j \in 1 .. Len(pending) : pending[j].fd # Listen) /\ (\A w \in Busy : job[w].fd # Listen)
    <3>1. ASSUME NEW j \in 1 .. Len(pending)
          PROVE  pending[j].fd # Listen
      BY PendingFacts, ServerAssumption
    <3>2. ASSUME NEW w \in Busy
          PROVE  job[w].fd # Listen
      BY WorkerFacts, ServerAssumption DEF Busy
    <3> QED
      BY <3>1, <3>2
  <2> QED
    BY <2>1, <2>2, <2>4, <2>5 DEF Exclusive
<1>3. CASE /\ mpc \in {"dispatch", "accept"} /\ NextEvent
           /\ armed' \subseteq armed /\ UNCHANGED <<pending, job, Busy>>
  <2>1. /\ \A i, j \in 1 .. Len(batch') : batch'[i].fd = batch'[j].fd => i = j
        /\ \A i \in 1 .. Len(batch') : \E k \in 1 .. Len(batch) : batch'[i] = batch[k]
    BY <1>3, AdvanceFacts
  <2>2. \A i \in 1 .. Len(batch') : /\ batch'[i].fd \notin armed'
                                    /\ \A w \in Busy : batch'[i].fd # job[w].fd
                                    /\ \A j \in 1 .. Len(pending) : batch'[i].fd # pending[j].fd
    BY <1>3, <2>1 DEF Exclusive
  <2> QED
    BY <1>3, <2>1, <2>2 DEF Exclusive
<1>4. CASE DispatchError \/ AcceptDrained \/ AcceptFails
  BY <1>3, <1>4 DEF DispatchError, Close, AcceptDrained, AcceptFails, kernel, pool, workers, Busy
<1>5. CASE DispatchRequest
  <2>1. mpc \in {"dispatch", "accept"} /\ NextEvent /\ UNCHANGED <<armed, job, Busy>>
    BY <1>5, SubmitFacts
  <2>2. CASE UNCHANGED pending
    BY <1>3, <2>1, <2>2
  <2>3. CASE /\ Len(pending) \in Nat /\ Len(pending') = Len(pending) + 1
             /\ pending'[1].fd = batch[1].fd
             /\ \A i \in 2 .. Len(pending') : i - 1 \in 1 .. Len(pending) /\ pending'[i] = pending[i - 1]
    <3>1. /\ \A i, j \in 1 .. Len(batch') : batch'[i].fd = batch'[j].fd => i = j
          /\ \A i \in 1 .. Len(batch') : /\ batch'[i].fd # batch[1].fd
                                         /\ \E k \in 1 .. Len(batch) : batch'[i] = batch[k]
          /\ 1 \in 1 .. Len(batch)
      BY <2>1, AdvanceFacts
    <3>2. ASSUME NEW i \in 1 .. Len(pending'), NEW j \in 1 .. Len(pending'), pending'[i].fd = pending'[j].fd
          PROVE  i = j
      <4>1. CASE i = 1 /\ j = 1
        BY <4>1
      <4>2. CASE i # 1 /\ j # 1
        <5>1. i - 1 \in 1 .. Len(pending) /\ j - 1 \in 1 .. Len(pending)
              /\ pending[i - 1].fd = pending[j - 1].fd
          BY <2>3, <3>2, <4>2
        <5>2. i - 1 = j - 1
          BY <5>1 DEF Exclusive
        <5> QED
          BY <2>3, <5>2
      <4>3. CASE i = 1 /\ j # 1
        <5>1. j - 1 \in 1 .. Len(pending) /\ pending[j - 1].fd = batch[1].fd
          BY <2>3, <3>2, <4>3
        <5> QED
          BY <3>1, <5>1 DEF Exclusive
      <4>4. CASE i # 1 /\ j = 1
        <5>1. i - 1 \in 1 .. Len(pending) /\ pending[i - 1].fd = batch[1].fd
          BY <2>3, <3>2, <4>4
        <5> QED
          BY <3>1, <5>1 DEF Exclusive
      <4> QED
        BY <4>1, <4>2, <4>3, <4>4
    <3>3. ASSUME NEW j \in 1 .. Len(pending')
          PROVE  \/ pending'[j].fd = batch[1].fd
                 \/ \E k \in 1 .. Len(pending) : pending'[j].fd = pending[k].fd
      <4>1. CASE j = 1
        BY <2>3, <4>1
      <4>2. CASE j # 1
        BY <2>3, <4>2
      <4> QED
        BY <4>1, <4>2
    <3>4. ASSUME NEW i \in 1 .. Len(batch'), NEW j \in 1 .. Len(pending')
          PROVE  batch'[i].fd # pending'[j].fd
      <4>1. PICK k \in 1 .. Len(batch) : batch'[i] = batch[k]
        BY <3>1
      <4>2. CASE pending'[j].fd = batch[1].fd
        BY <3>1, <4>2
      <4>3. CASE \E m \in 1 .. Len(pending) : pending'[j].fd = pending[m].fd
        BY <4>1, <4>3 DEF Exclusive
      <4> QED
        BY <3>3, <4>2, <4>3
    <3>5. \A j \in 1 .. Len(pending') : pending'[j].fd \notin armed /\ \A w \in Busy : pending'[j].fd # job[w].fd
      BY <3>1, <3>3 DEF Exclusive
    <3>6. \A i \in 1 .. Len(batch') : batch'[i].fd \notin armed /\ \A w \in Busy : batch'[i].fd # job[w].fd
      BY <3>1 DEF Exclusive
    <3>7. \A i, j \in 1 .. Len(pending') : pending'[i].fd = pending'[j].fd => i = j
      BY <3>2
    <3>8. \A v, w \in Busy : job[v].fd = job[w].fd => v = w
      BY DEF Exclusive
    <3>9. \A w \in Busy : job[w].fd \notin armed
      BY DEF Exclusive
    <3> QED
      BY <2>1, <3>1, <3>4, <3>5, <3>6, <3>7, <3>8, <3>9 DEF Exclusive
  <2> QED
    BY <1>5, <2>2, <2>3, SubmitFacts
<1>6. CASE Accept
  <2>1. PICK f \in FDs : table[f] = None /\ armed' = armed \cup {f}
    BY <1>6 DEF Accept, FreeFDs
  <2>2. UNCHANGED <<batch, pending, job, Busy>>
    BY <1>6 DEF Accept, AfterAccept, pool, workers, Busy
  <2>3. \A i \in 1 .. Len(batch) : batch[i].fd # f
    BY <2>1, ServerAssumption DEF Current
  <2>4. \A i \in 1 .. Len(pending) : pending[i].fd # f
    <3>1. \A i \in 1 .. Len(pending) : pending[i].conn \in Conns
      BY PendingFacts
    <3> QED
      BY <2>1, <3>1, ServerAssumption DEF Current
  <2>5. \A w \in Busy : job[w].fd # f
    BY <2>1, WorkerFacts, ServerAssumption DEF Busy
  <2> QED
    BY <2>1, <2>2, <2>3, <2>4, <2>5 DEF Exclusive
<1>7. ASSUME NEW w \in Workers, WorkerTake(w)
      PROVE  Exclusive'
  <2>1. \A v \in Busy' : v = w \/ (v \in Busy /\ job'[v] = job[v])
    BY <1>7, TakeFacts DEF Busy
  <2>2. \A v \in Busy : v # w
    BY <1>7, TakeFacts
  <2>3. /\ Len(pending) \in Nat \ {0} /\ 1 \in 1 .. Len(pending)
        /\ Len(pending') = Len(pending) - 1
        /\ \A i \in 1 .. Len(pending') : i + 1 \in 1 .. Len(pending) /\ pending'[i] = pending[i + 1]
    BY <1>7, TakeFacts
  <2>4. ASSUME NEW i \in 1 .. Len(pending')
        PROVE  pending'[i].fd # pending[1].fd
    <3>1. i + 1 \in 1 .. Len(pending) /\ pending'[i] = pending[i + 1] /\ i + 1 # 1
      BY <2>3
    <3> QED
      BY <2>3, <3>1 DEF Exclusive
  <2>5. ASSUME NEW i \in 1 .. Len(pending'), NEW j \in 1 .. Len(pending'), pending'[i].fd = pending'[j].fd
        PROVE  i = j
    <3>1. i + 1 = j + 1
      BY <2>3, <2>5 DEF Exclusive
    <3> QED
      BY <2>3, <3>1
  <2>6. \A i \in 1 .. Len(pending') : \E k \in 1 .. Len(pending) : pending'[i] = pending[k]
    BY <2>3
  <2>7. job'[w] = pending[1] /\ UNCHANGED <<batch, armed>>
    BY <1>7, TakeFacts
  <2>8. \A v \in Busy' : v = w \/ (v \in Busy /\ job'[v].fd = job[v].fd)
    BY <2>1
  <2>9. \A u, v \in Busy' : job'[u].fd = job'[v].fd => u = v
    BY <2>3, <2>7, <2>8 DEF Exclusive
  <2>10. \A v \in Busy' : /\ job'[v].fd \notin armed
                          /\ \A i \in 1 .. Len(batch) : batch[i].fd # job'[v].fd
                          /\ \A i \in 1 .. Len(pending') : pending'[i].fd # job'[v].fd
    BY <2>3, <2>4, <2>6, <2>7, <2>8 DEF Exclusive
  <2>11. \A j \in 1 .. Len(pending') : pending'[j].fd \notin armed
                                       /\ \A i \in 1 .. Len(batch) : batch[i].fd # pending'[j].fd
    BY <2>6, SMTT(30) DEF Exclusive
  <2> QED
    BY <2>5, <2>7, <2>9, <2>10, <2>11 DEF Exclusive
<1>8. ASSUME NEW w \in Workers, RejectRequest(w) \/ NotFound(w) \/ FinishRequest(w)
      PROVE  Exclusive'
  <2>1. Busy' \subseteq Busy /\ \A v \in Busy' : job'[v] = job[v]
    BY <1>8, ReturnFacts DEF RejectRequest, NotFound, FinishRequest
  <2>2. armed' \subseteq armed /\ UNCHANGED <<batch, pending>>
    BY <1>8 DEF RejectRequest, NotFound, FinishRequest, CloseSock, Close, kernel, loop, pool
  <2> QED
    BY <2>1, <2>2 DEF Exclusive
<1> QED
  BY <1>1, <1>2, <1>4, <1>5, <1>6, <1>7, <1>8, Moves

\* The ready list only names the listen socket and entries that can fire.
LEMMA ReadyStep ==
  ASSUME TypeOK, Shape, Current, Next
  PROVE  ready' \subseteq armed' \cup {Listen}
<1>1. ready \subseteq armed \cup {Listen}
  BY DEF Current
<1>2. ASSUME NEW c \in Conns, ClientStep(c)
      PROVE  ready' \subseteq armed' \cup {Listen}
  BY <1>1, <1>2 DEF ClientStep, Connect, Send, Leave, Reset, Notify
<1>3. CASE My_epoll_wait
  BY <1>1, <1>3, PollFacts
<1>4. CASE Accept
  BY <1>1, <1>4 DEF Accept
<1>5. CASE DispatchError
  BY <1>1, <1>5 DEF DispatchError, Close
<1>6. CASE DispatchListen \/ DispatchRequest \/ AcceptDrained \/ AcceptFails \/ Exit \/ EpollWaitFails
  BY <1>1, <1>6 DEF DispatchListen, DispatchRequest, AcceptDrained, AcceptFails, Exit, EpollWaitFails, kernel
<1>7. ASSUME NEW w \in Workers, WorkerStep(w)
      PROVE  ready' \subseteq armed' \cup {Listen}
  BY <1>1, <1>7 DEF WorkerStep, WorkerTake, RejectRequest, RouteRequest, ClearHeader, NotFound, echo_html,
                    exe_cgi, ProgramHangs, SigPipe, FinishRequest, CloseSock, Close, kernel
<1> QED
  BY <1>2, <1>3, <1>4, <1>5, <1>6, <1>7 DEF Next, MainStep

\* Nobody closes a descriptor that another place holds, and accept gives its
\* new descriptor to nobody who held one of that number.
LEMMA CurrentStep ==
  ASSUME TypeOK, Shape, Current, Exclusive, Next
  PROVE  Current'
<1> DEFINE Arms == \A f \in armed' : table'[f] # None
           Array == \A i \in 1 .. Len(batch') : batch'[i].fd # Listen =>
                      batch'[i].conn \in Conns /\ table'[batch'[i].fd] = batch'[i].conn
           List == \A i \in 1 .. Len(pending') : table'[pending'[i].fd] = pending'[i].conn
           Hold == \A w \in Busy' : table'[job'[w].fd] = job'[w].conn
<1> SUFFICES Arms /\ Array /\ List /\ Hold
  BY ReadyStep DEF Current
<1>1. CASE Stays
  BY <1>1 DEF Stays, Current
<1>2. CASE My_epoll_wait
  <2>1. PICK taken \in SUBSET ready :
          /\ armed' = armed \ taken
          /\ \A i \in 1 .. Len(batch') : batch'[i].fd \in taken /\ batch'[i] = Event(batch'[i].fd)
    BY <1>2, PollFacts
  <2>2. UNCHANGED <<table, pending, job, Busy>>
    BY <1>2 DEF My_epoll_wait, pool, workers, Busy
  <2>3. \A i \in 1 .. Len(batch') : batch'[i].fd # Listen =>
          table[batch'[i].fd] \in Conns /\ Event(batch'[i].fd).conn = table[batch'[i].fd]
    BY <2>1, ReadyFacts
  <2>4. Array
    BY <2>1, <2>2, <2>3
  <2> QED
    BY <2>1, <2>2, <2>4 DEF Current
<1>3. CASE DispatchError
  <2>1. mpc = "dispatch" /\ batch[1].fd \in FDs /\ Head(batch) = batch[1] /\ NextEvent
    BY <1>3, HeadFacts DEF DispatchError
  <2>2. /\ \A i \in 1 .. Len(batch') : batch'[i].fd # batch[1].fd
                                       /\ \E k \in 1 .. Len(batch) : batch'[i] = batch[k]
        /\ 1 \in 1 .. Len(batch)
    BY <2>1, AdvanceFacts
  <2>3. /\ armed' = armed \ {batch[1].fd}
        /\ UNCHANGED <<pending, job, Busy>>
        /\ \A f \in FDs \ {batch[1].fd} : table'[f] = table[f]
    BY <1>3, <2>1 DEF DispatchError, Close, pool, workers, Busy, TypeOK
  <2>4. \A i \in 1 .. Len(batch') : batch'[i].fd # Listen => batch'[i].fd \in FDs
    <3>1. \A k \in 1 .. Len(batch) : batch[k].fd # Listen => batch[k].fd \in FDs
      BY ArrayFacts
    <3> QED
      BY <2>2, <3>1
  <2>5. Arms
    BY <2>3 DEF Current, TypeOK
  <2>6. Array
    BY <2>2, <2>3, <2>4 DEF Current
  <2>7. List
    BY <2>2, <2>3, PendingFacts DEF Current, Exclusive
  <2>8. Hold
    BY <2>2, <2>3, WorkerFacts DEF Current, Exclusive, Busy
  <2> QED
    BY <2>5, <2>6, <2>7, <2>8
<1>4. CASE DispatchRequest
  <2>1. /\ mpc = "dispatch" /\ NextEvent /\ batch[1].fd \in FDs /\ 1 \in 1 .. Len(batch)
        /\ UNCHANGED <<armed, table, job, Busy>>
    BY <1>4, SubmitFacts
  <2>2. \A i \in 1 .. Len(batch') : \E k \in 1 .. Len(batch) : batch'[i] = batch[k]
    BY <2>1, AdvanceFacts
  <2>3. table[batch[1].fd] = batch[1].conn
    BY <2>1, ServerAssumption DEF Current
  <2>4. List
    <3>1. CASE UNCHANGED pending
      BY <2>1, <3>1 DEF Current
    <3>2. CASE /\ Len(pending') = Len(pending) + 1 /\ Len(pending) \in Nat
               /\ pending'[1].fd = batch[1].fd /\ pending'[1].conn = batch[1].conn
               /\ \A i \in 2 .. Len(pending') : i - 1 \in 1 .. Len(pending) /\ pending'[i] = pending[i - 1]
      <4> SUFFICES ASSUME NEW i \in 1 .. Len(pending')
                   PROVE  table[pending'[i].fd] = pending'[i].conn
        BY <2>1
      <4>1. CASE i = 1
        BY <2>3, <3>2, <4>1
      <4>2. CASE i # 1
        BY <3>2, <4>2 DEF Current
      <4> QED
        BY <4>1, <4>2
    <3> QED
      BY <1>4, <3>1, <3>2, SubmitFacts
  <2> QED
    BY <2>1, <2>2, <2>4 DEF Current
<1>5. CASE Accept
  <2>1. PICK f \in FDs : /\ table[f] = None /\ armed' = armed \cup {f}
                         /\ table' = [table EXCEPT ![f] = Head(backlog)]
    BY <1>5 DEF Accept, FreeFDs
  <2>2. UNCHANGED <<batch, pending, job, Busy>>
    BY <1>5 DEF Accept, AfterAccept, pool, workers, Busy
  <2>3. Head(backlog) \in Conns /\ Head(backlog) # None
    BY <1>5, UnlinkFacts, ServerAssumption DEF Accept, TypeOK
  <2>4. \A g \in FDs : table[g] # None => table'[g] = table[g]
    BY <2>1 DEF TypeOK
  <2>5. Arms
    BY <2>1, <2>3, <2>4 DEF Current, TypeOK
  <2>6. Array
    <3>1. \A k \in 1 .. Len(batch) : batch[k].fd # Listen => batch[k].fd \in FDs
      BY ArrayFacts
    <3> QED
      BY <2>2, <2>4, <3>1, ServerAssumption DEF Current
  <2>7. List
    BY <2>2, <2>4, PendingFacts, ServerAssumption DEF Current
  <2>8. Hold
    BY <2>2, <2>4, WorkerFacts, ServerAssumption DEF Busy
  <2> QED
    BY <2>5, <2>6, <2>7, <2>8
<1>6. CASE AcceptDrained \/ AcceptFails
  <2>1. mpc = "accept" /\ NextEvent /\ UNCHANGED <<armed, table, pending, job, Busy>>
    BY <1>6 DEF AcceptDrained, AcceptFails, kernel, pool, workers, Busy
  <2>2. \A i \in 1 .. Len(batch') : \E k \in 1 .. Len(batch) : batch'[i] = batch[k]
    BY <2>1, AdvanceFacts
  <2> QED
    BY <2>1, <2>2 DEF Current
<1>7. ASSUME NEW w \in Workers, WorkerTake(w)
      PROVE  Arms /\ Array /\ List /\ Hold
  <2>1. \A i \in 1 .. Len(pending') : \E k \in 1 .. Len(pending) : pending'[i] = pending[k]
    BY <1>7, TakeFacts
  <2>2. \A v \in Busy' : (v = w /\ job'[v] = pending[1]) \/ (v \in Busy /\ job'[v] = job[v])
    BY <1>7, TakeFacts DEF Busy
  <2>3. 1 \in 1 .. Len(pending) /\ UNCHANGED <<table, armed, batch>>
    BY <1>7, TakeFacts
  <2> QED
    BY <2>1, <2>2, <2>3, SMTT(30) DEF Current
<1>8. ASSUME NEW w \in Workers, RejectRequest(w) \/ NotFound(w)
      PROVE  Arms /\ Array /\ List /\ Hold
  <2>1. Busy' \subseteq Busy /\ \A v \in Busy' : job'[v] = job[v]
    BY <1>8, ReturnFacts DEF RejectRequest, NotFound
  <2> QED
    BY <1>8, <2>1 DEF RejectRequest, NotFound, kernel, loop, pool, Current
<1>9. ASSUME NEW w \in Workers, FinishRequest(w)
      PROVE  Arms /\ Array /\ List /\ Hold
  <2>1. wpc[w] # "idle" /\ w \in Busy
    BY <1>9 DEF FinishRequest, Busy
  <2>2. Busy' = Busy \ {w} /\ \A v \in Busy' : job'[v] = job[v]
    BY <1>9, ReturnFacts DEF FinishRequest
  <2>3. /\ armed' = armed \ {job[w].fd} /\ UNCHANGED <<batch, pending>>
        /\ \A f \in FDs \ {job[w].fd} : table'[f] = table[f]
    BY <1>9 DEF FinishRequest, CloseSock, Close, loop, pool, TypeOK
  <2>4. Arms
    BY <2>3 DEF Current, TypeOK
  <2>5. Array
    <3>1. \A k \in 1 .. Len(batch) : batch[k].fd # Listen => batch[k].fd \in FDs
      BY ArrayFacts
    <3> QED
      BY <2>1, <2>3, <3>1 DEF Current, Exclusive
  <2>6. List
    BY <2>1, <2>3, PendingFacts DEF Current, Exclusive
  <2>7. Hold
    BY <2>1, <2>2, <2>3, WorkerFacts DEF Exclusive, Busy
  <2> QED
    BY <2>4, <2>5, <2>6, <2>7
<1> QED
  BY <1>1, <1>2, <1>3, <1>4, <1>5, <1>6, <1>7, <1>8, <1>9, Moves

\* A client's own connection: Connect puts it at the end of the listen queue.
LEMMA ConnectFacts ==
  ASSUME TypeOK, NEW c \in Conns, Connect(c)
  PROVE  /\ peer[c] = "away" /\ peer' = [peer EXCEPT ![c] = "up"]
         /\ Len(backlog) \in Nat /\ Len(backlog') = Len(backlog) + 1 /\ backlog' # << >>
         /\ backlog'[Len(backlog) + 1] = c
         /\ \A i \in 1 .. Len(backlog) : backlog'[i] = backlog[i]
         /\ UNCHANGED <<table, batch, accept_err>> /\ ready' = ready \cup {Listen}
<1>1. backlog \in Seq(Conns) /\ backlog' = Append(backlog, c)
  BY DEF TypeOK, Connect
<1> QED
  BY <1>1, AppendFacts DEF Connect, loop

\* accept takes the first connection of the queue and a free descriptor.
LEMMA AcceptFacts ==
  ASSUME TypeOK, Accept
  PROVE  /\ Len(backlog) \in Nat \ {0} /\ Len(backlog') = Len(backlog) - 1
         /\ Head(backlog) = backlog[1] /\ backlog[1] \in Conns
         /\ \A i \in 1 .. Len(backlog') : i + 1 \in 1 .. Len(backlog) /\ backlog'[i] = backlog[i + 1]
         /\ \E f \in FDs : /\ table[f] = None
                           /\ table' = [table EXCEPT ![f] = backlog[1]]
                           /\ armed' = armed \cup {f}
         /\ UNCHANGED <<peer, mpc, batch, pending, wpc, job, Busy, outcome, accept_err>>
<1>1. backlog \in Seq(Conns) /\ backlog # << >> /\ backlog' = Tail(backlog)
  BY DEF TypeOK, Accept
<1>2. /\ Len(backlog) \in Nat \ {0} /\ Len(backlog') = Len(backlog) - 1
      /\ Head(backlog) = backlog[1] /\ backlog[1] \in Conns
      /\ \A i \in 1 .. Len(backlog) - 1 : backlog'[i] = backlog[i + 1]
  BY <1>1, UnlinkFacts
<1>3. \E f \in FDs : /\ table[f] = None
                     /\ table' = [table EXCEPT ![f] = backlog[1]]
                     /\ armed' = armed \cup {f}
  <2>1. PICK f \in FreeFDs : table' = [table EXCEPT ![f] = Head(backlog)] /\ armed' = armed \cup {f}
    BY DEF Accept
  <2> QED
    BY <1>2, <2>1 DEF FreeFDs
<1>4. UNCHANGED <<peer, mpc, batch, pending, wpc, job, Busy, outcome, accept_err>>
  BY DEF Accept, AfterAccept, client, pool, workers, Busy
<1>5. \A i \in 1 .. Len(backlog') : i + 1 \in 1 .. Len(backlog) /\ backlog'[i] = backlog[i + 1]
  BY <1>2
<1> QED
  BY <1>2, <1>3, <1>4, <1>5

\* A connection is never in two places of the kernel.
LEMMA PlacedStep ==
  ASSUME TypeOK, Shape, Current, Placed, Next
  PROVE  Placed'
<1>1. ASSUME UNCHANGED backlog,
             \A c \in Conns : peer[c] # "away" => peer'[c] # "away",
             \A f \in FDs : table'[f] \in {None, table[f]}
      PROVE  Placed'
  <2>1. \A i \in 1 .. Len(backlog) : backlog[i] \in Conns
    BY ElementOfSeq DEF TypeOK
  <2>2. \A i \in 1 .. Len(backlog) : \A f \in FDs : table'[f] # backlog[i]
    BY <1>1, <2>1, ServerAssumption DEF Placed
  <2>3. \A f \in FDs : table'[f] # None => table'[f] = table[f] /\ table[f] \in Conns
    BY <1>1 DEF TypeOK
  <2>4. \A f, g \in FDs : table'[f] = table'[g] /\ table'[f] # None => f = g
    BY <2>3 DEF Placed
  <2>5. \A f \in FDs : table'[f] # None => peer'[table'[f]] # "away"
    BY <1>1, <2>3 DEF Placed
  <2> QED
    BY <1>1, <2>1, <2>2, <2>4, <2>5 DEF Placed
<1>2. ASSUME NEW c \in Conns, Connect(c)
      PROVE  Placed'
  <2>1. /\ peer[c] = "away" /\ peer' = [peer EXCEPT ![c] = "up"]
        /\ Len(backlog) \in Nat /\ Len(backlog') = Len(backlog) + 1
        /\ backlog'[Len(backlog) + 1] = c
        /\ \A i \in 1 .. Len(backlog) : backlog'[i] = backlog[i]
        /\ UNCHANGED table
    BY <1>2, ConnectFacts
  <2>2. \A i \in 1 .. Len(backlog) : backlog[i] \in Conns
    BY ElementOfSeq DEF TypeOK
  <2>3. /\ \A i \in 1 .. Len(backlog) : backlog[i] # c
        /\ \A f \in FDs : table[f] # c
    BY <2>1, ServerAssumption DEF Placed
  <2>4. \A d \in Conns : peer[d] # "away" => peer'[d] # "away"
    BY <2>1 DEF TypeOK
  <2>5. peer'[c] # "away"
    BY <2>1 DEF TypeOK
  <2>6. \A i \in 1 .. Len(backlog') : i \in 1 .. Len(backlog) \/ i = Len(backlog) + 1
    BY <2>1
  <2>7. \A i, j \in 1 .. Len(backlog') : backlog'[i] = backlog'[j] => i = j
    BY <2>1, <2>3, <2>6 DEF Placed
  <2>8. \A i \in 1 .. Len(backlog') : peer'[backlog'[i]] # "away" /\ \A f \in FDs : table[f] # backlog'[i]
    BY <2>1, <2>2, <2>3, <2>4, <2>5, <2>6 DEF Placed
  <2>9. \A f \in FDs : table[f] # None => peer'[table[f]] # "away"
    BY <2>4 DEF Placed, TypeOK
  <2> QED
    BY <2>1, <2>7, <2>8, <2>9 DEF Placed
<1>3. CASE Accept
  <2>1. PICK f \in FDs : table[f] = None /\ table' = [table EXCEPT ![f] = backlog[1]]
    BY <1>3, AcceptFacts
  <2>2. /\ Len(backlog) \in Nat \ {0} /\ Len(backlog') = Len(backlog) - 1
        /\ 1 \in 1 .. Len(backlog) /\ backlog[1] \in Conns
        /\ \A i \in 1 .. Len(backlog') : i + 1 \in 1 .. Len(backlog) /\ backlog'[i] = backlog[i + 1]
        /\ UNCHANGED peer
    BY <1>3, AcceptFacts
  <2>3. /\ table'[f] = backlog[1]
        /\ \A g \in FDs \ {f} : table'[g] = table[g]
    BY <2>1 DEF TypeOK
  <2>4. \A g, h \in FDs : table'[g] = table'[h] /\ table'[g] # None => g = h
    BY <2>2, <2>3 DEF Placed
  <2>5. \A g \in FDs : table'[g] # None => peer[table'[g]] # "away"
    BY <2>2, <2>3 DEF Placed
  <2>6. ASSUME NEW i \in 1 .. Len(backlog')
        PROVE  peer[backlog'[i]] # "away" /\ \A g \in FDs : table'[g] # backlog'[i]
    <3>1. i + 1 \in 1 .. Len(backlog) /\ backlog'[i] = backlog[i + 1] /\ i + 1 # 1
      BY <2>2
    <3> QED
      BY <2>2, <2>3, <3>1 DEF Placed
  <2>7. ASSUME NEW i \in 1 .. Len(backlog'), NEW j \in 1 .. Len(backlog'), backlog'[i] = backlog'[j]
        PROVE  i = j
    <3>1. i + 1 = j + 1
      BY <2>2, <2>7 DEF Placed
    <3> QED
      BY <2>2, <3>1
  <2> QED
    BY <2>2, <2>4, <2>5, <2>6, <2>7 DEF Placed
<1>4. ASSUME NEW c \in Conns, Send(c) \/ Leave(c) \/ Reset(c)
      PROVE  Placed'
  <2>1. \A d \in Conns : peer[d] # "away" => peer'[d] # "away"
    BY <1>4 DEF Send, Leave, Reset, TypeOK
  <2> QED
    BY <1>1, <1>4, <2>1 DEF Send, Leave, Reset
<1>5. CASE My_epoll_wait \/ DispatchListen \/ DispatchRequest \/ AcceptDrained \/ AcceptFails \/ Exit \/ EpollWaitFails
  BY <1>1, <1>5 DEF My_epoll_wait, DispatchListen, DispatchRequest, AcceptDrained, AcceptFails, Exit,
                    EpollWaitFails, kernel, client
<1>6. CASE DispatchError
  <2>1. \A f \in FDs : table'[f] \in {None, table[f]}
    BY <1>6 DEF DispatchError, Close, TypeOK
  <2> QED
    BY <1>1, <1>6, <2>1 DEF DispatchError, client
<1>7. ASSUME NEW w \in Workers, WorkerStep(w)
      PROVE  Placed'
  <2>1. CASE FinishRequest(w)
    <3>1. \A f \in FDs : table'[f] \in {None, table[f]}
      BY <2>1 DEF FinishRequest, CloseSock, Close, TypeOK
    <3> QED
      BY <1>1, <2>1, <3>1 DEF FinishRequest, client
  <2>2. CASE ~FinishRequest(w)
    BY <1>1, <1>7, <2>2 DEF WorkerStep, WorkerTake, RejectRequest, RouteRequest, ClearHeader, NotFound,
                            echo_html, exe_cgi, ProgramHangs, SigPipe, kernel, client
  <2> QED
    BY <2>1, <2>2
<1> QED
  BY <1>2, <1>3, <1>4, <1>5, <1>6, <1>7 DEF Next, MainStep, ClientStep

\* Every open descriptor is held, or its request was given up without a
\* close: what a place hands on another takes, and who lets go closes.
LEMMA AccountedStep ==
  ASSUME TypeOK, Shape, Current, Exclusive, Placed, Accounted, Next
  PROVE  Accounted'
<1> DEFINE GivenUp == {"rejected", "missing", "refused"}
<1>1. ASSUME NEW f \in FDs, table[f] # None, table'[f] = table[f],
             Held(f) => Held(f)' \/ outcome'[table[f]] \in GivenUp,
             Held(f) \/ outcome'[table[f]] = outcome[table[f]]
      PROVE  Held(f)' \/ outcome'[table'[f]] \in GivenUp
  BY <1>1 DEF Accounted
<1>2. CASE Stays
  <2> SUFFICES ASSUME NEW f \in FDs, table'[f] # None
               PROVE  Held(f)' \/ outcome'[table'[f]] \in GivenUp
    BY DEF Accounted
  <2>1. table'[f] = table[f] /\ (Held(f) <=> Held(f)')
    BY <1>2 DEF Stays, Held
  <2>2. Held(f) \/ outcome'[table[f]] = outcome[table[f]]
    <3>1. CASE UNCHANGED outcome
      BY <3>1
    <3>2. ASSUME NEW w \in Workers, echo_html(w) \/ exe_cgi(w)
          PROVE  Held(f) \/ outcome'[table[f]] = outcome[table[f]]
      <4>1. wpc[w] # "idle"
        BY <3>2 DEF echo_html, exe_cgi
      <4>2. job[w].fd \in FDs /\ Sock(w) = table[job[w].fd] /\ Sock(w) \in Conns /\ w \in Busy
        BY <4>1, WorkerFacts DEF Busy
      <4>3. CASE f = job[w].fd
        BY <4>2, <4>3 DEF Held
      <4>4. CASE f # job[w].fd
        <5>1. table[f] # Sock(w) /\ table[f] \in Conns
          BY <2>1, <4>2, <4>4 DEF Placed, TypeOK
        <5> QED
          BY <3>2, <5>1 DEF echo_html, exe_cgi, TypeOK
      <4> QED
        BY <4>3, <4>4
    <3>3. ASSUME NEW c \in Conns, ClientStep(c)
          PROVE  UNCHANGED outcome
      BY <3>3 DEF ClientStep, Connect, Send, Leave, Reset
    <3>4. CASE My_epoll_wait \/ DispatchListen \/ Accept \/ AcceptDrained \/ AcceptFails \/ Exit \/ EpollWaitFails
      BY <3>1, <3>4 DEF My_epoll_wait, DispatchListen, Accept, AcceptDrained, AcceptFails, Exit, EpollWaitFails
    <3>5. ~DispatchError /\ ~DispatchRequest
      <4>1. ASSUME DispatchError \/ DispatchRequest
            PROVE  FALSE
        <5>1. mpc \in {"dispatch", "accept"} /\ NextEvent
          BY <4>1 DEF DispatchError, DispatchRequest
        <5>2. Len(batch') = Len(batch) - 1 /\ Len(batch) \in Nat
          BY <5>1, NextEventFacts
        <5> QED
          BY <1>2, <5>2 DEF Stays
      <4> QED
        BY <4>1
    <3>6. ASSUME NEW w \in Workers, RejectRequest(w) \/ NotFound(w)
          PROVE  FALSE
      <4>1. w \in Busy /\ Return(w)
        BY <3>6 DEF RejectRequest, NotFound, Busy
      <4> QED
        BY <1>2, <4>1, ReturnFacts DEF Stays
    <3>7. ASSUME NEW w \in Workers, \/ WorkerTake(w) \/ RouteRequest(w) \/ ClearHeader(w) \/ ProgramHangs(w)
                                    \/ SigPipe(w) \/ FinishRequest(w)
          PROVE  UNCHANGED outcome
      BY <3>7 DEF WorkerTake, RouteRequest, ClearHeader, ProgramHangs, SigPipe, FinishRequest
    <3> QED
      BY <3>1, <3>2, <3>3, <3>4, <3>5, <3>6, <3>7 DEF Next, MainStep, WorkerStep
  <2> QED
    BY <1>1, <2>1, <2>2
<1>3. CASE My_epoll_wait
  <2>1. PICK taken \in SUBSET ready :
          /\ armed' = armed \ taken
          /\ \A x \in taken : \E i \in 1 .. Len(batch') : batch'[i].fd = x
    BY <1>3, PollFacts
  <2>2. batch = << >> /\ UNCHANGED <<table, pending, job, Busy, outcome>>
    BY <1>3 DEF My_epoll_wait, Shape, pool, workers, Busy
  <2>3. \A f \in FDs : Held(f) => Held(f)'
    BY <2>1, <2>2 DEF Held
  <2> QED
    BY <2>2, <2>3 DEF Accounted
<1>4. CASE DispatchError
  <2>1. /\ mpc = "dispatch" /\ NextEvent /\ Head(batch) = batch[1]
        /\ batch[1].fd \in FDs /\ batch[1].conn \in Conns /\ table[batch[1].fd] = batch[1].conn
    BY <1>4, HeadFacts DEF DispatchError
  <2>2. /\ table'[batch[1].fd] = None
        /\ \A f \in FDs \ {batch[1].fd} : table'[f] = table[f]
        /\ armed' = armed \ {batch[1].fd}
        /\ outcome' = [outcome EXCEPT ![batch[1].conn] = "error"]
        /\ UNCHANGED <<pending, job, Busy>>
    BY <1>4, <2>1 DEF DispatchError, Close, pool, workers, Busy, TypeOK
  <2>3. \A k \in 1 .. Len(batch) : k = 1 \/ \E i \in 1 .. Len(batch') : batch'[i] = batch[k]
    BY <2>1, AdvanceFacts
  <2> SUFFICES ASSUME NEW f \in FDs, table'[f] # None
               PROVE  Held(f)' \/ outcome'[table'[f]] \in GivenUp
    BY DEF Accounted
  <2>4. f # batch[1].fd /\ table'[f] = table[f]
    BY <2>2
  <2>5. table[f] \in Conns /\ table[f] # batch[1].conn
    BY <2>1, <2>4 DEF Placed, TypeOK
  <2>6. outcome'[table[f]] = outcome[table[f]]
    BY <2>2, <2>5 DEF TypeOK
  <2>7. Held(f) => Held(f)'
    BY <2>2, <2>3, <2>4 DEF Held
  <2> QED
    BY <1>1, <2>4, <2>6, <2>7
<1>5. CASE DispatchRequest
  <2>1. /\ mpc = "dispatch" /\ NextEvent /\ batch[1].fd \in FDs /\ batch[1].conn \in Conns
        /\ table[batch[1].fd] = batch[1].conn
        /\ UNCHANGED <<armed, table, job, Busy>>
    BY <1>5, SubmitFacts, ServerAssumption DEF Current
  <2>2. \A k \in 1 .. Len(batch) : k = 1 \/ \E i \in 1 .. Len(batch') : batch'[i] = batch[k]
    BY <2>1, AdvanceFacts
  <2> SUFFICES ASSUME NEW f \in FDs, table'[f] # None
               PROVE  Held(f)' \/ outcome'[table'[f]] \in GivenUp
    BY DEF Accounted
  <2>3. CASE /\ UNCHANGED outcome
             /\ Len(pending) \in Nat /\ Len(pending') = Len(pending) + 1
             /\ pending'[1].fd = batch[1].fd
             /\ \A i \in 2 .. Len(pending') : i - 1 \in 1 .. Len(pending) /\ pending'[i] = pending[i - 1]
    <3>1. ASSUME NEW k \in 1 .. Len(pending)
          PROVE  \E i \in 1 .. Len(pending') : pending'[i] = pending[k]
      <4>1. k + 1 \in 2 .. Len(pending') /\ k + 1 \in 1 .. Len(pending') /\ k + 1 - 1 = k
        BY <2>3
      <4>2. pending'[k + 1] = pending[k]
        BY <2>3, <4>1
      <4> QED
        BY <4>1, <4>2
    <3>2. 1 \in 1 .. Len(pending')
      BY <2>3
    <3>3. ASSUME NEW k \in 1 .. Len(batch), batch[k].fd = f
          PROVE  Held(f)'
      <4>1. CASE k = 1
        BY <2>3, <3>2, <3>3, <4>1 DEF Held
      <4>2. CASE \E i \in 1 .. Len(batch') : batch'[i] = batch[k]
        BY <3>3, <4>2 DEF Held
      <4> QED
        BY <2>2, <4>1, <4>2
    <3>4. ASSUME NEW k \in 1 .. Len(pending), pending[k].fd = f
          PROVE  Held(f)'
      BY <3>1, <3>4 DEF Held
    <3>5. Held(f) => Held(f)'
      BY <2>1, <3>3, <3>4 DEF Held
    <3> QED
      BY <1>1, <2>1, <2>3, <3>5
  <2>4. CASE UNCHANGED pending /\ outcome' = [outcome EXCEPT ![batch[1].conn] = "refused"]
    <3>1. CASE f = batch[1].fd
      BY <2>1, <2>4, <3>1 DEF TypeOK
    <3>2. CASE f # batch[1].fd
      <4>1. table[f] \in Conns /\ table[f] # batch[1].conn
        BY <2>1, <3>2 DEF Placed, TypeOK
      <4>2. outcome'[table[f]] = outcome[table[f]]
        BY <2>4, <4>1 DEF TypeOK
      <4>3. Held(f) => Held(f)'
        BY <2>1, <2>2, <2>4, <3>2 DEF Held
      <4> QED
        BY <1>1, <2>1, <4>2, <4>3
    <3> QED
      BY <3>1, <3>2
  <2> QED
    BY <1>5, <2>3, <2>4, SubmitFacts
<1>6. CASE Accept
  <2>1. PICK f \in FDs : table[f] = None /\ table' = [table EXCEPT ![f] = backlog[1]] /\ armed' = armed \cup {f}
    BY <1>6, AcceptFacts
  <2>2. UNCHANGED <<batch, pending, job, Busy, outcome>>
    BY <1>6, AcceptFacts
  <2>3. \A g \in FDs \ {f} : table'[g] = table[g] /\ (Held(g) => Held(g)')
    BY <2>1, <2>2 DEF Held, TypeOK
  <2>4. Held(f)'
    BY <2>1 DEF Held
  <2> QED
    BY <2>2, <2>3, <2>4 DEF Accounted
<1>7. CASE AcceptDrained \/ AcceptFails
  <2>1. mpc = "accept" /\ NextEvent /\ UNCHANGED <<armed, table, pending, job, Busy, outcome>>
    BY <1>7 DEF AcceptDrained, AcceptFails, kernel, pool, workers, Busy
  <2>2. \A k \in 1 .. Len(batch) : k = 1 \/ \E i \in 1 .. Len(batch') : batch'[i] = batch[k]
    BY <2>1, AdvanceFacts
  <2>3. batch[1].fd \notin FDs
    BY <2>1, ServerAssumption DEF Shape
  <2>4. \A f \in FDs : Held(f) => Held(f)'
    BY <2>1, <2>2, <2>3 DEF Held
  <2> QED
    BY <2>1, <2>4 DEF Accounted
<1>8. ASSUME NEW w \in Workers, WorkerTake(w)
      PROVE  Accounted'
  <2>1. ASSUME NEW k \in 1 .. Len(pending), k # 1
        PROVE  \E i \in 1 .. Len(pending') : pending'[i] = pending[k]
    <3>1. k - 1 \in 1 .. Len(pending') /\ k - 1 + 1 = k
      BY <1>8, <2>1, TakeFacts
    <3>2. pending'[k - 1] = pending[k]
      BY <1>8, <3>1, TakeFacts
    <3> QED
      BY <3>1, <3>2
  <2>2. /\ w \in Busy' /\ job'[w] = pending[1]
        /\ \A v \in Busy : v \in Busy' /\ job'[v] = job[v]
        /\ UNCHANGED <<table, armed, batch, outcome>>
    BY <1>8, TakeFacts DEF Busy
  <2>3. \A f \in FDs : Held(f) => Held(f)'
    BY <2>1, <2>2 DEF Held
  <2> QED
    BY <2>2, <2>3 DEF Accounted
<1>9. ASSUME NEW w \in Workers, RejectRequest(w) \/ NotFound(w)
      PROVE  Accounted'
  <2>1. wpc[w] # "idle" /\ Return(w) /\ UNCHANGED <<table, armed, batch, pending>>
    BY <1>9 DEF RejectRequest, NotFound, kernel, loop, pool
  <2>2. job[w].fd \in FDs /\ table[job[w].fd] = Sock(w) /\ Sock(w) \in Conns
    BY <2>1, WorkerFacts
  <2>3. PICK o \in GivenUp : outcome' = [outcome EXCEPT ![Sock(w)] = o]
    BY <1>9 DEF RejectRequest, NotFound
  <2>4. \A v \in Busy : v = w \/ (v \in Busy' /\ job'[v] = job[v])
    BY <2>1, ReturnFacts
  <2> SUFFICES ASSUME NEW f \in FDs, table'[f] # None
               PROVE  Held(f)' \/ outcome'[table'[f]] \in GivenUp
    BY DEF Accounted
  <2>5. CASE f = job[w].fd
    BY <2>1, <2>2, <2>3, <2>5 DEF TypeOK
  <2>6. CASE f # job[w].fd
    <3>1. table[f] \in Conns /\ table[f] # Sock(w)
      BY <2>1, <2>2, <2>6 DEF Placed, TypeOK
    <3>2. outcome'[table[f]] = outcome[table[f]]
      BY <2>3, <3>1 DEF TypeOK
    <3>3. Held(f) => Held(f)'
      BY <2>1, <2>4, <2>6 DEF Held
    <3> QED
      BY <1>1, <2>1, <3>2, <3>3
  <2> QED
    BY <2>5, <2>6
<1>10. ASSUME NEW w \in Workers, FinishRequest(w)
       PROVE  Accounted'
  <2>1. Return(w) /\ UNCHANGED <<batch, pending, outcome>>
    BY <1>10 DEF FinishRequest, loop, pool
  <2>2. /\ armed' = armed \ {job[w].fd}
        /\ \A f \in FDs : IF f = job[w].fd THEN table'[f] = None ELSE table'[f] = table[f]
    BY <1>10 DEF FinishRequest, CloseSock, Close, TypeOK
  <2>3. \A v \in Busy : v = w \/ (v \in Busy' /\ job'[v] = job[v])
    BY <2>1, ReturnFacts
  <2>4. \A f \in FDs : f # job[w].fd /\ Held(f) => Held(f)'
    BY <2>1, <2>2, <2>3 DEF Held
  <2> QED
    BY <2>1, <2>2, <2>4 DEF Accounted
<1> QED
  BY <1>2, <1>3, <1>4, <1>5, <1>6, <1>7, <1>8, <1>9, <1>10, Moves

\* The edge for the listen queue is not lost: accept is called again until
\* the queue is empty, or it fails.
LEMMA AnnouncedStep ==
  ASSUME TypeOK, Shape, Current, Exclusive, Announced, Next
  PROVE  Announced'
<1> USE ServerAssumption
<1>1. ASSUME UNCHANGED <<backlog, batch, accept_err>>, Listen \in ready => Listen \in ready'
      PROVE  Announced'
  BY <1>1 DEF Announced
<1>2. ASSUME NEW c \in Conns, ClientStep(c)
      PROVE  Announced'
  <2>1. CASE Connect(c)
    BY <2>1 DEF Connect, Announced
  <2>2. CASE Send(c) \/ Leave(c) \/ Reset(c)
    BY <1>1, <2>2 DEF Send, Leave, Reset, Notify, loop
  <2> QED
    BY <1>2, <2>1, <2>2 DEF ClientStep
<1>3. CASE My_epoll_wait
  <2>1. batch = << >> /\ UNCHANGED <<backlog, accept_err>>
    BY <1>3 DEF My_epoll_wait, Shape
  <2>2. \A i \in 1 .. Len(batch) : FALSE
    BY <2>1
  <2>3. CASE backlog # << >> /\ Listen \in ready
    <3>1. Pollable(Listen)
      BY <2>3 DEF Pollable
    <3> QED
      BY <1>3, <2>3, <3>1, PollFacts DEF Announced
  <2> QED
    BY <2>1, <2>2, <2>3 DEF Announced
<1>4. CASE DispatchError \/ DispatchRequest
  <2>1. mpc \in {"dispatch", "accept"} /\ NextEvent /\ batch[1].fd \in FDs
    <3>1. CASE DispatchError
      BY <3>1, HeadFacts DEF DispatchError
    <3>2. CASE DispatchRequest
      BY <3>2, SubmitFacts
    <3> QED
      BY <1>4, <3>1, <3>2
  <2>2. UNCHANGED <<backlog, accept_err>> /\ (Listen \in ready => Listen \in ready')
    BY <1>4, <2>1, HeadFacts DEF DispatchError, DispatchRequest, Close, kernel
  <2>3. \A k \in 1 .. Len(batch) : k = 1 \/ \E i \in 1 .. Len(batch') : batch'[i] = batch[k]
    BY <2>1, AdvanceFacts
  <2>4. (\E k \in 1 .. Len(batch) : batch[k].fd = Listen) => \E i \in 1 .. Len(batch') : batch'[i].fd = Listen
    BY <2>1, <2>3
  <2> QED
    BY <2>2, <2>4 DEF Announced
<1>5. CASE Accept
  <2>1. mpc = "accept" /\ UNCHANGED batch
    BY <1>5, AcceptFacts DEF Accept
  <2>2. batch[1].fd = Listen /\ 1 \in 1 .. Len(batch)
    BY <2>1, HeadFacts DEF Shape
  <2> QED
    BY <2>1, <2>2 DEF Announced
<1>6. CASE AcceptDrained \/ AcceptFails
  BY <1>6 DEF AcceptDrained, AcceptFails, kernel, Announced
<1>7. CASE DispatchListen \/ Exit \/ EpollWaitFails
  BY <1>1, <1>7 DEF DispatchListen, Exit, EpollWaitFails, kernel
<1>8. ASSUME NEW w \in Workers, WorkerStep(w)
      PROVE  Announced'
  <2>1. CASE FinishRequest(w)
    <3>1. job[w].fd # Listen
      BY <2>1, WorkerFacts DEF FinishRequest
    <3> QED
      BY <1>1, <2>1, <3>1 DEF FinishRequest, CloseSock, Close, loop
  <2>2. CASE ~FinishRequest(w)
    BY <1>1, <1>8, <2>2 DEF WorkerStep, WorkerTake, RejectRequest, RouteRequest, ClearHeader, NotFound,
                            echo_html, exe_cgi, ProgramHangs, SigPipe, kernel, loop
  <2> QED
    BY <2>1, <2>2
<1> QED
  BY <1>2, <1>3, <1>4, <1>5, <1>6, <1>7, <1>8 DEF Next, MainStep

-----------------------------------------------------------------------------
(* The invariant of the server *)

\* The invariant holds when main enters its loop.
LEMMA InitIInv == Init => IInv
<1> SUFFICES ASSUME Init
             PROVE  IInv
  OBVIOUS
<1> USE ServerAssumption DEF Init
<1>1. TypeOK
  <2>1. batch = << >> /\ pending = << >> /\ backlog = << >> /\ Len(batch) = 0
    OBVIOUS
  <2>2. batch \in Seq(Events) /\ pending \in Seq(Jobs) /\ backlog \in Seq(Conns) /\ Len(batch) <= MAXEVENTS
    BY <2>1
  <2>3. tp \in {"open", "NULL", "shutdown", "locked"}
    OBVIOUS
  <2>4. /\ peer \in [Conns -> {"away", "up", "closed", "reset"}] /\ sent \in [Conns -> 0 .. 3]
        /\ got \in [Conns -> 0 .. 3] /\ (\A c \in Conns : got[c] <= sent[c])
        /\ outcome \in [Conns -> Outcomes]
    BY DEF Outcomes
  <2>5. /\ table \in [FDs -> Conns \cup {None}] /\ armed \subseteq FDs /\ ready \subseteq FDs \cup {Listen}
        /\ mpc \in {"wait", "dispatch", "accept", "destroy", "exit", "killed"} /\ accept_err \in BOOLEAN
    OBVIOUS
  <2>6. /\ wpc \in [Workers -> {"idle", "line", "clear404", "clear_page", "clear_cgi", "page", "cgi", "hung", "close"}]
        /\ job \in [Workers -> Jobs \cup {None}]
    OBVIOUS
  <2> QED
    BY <2>2, <2>3, <2>4, <2>5, <2>6 DEF TypeOK
<1>2. Busy = {} /\ Len(batch) = 0 /\ Len(pending) = 0 /\ Len(backlog) = 0
  BY DEF Busy
<1>3. Shape
  <2>1. \A w \in Workers : wpc[w] = "idle" /\ job[w] = None
    OBVIOUS
  <2> QED
    BY <1>2, <2>1 DEF Shape
<1>4. Exclusive /\ Current
  BY <1>2 DEF Exclusive, Current
<1>5. Placed /\ Accounted /\ Announced
  BY <1>2 DEF Placed, Accounted, Announced
<1> QED
  BY <1>1, <1>3, <1>4, <1>5 DEF IInv

\* And every step of a client, of main or of a worker keeps it.
LEMMA StepIInv == IInv /\ [Next]_vars => IInv'
<1>1. ASSUME IInv, Next
      PROVE  IInv'
  BY <1>1, TypeStep, ShapeStep, ExclusiveStep, CurrentStep, PlacedStep, AccountedStep, AnnouncedStep DEF IInv
<1>2. ASSUME IInv, UNCHANGED vars
      PROVE  IInv'
  <2>1. UNCHANGED <<peer, sent, got, backlog, table, armed, ready, mpc, batch, accept_err, tp, pending,
                    wpc, job, outcome, Busy>>
    BY <1>2 DEF vars, client, kernel, loop, pool, workers, Busy
  <2>2. TypeOK' /\ Shape'
    BY <1>2, <2>1 DEF IInv, TypeOK, Shape
  <2>3. Exclusive' /\ Current'
    BY <1>2, <2>1 DEF IInv, Exclusive, Current
  <2>4. Placed' /\ Announced'
    BY <1>2, <2>1 DEF IInv, Placed, Announced
  <2>5. Accounted'
    BY <1>2, <2>1 DEF IInv, Accounted, Held
  <2> QED
    BY <2>2, <2>3, <2>4, <2>5 DEF IInv
<1> QED
  BY <1>1, <1>2

\* The inductive invariant holds in every state of the server.
LEMMA Invariance == Spec => []IInv
  BY InitIInv, StepIInv, PTL DEF Spec

\* main, the clients and the workers keep every variable within its type; in
\* particular epoll_wait never fills more of the array than there is.
THEOREM ServerTypeCorrect == Spec => []TypeOK
<1>1. IInv => TypeOK
  BY DEF IInv
<1> QED
  BY <1>1, Invariance, PTL

\* A descriptor on its way from epoll to a worker, or in a worker, denotes
\* the connection epoll reported, however descriptors are closed and reused.
THEOREM DescriptorsStayCurrent == Spec => []DescriptorsAreCurrent
<1>1. ASSUME IInv, NEW h \in Handed
      PROVE  table[h.fd] = h.conn
  <2> USE <1>1 DEF IInv
  <2>1. CASE h \in {[fd |-> e.fd, conn |-> e.conn] : e \in {e \in ToSet(batch) : e.fd # Listen}}
    <3>1. PICK i \in 1 .. Len(batch) : batch[i].fd # Listen /\ h = [fd |-> batch[i].fd, conn |-> batch[i].conn]
      <4>1. DOMAIN batch = 1 .. Len(batch)
        BY DEF TypeOK
      <4> QED
        BY <2>1, <4>1 DEF ToSet
    <3> QED
      BY <3>1 DEF Current
  <2>2. CASE h \in ToSet(pending)
    <3>1. DOMAIN pending = 1 .. Len(pending)
      BY DEF TypeOK
    <3> QED
      BY <2>2, <3>1 DEF ToSet, Current
  <2>3. CASE h \in {job[w] : w \in {w \in Workers : wpc[w] # "idle"}}
    BY <2>3 DEF Current, Busy
  <2> QED
    BY <1>1, <2>1, <2>2, <2>3 DEF Handed
<1>2. IInv => DescriptorsAreCurrent
  BY <1>1 DEF DescriptorsAreCurrent
<1> QED
  BY <1>2, Invariance, PTL

\* When main goes back to epoll_wait, a connection in the listen queue has
\* an event to come unless accept failed.
THEOREM BacklogIsAnnounced == Spec => []NoStrandedBacklog
<1>1. ASSUME IInv, mpc = "wait", backlog # << >>
      PROVE  Listen \in ready \/ accept_err
  <2>1. Len(batch) = 0
    BY <1>1 DEF IInv, Shape
  <2> QED
    BY <1>1, <2>1 DEF IInv, Announced
<1>2. IInv => NoStrandedBacklog
  BY <1>1 DEF NoStrandedBacklog
<1> QED
  BY <1>2, Invariance, PTL

-----------------------------------------------------------------------------
(* Counting hands *)

\* A finite set without two different elements counts 0 or 1.
LEMMA CountAtMostOne ==
  ASSUME NEW S, IsFiniteSet(S), \A x, y \in S : x = y
  PROVE  Cardinality(S) \in {0, 1} /\ (Cardinality(S) = 0 <=> S = {})
<1>1. CASE S = {}
  BY <1>1, FS_EmptySet
<1>2. CASE S # {}
  <2>1. PICK x \in S : TRUE
    BY <1>2
  <2>2. S = {x}
    BY <2>1
  <2> QED
    BY <2>2, FS_Singleton
<1> QED
  BY <1>1, <1>2

InArray(f) == {i \in 1 .. Len(batch) : batch[i].fd = f}
InList(f) == {i \in 1 .. Len(pending) : pending[i].fd = f}
InWorkers(f) == {w \in Workers : wpc[w] # "idle" /\ job[w].fd = f}

\* Each place counts a descriptor at most once, and it counts it if and only
\* if it holds it.
LEMMA PlacesCount ==
  ASSUME IInv, NEW f \in FDs
  PROVE  /\ Cardinality(InArray(f)) \in {0, 1} /\ (Cardinality(InArray(f)) = 0 <=> InArray(f) = {})
         /\ Cardinality(InList(f)) \in {0, 1} /\ (Cardinality(InList(f)) = 0 <=> InList(f) = {})
         /\ Cardinality(InWorkers(f)) \in {0, 1} /\ (Cardinality(InWorkers(f)) = 0 <=> InWorkers(f) = {})
<1>1. Len(batch) \in Nat /\ Len(pending) \in Nat
  BY LenProperties DEF IInv, TypeOK
<1>2. IsFiniteSet(InArray(f)) /\ IsFiniteSet(InList(f)) /\ IsFiniteSet(InWorkers(f))
  <2>1. IsFiniteSet(1 .. Len(batch)) /\ IsFiniteSet(1 .. Len(pending)) /\ IsFiniteSet(Workers)
    BY <1>1, FS_Interval, ServerAssumption
  <2>2. /\ InArray(f) \in SUBSET (1 .. Len(batch))
        /\ InList(f) \in SUBSET (1 .. Len(pending))
        /\ InWorkers(f) \in SUBSET Workers
    BY DEF InArray, InList, InWorkers
  <2> QED
    BY <2>1, <2>2, FS_Subset
<1>3. /\ \A x, y \in InArray(f) : x = y
      /\ \A x, y \in InList(f) : x = y
      /\ \A x, y \in InWorkers(f) : x = y
  BY DEF IInv, Exclusive, InArray, InList, InWorkers, Busy
<1> QED
  BY <1>2, <1>3, CountAtMostOne

\* The number of hands, from what each place holds.
LEMMA HandsFacts ==
  ASSUME IInv, NEW f \in FDs
  PROVE  Hands(f) <= 1 /\ (Hands(f) = 0 => ~Held(f))
<1>1. Hands(f) = (IF f \in armed THEN 1 ELSE 0)
                 + Cardinality(InArray(f)) + Cardinality(InList(f)) + Cardinality(InWorkers(f))
  BY DEF Hands, InArray, InList, InWorkers
<1>2. f \in armed => InArray(f) = {} /\ InList(f) = {} /\ InWorkers(f) = {}
  BY DEF IInv, Exclusive, InArray, InList, InWorkers, Busy
<1>3. InArray(f) # {} => InList(f) = {} /\ InWorkers(f) = {}
  BY DEF IInv, Exclusive, InArray, InList, InWorkers, Busy
<1>4. InList(f) # {} => InWorkers(f) = {}
  BY DEF IInv, Exclusive, InArray, InList, InWorkers, Busy
<1>5. Hands(f) <= 1
  BY <1>1, <1>2, <1>3, <1>4, PlacesCount
<1>6. Hands(f) = 0 => f \notin armed /\ InArray(f) = {} /\ InList(f) = {} /\ InWorkers(f) = {}
  BY <1>1, PlacesCount
<1> QED
  BY <1>5, <1>6 DEF Held, InArray, InList, InWorkers, Busy

\* At any time one thread at most owns a descriptor: EPOLLONESHOT, the array
\* and the pool hand each one on to exactly one.
THEOREM DescriptorsHaveOneOwner == Spec => []OneOwner
<1>1. IInv => OneOwner
  BY HandsFacts DEF OneOwner
<1> QED
  BY <1>1, Invariance, PTL

\* Only a request that was rejected, not found or refused by the pool leaves
\* an open descriptor that nobody owns.
THEOREM OnlyKnownLeaks == Spec => []LeaksExplained
<1>1. IInv => LeaksExplained
  BY HandsFacts DEF IInv, Accounted, LeaksExplained
<1> QED
  BY <1>1, Invariance, PTL

-----------------------------------------------------------------------------
(* The pool as the server uses it *)

\* At first no task is waiting or running.
LEMMA InitUsesPool == Init => Pool!Init
<1> SUFFICES ASSUME Init
             PROVE  Pool!Init
  OBVIOUS
<1>1. ToSet(pending) = {}
  BY DEF Init, ToSet
<1>2. tp # "shutdown"
  BY DEF Init
<1> QED
  BY <1>1, <1>2 DEF Init, Pool!Init

\* The tasks of a list.
LEMMA ListAsSet ==
  ASSUME TypeOK
  PROVE  ToSet(pending) = {pending[i] : i \in 1 .. Len(pending)}
<1>1. DOMAIN pending = 1 .. Len(pending)
  BY DEF TypeOK
<1> QED
  BY <1>1 DEF ToSet

\* A step of the server is one of the pool's, or does not touch it.
LEMMA StepUsesPool == IInv /\ [Next]_vars => [Pool!Next]_(Pool!vars)
<1> SUFFICES ASSUME IInv, [Next]_vars
             PROVE  [Pool!Next]_(Pool!vars)
  OBVIOUS
<1> USE DEF IInv
<1>0. TypeOK'
  BY StepIInv
<1>1. CASE UNCHANGED <<pending, job>> /\ (tp' = "shutdown") = (tp = "shutdown")
  BY <1>1 DEF Pool!vars, ToSet
<1>2. CASE DispatchRequest
  <2> DEFINE t == [fd |-> batch[1].fd, conn |-> batch[1].conn]
  <2>1. t \in Jobs /\ UNCHANGED job /\ (tp' = "shutdown") = (tp = "shutdown") /\ 1 \in 1 .. Len(batch)
    BY <1>2, SubmitFacts DEF Jobs
  <2>2. CASE UNCHANGED pending
    BY <1>1, <2>1, <2>2
  <2>3. CASE /\ tp = "open" /\ Len(pending) \in Nat
             /\ Len(pending') = Len(pending) + 1 /\ pending'[1] = t
             /\ \A i \in 2 .. Len(pending') : i - 1 \in 1 .. Len(pending) /\ pending'[i] = pending[i - 1]
    <3>1. t \notin ToSet(pending)
      <4>1. \A i \in 1 .. Len(pending) : pending[i].fd # t.fd
        BY <2>1 DEF Exclusive
      <4> QED
        BY <4>1, ListAsSet
    <3>2. \A w \in Workers : job[w] # t
      <4> SUFFICES ASSUME NEW w \in Workers, job[w] = t
                   PROVE  FALSE
        OBVIOUS
      <4>1. w \in Busy
        BY <2>1, ServerAssumption DEF Shape, Busy
      <4> QED
        BY <2>1, <4>1 DEF Exclusive
    <3>3. ToSet(pending') = ToSet(pending) \cup {t}
      <4>1. ToSet(pending') = {pending'[i] : i \in 1 .. Len(pending')}
        <5>1. DOMAIN pending' = 1 .. Len(pending')
          BY <1>0 DEF TypeOK
        <5> QED
          BY <5>1 DEF ToSet
      <4>2. ASSUME NEW i \in 1 .. Len(pending')
            PROVE  pending'[i] = t \/ \E k \in 1 .. Len(pending) : pending'[i] = pending[k]
        <5>1. CASE i = 1
          BY <2>3, <5>1
        <5>2. CASE i # 1
          BY <2>3, <5>2
        <5> QED
          BY <5>1, <5>2
      <4>3. ASSUME NEW k \in 1 .. Len(pending)
            PROVE  \E i \in 1 .. Len(pending') : pending'[i] = pending[k]
        <5>1. k + 1 \in 2 .. Len(pending') /\ k + 1 \in 1 .. Len(pending') /\ k + 1 - 1 = k
          BY <2>3
        <5>2. pending'[k + 1] = pending[k]
          BY <2>3, <5>1
        <5> QED
          BY <5>1, <5>2
      <4>4. 1 \in 1 .. Len(pending')
        BY <2>3
      <4> HIDE DEF t
      <4> QED
        BY <2>3, <4>1, <4>2, <4>3, <4>4, ListAsSet, SMTT(30)
    <3>4. Pool!Submit(t)
      BY <2>1, <2>3, <3>1, <3>2, <3>3 DEF Pool!Submit
    <3> QED
      BY <2>1, <3>4 DEF Pool!Next
  <2> QED
    BY <1>2, <2>2, <2>3, SubmitFacts
<1>3. ASSUME NEW w \in Workers, WorkerTake(w)
      PROVE  [Pool!Next]_(Pool!vars)
  <2>1. /\ Len(pending) \in Nat \ {0} /\ pending[1] \in Jobs
        /\ Len(pending') = Len(pending) - 1
        /\ \A i \in 1 .. Len(pending') : i + 1 \in 1 .. Len(pending) /\ pending'[i] = pending[i + 1]
        /\ w \notin Busy /\ UNCHANGED tp
    BY <1>3, TakeFacts
  <2>2. /\ job' = [job EXCEPT ![w] = pending[1]] /\ tp = "open"
    <3>1. pending \in Seq(Jobs) /\ pending # << >>
      BY <1>3 DEF TypeOK, WorkerTake
    <3> QED
      BY <1>3, <3>1, UnlinkFacts DEF WorkerTake
  <2>3. job[w] = None
    BY <2>1 DEF Shape, Busy
  <2>4. ToSet(pending') = ToSet(pending) \ {pending[1]}
    <3>1. ToSet(pending') = {pending'[i] : i \in 1 .. Len(pending')}
      <4>1. DOMAIN pending' = 1 .. Len(pending')
        BY <1>0 DEF TypeOK
      <4> QED
        BY <4>1 DEF ToSet
    <3>2. ASSUME NEW i \in 1 .. Len(pending')
          PROVE  pending'[i] # pending[1] /\ \E k \in 1 .. Len(pending) : pending'[i] = pending[k]
      <4>1. i + 1 \in 1 .. Len(pending) /\ pending'[i] = pending[i + 1] /\ i + 1 # 1 /\ 1 \in 1 .. Len(pending)
        BY <2>1
      <4> QED
        BY <4>1 DEF Exclusive
    <3>3. ASSUME NEW k \in 1 .. Len(pending), pending[k] # pending[1]
          PROVE  \E i \in 1 .. Len(pending') : pending'[i] = pending[k]
      <4>1. k - 1 \in 1 .. Len(pending') /\ k - 1 + 1 = k
        BY <2>1, <3>3
      <4>2. pending'[k - 1] = pending[k]
        BY <2>1, <4>1
      <4> QED
        BY <4>1, <4>2
    <3>4. ToSet(pending) = {pending[i] : i \in 1 .. Len(pending)}
      BY ListAsSet
    <3>5. \A x \in ToSet(pending') : x # pending[1] /\ x \in ToSet(pending)
      BY <3>1, <3>2, <3>4
    <3>6. \A x \in ToSet(pending) : x # pending[1] => x \in ToSet(pending')
      BY <3>1, <3>3, <3>4
    <3> QED
      BY <3>5, <3>6
  <2>5. pending[1] \in ToSet(pending)
    <3>1. 1 \in 1 .. Len(pending)
      BY <2>1
    <3> QED
      BY <3>1, ListAsSet
  <2>6. Pool!Start(w, pending[1])
    BY <2>1, <2>2, <2>3, <2>4, <2>5 DEF Pool!Start
  <2> QED
    BY <2>1, <2>6 DEF Pool!Next
<1>4. ASSUME NEW w \in Workers, RejectRequest(w) \/ NotFound(w) \/ FinishRequest(w)
      PROVE  [Pool!Next]_(Pool!vars)
  <2>1. /\ wpc[w] # "idle" /\ UNCHANGED <<pending, tp>>
        /\ job' = [job EXCEPT ![w] = None]
    BY <1>4 DEF RejectRequest, NotFound, FinishRequest, Return, pool
  <2>2. job[w] # None
    BY <2>1 DEF Shape
  <2>3. Pool!Finish(w)
    BY <2>1, <2>2 DEF Pool!Finish, ToSet
  <2> QED
    BY <2>3 DEF Pool!Next
<1>5. CASE EpollWaitFails
  <2>1. UNCHANGED <<pending, job>> /\ tp' = IF tp = "open" THEN "shutdown" ELSE tp
    BY <1>5 DEF EpollWaitFails, workers
  <2>2. CASE tp = "open"
    <3>1. Pool!Close("immediate")
      BY <2>1, <2>2 DEF Pool!Close, ToSet
    <3> QED
      BY <3>1 DEF Pool!Next
  <2>3. CASE tp # "open"
    BY <1>1, <2>1, <2>3
  <2> QED
    BY <2>2, <2>3
<1>6. ASSUME NEW c \in Conns, ClientStep(c)
      PROVE  UNCHANGED <<pending, job, tp>>
  BY <1>6 DEF ClientStep, Connect, Send, Leave, Reset, pool, workers
<1>7. My_epoll_wait \/ DispatchListen \/ DispatchError \/ Accept \/ AcceptDrained \/ AcceptFails \/ Exit
        => UNCHANGED <<pending, job, tp>>
  BY DEF My_epoll_wait, DispatchListen, DispatchError, Accept, AcceptDrained, AcceptFails, Exit, pool, workers
<1>8. ASSUME NEW w \in Workers, RouteRequest(w) \/ ClearHeader(w) \/ echo_html(w) \/ exe_cgi(w) \/ ProgramHangs(w)
                                 \/ SigPipe(w)
      PROVE  UNCHANGED <<pending, job, tp>>
  BY <1>8 DEF RouteRequest, ClearHeader, echo_html, exe_cgi, ProgramHangs, SigPipe, pool, workers
<1>9. UNCHANGED vars => UNCHANGED <<pending, job, tp>>
  BY DEF vars, pool, workers
<1> QED
  BY <1>1, <1>2, <1>3, <1>4, <1>5, <1>6, <1>7, <1>8, <1>9 DEF Next, MainStep, WorkerStep

\* The server sees of its pool only what TaskPool promises, and never hands
\* in a task that is waiting or running: with Refinement of ThreadPoolProof
\* the server and the pool fit together.
THEOREM PoolIsUsedAsPromised == Spec => UsesPoolAsPromised
<1>1. Init => Pool!Init
  BY InitUsesPool
<1>2. IInv /\ [Next]_vars => [Pool!Next]_(Pool!vars)
  BY StepUsesPool
<1> QED
  BY <1>1, <1>2, Invariance, PTL DEF Spec, UsesPoolAsPromised, Pool!Spec

-----------------------------------------------------------------------------
(* Verdicts *)

\* A step that decides about f: the only verdict it gives is on f's request,
\* which is then in nobody's hands but a worker's that closes it.
Decides(f) ==
  /\ Undone(f) /\ ~Undone(f)' /\ table[f] \in Conns
  /\ \E o \in Outcomes \ {"none"} : outcome' = [outcome EXCEPT ![table[f]] = o]

\* What a step does to the requests that are still to be decided.
Effect ==
  /\ UNCHANGED outcome \/ \E f \in FDs : Decides(f)
  /\ \A g \in FDs : Undone(g)' =>
       \/ Undone(g) /\ table'[g] = table[g]
       \/ 1 \in 1 .. Len(backlog) /\ table'[g] = backlog[1]

\* A step that gives no verdict and brings nothing new to be decided.
LEMMA QuietEffect ==
  ASSUME UNCHANGED outcome, \A g \in FDs : Undone(g)' => Undone(g) /\ table'[g] = table[g]
  PROVE  Effect
  BY DEF Effect

\* A step of a worker within its request: nothing changes hands.
LEMMA WithinEffect ==
  ASSUME TypeOK, UNCHANGED <<outcome, batch, pending, armed, table, job>>,
         \A w \in Busy' : w \in Busy /\ (wpc'[w] # "close" => wpc[w] # "close")
  PROVE  Effect
<1>1. \A g \in FDs : Undone(g)' => Undone(g) /\ table'[g] = table[g]
  BY DEF Undone
<1> QED
  BY <1>1, QuietEffect

\* What the event at the front of main's array excludes, and what a worker's
\* descriptor does.
LEMMA OthersHands ==
  ASSUME Exclusive
  PROVE  /\ 1 \in 1 .. Len(batch) =>
              /\ batch[1].fd \notin armed
              /\ \A j \in 1 .. Len(pending) : pending[j].fd # batch[1].fd
              /\ \A v \in Busy : job[v].fd # batch[1].fd
         /\ \A w \in Busy :
              /\ job[w].fd \notin armed
              /\ \A i \in 1 .. Len(batch) : batch[i].fd # job[w].fd
              /\ \A j \in 1 .. Len(pending) : pending[j].fd # job[w].fd
              /\ \A v \in Busy : job[v].fd = job[w].fd => v = w
<1>1. ASSUME 1 \in 1 .. Len(batch)
      PROVE  /\ batch[1].fd \notin armed
             /\ \A j \in 1 .. Len(pending) : pending[j].fd # batch[1].fd
             /\ \A v \in Busy : job[v].fd # batch[1].fd
  BY <1>1 DEF Exclusive
<1>2. ASSUME NEW w \in Busy
      PROVE  /\ job[w].fd \notin armed
             /\ \A i \in 1 .. Len(batch) : batch[i].fd # job[w].fd
             /\ \A j \in 1 .. Len(pending) : pending[j].fd # job[w].fd
             /\ \A v \in Busy : job[v].fd = job[w].fd => v = w
  BY DEF Exclusive
<1> QED
  BY <1>1, <1>2

\* A verdict on a request that a worker holds, after which the worker has
\* left it or goes on to close it.
LEMMA WorkerEffect ==
  ASSUME TypeOK, Shape, Current, Exclusive, NEW w \in Workers, wpc[w] \notin {"idle", "close"},
         NEW o \in Outcomes \ {"none"}, outcome' = [outcome EXCEPT ![Sock(w)] = o],
         UNCHANGED <<batch, pending, armed, table>>,
         \A v \in Busy' : v \in Busy /\ job'[v] = job[v]
                            /\ (v = w => wpc'[v] = "close") /\ (v # w => wpc'[v] = wpc[v])
  PROVE  Effect
<1>0. PICK f \in FDs : f = job[w].fd
  BY WorkerFacts
<1>1. f = job[w].fd /\ Sock(w) = table[f] /\ table[f] \in Conns /\ w \in Busy
  BY <1>0, WorkerFacts DEF Busy
<1>2. Undone(f)
  BY <1>1 DEF Undone
<1>3. ~Undone(f)'
  <2>1. /\ f \notin armed' /\ \A i \in 1 .. Len(batch') : batch'[i].fd # f
        /\ \A j \in 1 .. Len(pending') : pending'[j].fd # f
    BY <1>1, OthersHands
  <2>2. ASSUME NEW v \in Busy', job'[v].fd = f
        PROVE  wpc'[v] = "close"
    <3>1. v \in Busy /\ job[v].fd = job[w].fd
      BY <1>1, <2>2
    <3>2. v = w
      BY <1>1, <3>1, OthersHands
    <3> QED
      BY <3>2
  <2> QED
    BY <2>1, <2>2 DEF Undone
<1>4. Decides(f)
  BY <1>1, <1>2, <1>3 DEF Decides
<1>5. \A g \in FDs : Undone(g)' => Undone(g) /\ table'[g] = table[g]
  BY DEF Undone
<1> QED
  BY <1>1, <1>4, <1>5 DEF Effect

\* Every step gives at most one verdict, on a request that waits for one.
LEMMA EffectOfStep ==
  ASSUME TypeOK, Shape, Current, Exclusive, Next
  PROVE  Effect
<1>1. ASSUME NEW c \in Conns, ClientStep(c)
      PROVE  Effect
  <2>1. UNCHANGED <<outcome, batch, pending, armed, table, job, wpc>>
    BY <1>1 DEF ClientStep, Connect, Send, Leave, Reset, loop, pool, workers
  <2> QED
    BY <2>1, WithinEffect DEF Busy
<1>2. CASE DispatchListen \/ EpollWaitFails \/ Exit
  <2>1. UNCHANGED <<outcome, batch, pending, armed, table, job, wpc>>
    BY <1>2 DEF DispatchListen, EpollWaitFails, Exit, kernel, pool, workers
  <2> QED
    BY <2>1, WithinEffect DEF Busy
<1>3. CASE My_epoll_wait
  <2>1. PICK taken \in SUBSET ready :
          /\ armed' = armed \ taken
          /\ \A i \in 1 .. Len(batch') : batch'[i].fd \in taken
    BY <1>3, PollFacts
  <2>2. UNCHANGED <<table, pending, job, wpc, Busy, outcome>>
    BY <1>3 DEF My_epoll_wait, pool, workers, Busy
  <2>3. \A f \in FDs : f \in taken => f \in armed
    BY ServerAssumption DEF Current
  <2>4. \A g \in FDs : Undone(g)' => Undone(g) /\ table'[g] = table[g]
    BY <2>1, <2>2, <2>3 DEF Undone
  <2> QED
    BY <2>2, <2>4, QuietEffect
<1>4. CASE DispatchError
  <2>0. PICK f \in FDs : f = batch[1].fd
    BY <1>4, HeadFacts DEF DispatchError
  <2>1. /\ mpc = "dispatch" /\ NextEvent /\ Head(batch) = batch[1] /\ 1 \in 1 .. Len(batch)
        /\ f = batch[1].fd /\ batch[1].conn \in Conns /\ table[f] = batch[1].conn
    BY <1>4, <2>0, HeadFacts DEF DispatchError
  <2>2. /\ \A g \in FDs \ {f} : table'[g] = table[g]
        /\ armed' = armed \ {f}
        /\ outcome' = [outcome EXCEPT ![table[f]] = "error"]
        /\ UNCHANGED <<pending, job, wpc, Busy>>
    BY <1>4, <2>1 DEF DispatchError, Close, pool, workers, Busy, TypeOK
  <2>3. \A i \in 1 .. Len(batch') : batch'[i].fd # f /\ \E k \in 1 .. Len(batch) : batch'[i] = batch[k]
    BY <2>1, AdvanceFacts
  <2>4. Undone(f) /\ ~Undone(f)'
    <3>1. Undone(f)
      BY <2>1 DEF Undone
    <3>2. /\ f \notin armed' /\ \A i \in 1 .. Len(batch') : batch'[i].fd # f
          /\ \A j \in 1 .. Len(pending') : pending'[j].fd # f
          /\ \A v \in Busy' : job'[v].fd # f
      BY <2>1, <2>2, <2>3, OthersHands
    <3>3. ~Undone(f)'
      BY <3>2 DEF Undone
    <3> QED
      BY <3>1, <3>3
  <2>5. Decides(f)
    BY <2>1, <2>2, <2>4 DEF Decides, Outcomes
  <2>6. \A g \in FDs : Undone(g)' => Undone(g) /\ table'[g] = table[g]
    <3>1. ASSUME NEW g \in FDs, Undone(g)'
          PROVE  Undone(g)
      BY <2>2, <2>3, <3>1 DEF Undone
    <3>2. ASSUME NEW g \in FDs, Undone(g)'
          PROVE  table'[g] = table[g]
      <4>1. g # f
        BY <2>4, <3>2
      <4> QED
        BY <2>2, <4>1
    <3> QED
      BY <3>1, <3>2
  <2> QED
    BY <2>1, <2>5, <2>6 DEF Effect
<1>5. CASE DispatchRequest
  <2>0. PICK f \in FDs : f = batch[1].fd
    BY <1>5, SubmitFacts
  <2>1. /\ mpc = "dispatch" /\ NextEvent /\ f = batch[1].fd /\ batch[1].conn \in Conns /\ 1 \in 1 .. Len(batch)
        /\ table[f] = batch[1].conn
        /\ UNCHANGED <<armed, table, job, wpc, Busy>>
    BY <1>5, <2>0, SubmitFacts, ServerAssumption DEF Current
  <2>2. \A i \in 1 .. Len(batch') : batch'[i].fd # f /\ \E k \in 1 .. Len(batch) : batch'[i] = batch[k]
    BY <2>1, AdvanceFacts
  <2>3. CASE /\ UNCHANGED outcome
             /\ Len(pending) \in Nat /\ Len(pending') = Len(pending) + 1
             /\ pending'[1].fd = f
             /\ \A i \in 2 .. Len(pending') : i - 1 \in 1 .. Len(pending) /\ pending'[i] = pending[i - 1]
    <3>1. ASSUME NEW i \in 1 .. Len(pending')
          PROVE  pending'[i].fd = f \/ \E k \in 1 .. Len(pending) : pending'[i] = pending[k]
      <4>1. i = 1 \/ i \in 2 .. Len(pending')
        BY <2>3
      <4> QED
        BY <2>3, <4>1
    <3>2. \A g \in FDs : Undone(g)' => Undone(g) /\ table'[g] = table[g]
      BY <2>1, <2>2, <3>1 DEF Undone
    <3> QED
      BY <2>3, <3>2, QuietEffect
  <2>4. CASE UNCHANGED pending /\ outcome' = [outcome EXCEPT ![batch[1].conn] = "refused"]
    <3>1. Undone(f) /\ ~Undone(f)'
      <4>1. Undone(f)
        BY <2>1 DEF Undone
      <4>2. /\ f \notin armed' /\ \A i \in 1 .. Len(batch') : batch'[i].fd # f
            /\ \A j \in 1 .. Len(pending') : pending'[j].fd # f
            /\ \A v \in Busy' : job'[v].fd # f
        BY <2>1, <2>2, <2>4, OthersHands
      <4>3. ~Undone(f)'
        BY <4>2 DEF Undone
      <4> QED
        BY <4>1, <4>3
    <3>2. Decides(f)
      BY <2>1, <2>4, <3>1 DEF Decides, Outcomes
    <3>3. \A g \in FDs : Undone(g)' => Undone(g) /\ table'[g] = table[g]
      BY <2>1, <2>2, <2>4 DEF Undone
    <3> QED
      BY <2>1, <3>2, <3>3 DEF Effect
  <2> QED
    BY <1>5, <2>1, <2>3, <2>4, SubmitFacts
<1>6. CASE Accept
  <2>1. PICK f \in FDs : table[f] = None /\ table' = [table EXCEPT ![f] = backlog[1]] /\ armed' = armed \cup {f}
    BY <1>6, AcceptFacts
  <2>2. UNCHANGED <<batch, pending, wpc, job, Busy, outcome>> /\ Len(backlog) \in Nat \ {0}
    BY <1>6, AcceptFacts
  <2>3. \A g \in FDs \ {f} : table'[g] = table[g] /\ (Undone(g)' => Undone(g))
    BY <2>1, <2>2 DEF Undone, TypeOK
  <2>4. table'[f] = backlog[1] /\ 1 \in 1 .. Len(backlog)
    BY <2>1, <2>2 DEF TypeOK
  <2> QED
    BY <2>2, <2>3, <2>4 DEF Effect
<1>7. CASE AcceptDrained \/ AcceptFails
  <2>1. mpc = "accept" /\ NextEvent /\ UNCHANGED <<armed, table, pending, job, wpc, Busy, outcome>>
    BY <1>7 DEF AcceptDrained, AcceptFails, kernel, pool, workers, Busy
  <2>2. \A i \in 1 .. Len(batch') : \E k \in 1 .. Len(batch) : batch'[i] = batch[k]
    BY <2>1, AdvanceFacts
  <2>3. \A g \in FDs : Undone(g)' => Undone(g) /\ table'[g] = table[g]
    BY <2>1, <2>2 DEF Undone
  <2> QED
    BY <2>1, <2>3, QuietEffect
<1>8. ASSUME NEW w \in Workers, WorkerTake(w)
      PROVE  Effect
  <2>1. /\ Len(pending) \in Nat \ {0} /\ Busy' = Busy \cup {w} /\ job'[w] = pending[1]
        /\ \A i \in 1 .. Len(pending') : i + 1 \in 1 .. Len(pending) /\ pending'[i] = pending[i + 1]
        /\ \A v \in Busy' \ {w} : v \in Busy /\ wpc'[v] = wpc[v] /\ job'[v] = job[v]
        /\ UNCHANGED <<batch, armed, table, outcome>>
    BY <1>8, TakeFacts DEF Busy
  <2>2. 1 \in 1 .. Len(pending)
    BY <2>1
  <2>3. \A i \in 1 .. Len(pending') : \E k \in 1 .. Len(pending) : pending'[i] = pending[k]
    BY <2>1
  <2>4. \A g \in FDs : Undone(g)' => Undone(g) /\ table'[g] = table[g]
    BY <2>1, <2>2, <2>3 DEF Undone
  <2> QED
    BY <2>1, <2>4, QuietEffect
<1>9. ASSUME NEW w \in Workers, RejectRequest(w) \/ NotFound(w)
      PROVE  Effect
  <2>1. wpc[w] \in {"line", "clear404"} /\ Return(w) /\ UNCHANGED <<table, armed, batch, pending>>
    BY <1>9 DEF RejectRequest, NotFound, kernel, loop, pool
  <2>2. PICK o \in Outcomes \ {"none"} : outcome' = [outcome EXCEPT ![Sock(w)] = o]
    BY <1>9 DEF RejectRequest, NotFound, Outcomes
  <2>3. \A v \in Busy' : v \in Busy /\ v # w /\ job'[v] = job[v] /\ wpc'[v] = wpc[v]
    BY <2>1, ReturnFacts DEF Busy
  <2> QED
    BY <2>1, <2>2, <2>3, WorkerEffect
<1>10. ASSUME NEW w \in Workers, echo_html(w) \/ exe_cgi(w)
       PROVE  Effect
  <2>1. /\ wpc[w] \in {"page", "cgi"} /\ wpc' = [wpc EXCEPT ![w] = "close"]
        /\ UNCHANGED <<table, armed, batch, pending, job>>
    BY <1>10 DEF echo_html, exe_cgi, kernel, loop, pool
  <2>2. PICK o \in Outcomes \ {"none"} : outcome' = [outcome EXCEPT ![Sock(w)] = o]
    BY <1>10 DEF echo_html, exe_cgi, Outcomes
  <2>3. \A v \in Busy' : v \in Busy /\ job'[v] = job[v]
                           /\ (v = w => wpc'[v] = "close") /\ (v # w => wpc'[v] = wpc[v])
    BY <2>1 DEF Busy, TypeOK
  <2> QED
    BY <2>1, <2>2, <2>3, WorkerEffect
<1>11. ASSUME NEW w \in Workers, RouteRequest(w) \/ ClearHeader(w) \/ ProgramHangs(w)
       PROVE  Effect
  <2>1. /\ wpc[w] \in {"line", "clear_page", "clear_cgi", "cgi"} /\ \E p : wpc' = [wpc EXCEPT ![w] = p]
        /\ UNCHANGED <<outcome, table, armed, batch, pending, job>>
    BY <1>11 DEF RouteRequest, ClearHeader, ProgramHangs, kernel, loop, pool
  <2>2. \A v \in Busy' : v \in Busy /\ (wpc'[v] # "close" => wpc[v] # "close")
    BY <2>1 DEF Busy, TypeOK
  <2> QED
    BY <2>1, <2>2, WithinEffect
<1>12. ASSUME NEW w \in Workers, SigPipe(w)
       PROVE  Effect
  <2>1. UNCHANGED <<outcome, batch, pending, armed, table, job, wpc>>
    BY <1>12 DEF SigPipe, kernel, pool, workers
  <2> QED
    BY <2>1, WithinEffect DEF Busy
<1>13. ASSUME NEW w \in Workers, FinishRequest(w)
       PROVE  Effect
  <2>0. PICK f \in FDs : f = job[w].fd
    BY <1>13, WorkerFacts DEF FinishRequest
  <2>1. Return(w) /\ UNCHANGED <<batch, pending, outcome>> /\ w \in Busy
    BY <1>13 DEF FinishRequest, loop, pool, Busy
  <2>2. /\ armed' = armed \ {job[w].fd}
        /\ \A g \in FDs : g # job[w].fd => table'[g] = table[g]
    BY <1>13 DEF FinishRequest, CloseSock, Close, TypeOK
  <2>3. \A v \in Busy' : v \in Busy /\ v # w /\ job'[v] = job[v] /\ wpc'[v] = wpc[v]
    BY <2>1, ReturnFacts DEF Busy
  <2>4. \A g \in FDs : Undone(g)' => Undone(g)
    BY <2>1, <2>2, <2>3 DEF Undone
  <2>5. ~Undone(f)'
    <3>1. /\ f \notin armed' /\ \A i \in 1 .. Len(batch') : batch'[i].fd # f
          /\ \A j \in 1 .. Len(pending') : pending'[j].fd # f
          /\ \A v \in Busy' : job'[v].fd # f
      BY <2>0, <2>1, <2>2, <2>3, OthersHands
    <3> QED
      BY <3>1 DEF Undone
  <2>6. ASSUME NEW g \in FDs, Undone(g)'
        PROVE  table'[g] = table[g]
    <3>1. g # f
      BY <2>5, <2>6
    <3> QED
      BY <2>0, <2>2, <3>1
  <2> QED
    BY <2>1, <2>4, <2>6, QuietEffect
<1> QED
  BY <1>1, <1>2, <1>3, <1>4, <1>5, <1>6, <1>7, <1>8, <1>9, <1>10, <1>11, <1>12, <1>13
  DEF Next, MainStep, WorkerStep

\* Who has yet to decide holds an open descriptor.
LEMMA UndoneIsOpen ==
  ASSUME TypeOK, Shape, Current, NEW f \in FDs, Undone(f)
  PROVE  table[f] \in Conns
<1>1. CASE f \in armed
  BY <1>1 DEF Current, TypeOK
<1>2. ASSUME NEW i \in 1 .. Len(batch), batch[i].fd = f
      PROVE  table[f] \in Conns
  BY <1>2, ServerAssumption DEF Current
<1>3. ASSUME NEW i \in 1 .. Len(pending), pending[i].fd = f
      PROVE  table[f] \in Conns
  BY <1>3, PendingFacts DEF Current
<1>4. ASSUME NEW w \in Busy, job[w].fd = f
      PROVE  table[f] \in Conns
  BY <1>4, WorkerFacts DEF Busy
<1> QED
  BY <1>1, <1>2, <1>3, <1>4 DEF Undone

\* A connection that enters the listen queue has been away.
LEMMA QueueStep ==
  ASSUME TypeOK, Next
  PROVE  /\ \A c \in Conns : peer'[c] = "away" => peer[c] = "away"
         /\ \A i \in 1 .. Len(backlog') :
              \/ \E k \in 1 .. Len(backlog) : backlog'[i] = backlog[k]
              \/ backlog'[i] \in Conns /\ peer[backlog'[i]] = "away"
<1>1. ASSUME NEW c \in Conns, Connect(c)
      PROVE  /\ \A d \in Conns : peer'[d] = "away" => peer[d] = "away"
             /\ \A i \in 1 .. Len(backlog') :
                  \/ \E k \in 1 .. Len(backlog) : backlog'[i] = backlog[k]
                  \/ backlog'[i] \in Conns /\ peer[backlog'[i]] = "away"
  <2>1. ASSUME NEW i \in 1 .. Len(backlog')
        PROVE  i \in 1 .. Len(backlog) \/ i = Len(backlog) + 1
    BY <1>1, ConnectFacts
  <2>2. \A d \in Conns : peer'[d] = "away" => peer[d] = "away"
    BY <1>1, ConnectFacts DEF TypeOK
  <2> QED
    BY <1>1, <2>1, <2>2, ConnectFacts
<1>2. ASSUME NEW c \in Conns, Send(c) \/ Leave(c) \/ Reset(c)
      PROVE  UNCHANGED backlog /\ \A d \in Conns : peer'[d] = "away" => peer[d] = "away"
  BY <1>2 DEF Send, Leave, Reset, TypeOK
<1>3. CASE Accept
  <2>1. UNCHANGED peer /\ \A i \in 1 .. Len(backlog') : i + 1 \in 1 .. Len(backlog) /\ backlog'[i] = backlog[i + 1]
    BY <1>3, AcceptFacts
  <2> QED
    BY <2>1
<1>4. CASE \/ My_epoll_wait \/ DispatchListen \/ DispatchError \/ DispatchRequest
           \/ AcceptDrained \/ AcceptFails \/ Exit \/ EpollWaitFails
  BY <1>4 DEF My_epoll_wait, DispatchListen, DispatchError, DispatchRequest, AcceptDrained, AcceptFails,
              Exit, EpollWaitFails, client, kernel
<1>5. ASSUME NEW w \in Workers, WorkerStep(w)
      PROVE  UNCHANGED <<peer, backlog>>
  BY <1>5 DEF WorkerStep, WorkerTake, RejectRequest, RouteRequest, ClearHeader, NotFound, echo_html, exe_cgi,
              ProgramHangs, SigPipe, FinishRequest, client, kernel
<1> QED
  BY <1>1, <1>2, <1>3, <1>4, <1>5 DEF Next, ClientStep, MainStep

\* A worker gets to its close with a verdict.
LEMMA CloseStep ==
  ASSUME TypeOK, Shape, Current, Next, NEW w \in Busy', wpc'[w] = "close"
  PROVE  \/ w \in Busy /\ wpc[w] = "close" /\ job'[w] = job[w]
         \/ outcome'[job'[w].conn] # "none"
<1>1. CASE UNCHANGED <<wpc, job>>
  BY <1>1 DEF Busy
<1>2. ASSUME NEW v \in Workers, echo_html(v) \/ exe_cgi(v)
      PROVE  \/ w \in Busy /\ wpc[w] = "close" /\ job'[w] = job[w]
             \/ outcome'[job'[w].conn] # "none"
  <2>1. wpc[v] # "idle" /\ wpc' = [wpc EXCEPT ![v] = "close"] /\ UNCHANGED job
    BY <1>2 DEF echo_html, exe_cgi
  <2>2. Sock(v) \in Conns /\ Sock(v) = job[v].conn
    BY <2>1, WorkerFacts
  <2>3. outcome'[Sock(v)] # "none"
    BY <1>2, <2>2 DEF echo_html, exe_cgi, TypeOK
  <2>4. CASE w = v
    BY <2>1, <2>2, <2>3, <2>4
  <2>5. CASE w # v
    BY <2>1, <2>5 DEF Busy, TypeOK
  <2> QED
    BY <2>4, <2>5
<1>3. ASSUME NEW v \in Workers, WorkerTake(v)
      PROVE  w \in Busy /\ wpc[w] = "close" /\ job'[w] = job[w]
  <2>1. w # v /\ w \in Workers
    BY <1>3, TakeFacts DEF Busy
  <2> QED
    BY <1>3, <2>1, TakeFacts DEF Busy
<1>4. ASSUME NEW v \in Workers, RejectRequest(v) \/ NotFound(v) \/ FinishRequest(v)
      PROVE  w \in Busy /\ wpc[w] = "close" /\ job'[w] = job[w]
  <2>1. Return(v)
    BY <1>4 DEF RejectRequest, NotFound, FinishRequest
  <2> QED
    BY <2>1, ReturnFacts DEF Busy
<1>5. ASSUME NEW v \in Workers, RouteRequest(v) \/ ClearHeader(v) \/ ProgramHangs(v)
      PROVE  w \in Busy /\ wpc[w] = "close" /\ job'[w] = job[w]
  <2>1. PICK p : wpc' = [wpc EXCEPT ![v] = p] /\ p # "close"
    <3>1. \A r \in Requests : Route(r) # "close"
      BY DEF Route
    <3>2. CASE RouteRequest(v)
      BY <3>1, <3>2 DEF RouteRequest
    <3>3. CASE ClearHeader(v)
      <4> DEFINE p == IF wpc[v] = "clear_page" THEN "page" ELSE "cgi"
      <4>1. wpc' = [wpc EXCEPT ![v] = p]
        BY <3>3 DEF ClearHeader
      <4>2. p # "close"
        OBVIOUS
      <4> HIDE DEF p
      <4> QED
        BY <4>1, <4>2
    <3>4. CASE ProgramHangs(v)
      <4>1. wpc' = [wpc EXCEPT ![v] = "hung"] /\ "hung" # "close"
        BY <3>4 DEF ProgramHangs
      <4> QED
        BY <4>1
    <3> QED
      BY <1>5, <3>2, <3>3, <3>4
  <2>2. UNCHANGED job
    BY <1>5 DEF RouteRequest, ClearHeader, ProgramHangs
  <2> QED
    BY <2>1, <2>2 DEF Busy, TypeOK
<1>6. ASSUME NEW c \in Conns, ClientStep(c)
      PROVE  UNCHANGED <<wpc, job>>
  BY <1>6 DEF ClientStep, Connect, Send, Leave, Reset, workers
<1>7. CASE MainStep \/ EpollWaitFails
  BY <1>1, <1>7 DEF MainStep, EpollWaitFails, My_epoll_wait, DispatchListen, DispatchError, DispatchRequest, Accept,
                    AcceptDrained, AcceptFails, Exit, workers
<1>8. ASSUME NEW v \in Workers, SigPipe(v)
      PROVE  UNCHANGED <<wpc, job>>
  BY <1>8 DEF SigPipe, workers
<1> QED
  BY <1>1, <1>2, <1>3, <1>4, <1>5, <1>6, <1>7, <1>8 DEF Next, WorkerStep

\* A verdict is given on no other request than the one that is decided.
LEMMA VerdictFacts ==
  ASSUME TypeOK, Placed, Undecided, Effect
  PROVE  /\ \A c \in Conns : outcome[c] # "none" => outcome'[c] = outcome[c]
         /\ \A c \in Conns : outcome'[c] = outcome[c] \/ \E f \in FDs : Decides(f) /\ table[f] = c
<1>1. CASE UNCHANGED outcome
  BY <1>1
<1>2. ASSUME NEW f \in FDs, Decides(f)
      PROVE  /\ \A c \in Conns : outcome[c] # "none" => outcome'[c] = outcome[c]
             /\ \A c \in Conns : outcome'[c] = outcome[c] \/ table[f] = c
  <2>1. PICK o : outcome' = [outcome EXCEPT ![table[f]] = o]
    BY <1>2 DEF Decides
  <2>2. outcome[table[f]] = "none"
    BY <1>2 DEF Decides, Undecided
  <2>3. \A c \in Conns : c # table[f] => outcome'[c] = outcome[c]
    BY <2>1 DEF TypeOK
  <2> QED
    BY <2>2, <2>3
<1> QED
  BY <1>1, <1>2 DEF Effect

\* Nothing has a verdict too early, and what is to be closed has one.
LEMMA UndecidedStep ==
  ASSUME IInv, Undecided, Next
  PROVE  Undecided'
<1> USE DEF IInv
<1>1. Effect
  BY EffectOfStep
<1>2. /\ \A c \in Conns : outcome[c] # "none" => outcome'[c] = outcome[c]
      /\ \A c \in Conns : outcome'[c] = outcome[c] \/ \E f \in FDs : Decides(f) /\ table[f] = c
  BY <1>1, VerdictFacts
<1>3. ASSUME NEW c \in Conns, \A f \in FDs : table[f] # c, outcome[c] = "none"
      PROVE  outcome'[c] = "none"
  BY <1>2, <1>3
<1>4. ASSUME NEW c \in Conns, peer[c] = "away"
      PROVE  outcome'[c] = "none"
  <2>1. outcome[c] = "none" /\ \A f \in FDs : table[f] # c
    BY <1>4, ServerAssumption DEF Undecided, Placed
  <2> QED
    BY <1>3, <2>1
<1>5. ASSUME NEW k \in 1 .. Len(backlog)
      PROVE  outcome'[backlog[k]] = "none"
  <2>1. backlog[k] \in Conns /\ outcome[backlog[k]] = "none" /\ \A f \in FDs : table[f] # backlog[k]
    BY ElementOfSeq DEF Undecided, Placed, TypeOK
  <2> QED
    BY <1>3, <2>1
<1>6. \A c \in Conns : peer'[c] = "away" => outcome'[c] = "none"
  BY <1>4, QueueStep
<1>7. \A i \in 1 .. Len(backlog') : outcome'[backlog'[i]] = "none"
  BY <1>4, <1>5, QueueStep
<1>8. ASSUME NEW g \in FDs, Undone(g)'
      PROVE  outcome'[table'[g]] = "none"
  <2>1. CASE Undone(g) /\ table'[g] = table[g]
    <3>1. outcome[table[g]] = "none"
      BY <2>1 DEF Undecided
    <3>2. table[g] \in Conns
      BY <2>1, UndoneIsOpen
    <3>3. ASSUME NEW f \in FDs, Decides(f), table[f] = table[g]
          PROVE  FALSE
      <4>1. f # g
        BY <1>8, <3>3 DEF Decides
      <4> QED
        BY <3>2, <3>3, <4>1, ServerAssumption DEF Placed
    <3> QED
      BY <1>2, <2>1, <3>1, <3>2, <3>3
  <2>2. CASE 1 \in 1 .. Len(backlog) /\ table'[g] = backlog[1]
    BY <1>5, <2>2
  <2> QED
    BY <1>1, <1>8, <2>1, <2>2 DEF Effect
<1>9. ASSUME NEW w \in Busy', wpc'[w] = "close"
      PROVE  outcome'[job'[w].conn] # "none"
  <2>1. CASE w \in Busy /\ wpc[w] = "close" /\ job'[w] = job[w]
    <3>1. job[w].conn \in Conns /\ outcome[job[w].conn] # "none"
      BY <2>1, WorkerFacts DEF Undecided, Busy
    <3> QED
      BY <1>2, <2>1, <3>1
  <2> QED
    BY <1>9, <2>1, CloseStep
<1> QED
  BY <1>6, <1>7, <1>8, <1>9 DEF Undecided

\* No verdict has been given when main enters its loop.
LEMMA InitUndecided == Init => Undecided
<1> SUFFICES ASSUME Init
             PROVE  Undecided
  OBVIOUS
<1>1. Busy = {} /\ Len(backlog) = 0 /\ armed = {} /\ Len(batch) = 0 /\ Len(pending) = 0
  BY DEF Init, Busy
<1>2. \A f \in FDs : ~Undone(f)
  BY <1>1 DEF Undone
<1>3. \A c \in Conns : outcome[c] = "none"
  BY DEF Init
<1> QED
  BY <1>1, <1>2, <1>3 DEF Undecided

\* A step neither changes a verdict nor closes without one.
LEMMA VerdictStep ==
  ASSUME IInv, Undecided, Next
  PROVE  /\ \A c \in Conns : outcome[c] # "none" => outcome'[c] = outcome[c]
         /\ \A f \in FDs : table[f] # None /\ table'[f] # table[f] =>
              table'[f] = None /\ outcome'[table[f]] # "none"
<1> USE DEF IInv
<1>1. \A c \in Conns : outcome[c] # "none" => outcome'[c] = outcome[c]
  BY EffectOfStep, VerdictFacts
<1>2. ASSUME NEW f \in FDs, table[f] # None, table'[f] # table[f]
      PROVE  table'[f] = None /\ outcome'[table[f]] # "none"
  <2>1. CASE Accept
    <3>1. PICK g \in FDs : table[g] = None /\ table' = [table EXCEPT ![g] = backlog[1]]
      BY <2>1, AcceptFacts
    <3> QED
      BY <1>2, <3>1 DEF TypeOK
  <2>2. CASE DispatchError
    <3>1. /\ Head(batch) = batch[1] /\ batch[1].fd \in FDs /\ batch[1].conn \in Conns
          /\ table[batch[1].fd] = batch[1].conn
      BY <2>2, HeadFacts DEF DispatchError
    <3>2. table' = [table EXCEPT ![batch[1].fd] = None] /\ outcome' = [outcome EXCEPT ![batch[1].conn] = "error"]
      BY <2>2, <3>1 DEF DispatchError, Close
    <3>3. f = batch[1].fd
      BY <1>2, <3>2 DEF TypeOK
    <3> QED
      BY <3>1, <3>2, <3>3 DEF TypeOK
  <2>3. ASSUME NEW w \in Workers, FinishRequest(w)
        PROVE  table'[f] = None /\ outcome'[table[f]] # "none"
    <3>1. wpc[w] = "close" /\ table' = [table EXCEPT ![job[w].fd] = None] /\ UNCHANGED outcome
      BY <2>3 DEF FinishRequest, CloseSock, Close
    <3>2. table[job[w].fd] = job[w].conn /\ outcome[job[w].conn] # "none"
      BY <3>1, WorkerFacts DEF Undecided, Busy
    <3>3. f = job[w].fd
      BY <1>2, <3>1 DEF TypeOK
    <3> QED
      BY <3>1, <3>2, <3>3 DEF TypeOK
  <2>4. ASSUME \/ Stays \/ My_epoll_wait \/ DispatchRequest \/ AcceptDrained \/ AcceptFails
               \/ \E w \in Workers : WorkerTake(w) \/ RejectRequest(w) \/ NotFound(w)
        PROVE  UNCHANGED table
    BY <2>4 DEF Stays, My_epoll_wait, DispatchRequest, AcceptDrained, AcceptFails, WorkerTake, RejectRequest,
                NotFound, kernel
  <2> QED
    BY <1>2, <2>1, <2>2, <2>3, <2>4, Moves
<1> QED
  BY <1>1, <1>2

\* However a descriptor travels between main, the list and the workers, the
\* request behind it gets one verdict, and the descriptor is closed only
\* after it and is free before accept gives its number to another client.
THEOREM OneVerdict == Spec => VerdictThenClose
<1>1. Undecided /\ IInv /\ [Next]_vars => Undecided'
  <2>1. ASSUME Undecided, UNCHANGED vars
        PROVE  Undecided'
    <3>1. UNCHANGED <<peer, backlog, table, armed, batch, pending, wpc, job, outcome, Busy>>
      BY <2>1 DEF vars, client, kernel, loop, pool, workers, Busy
    <3> QED
      BY <2>1, <3>1 DEF Undecided, Undone
  <2> QED
    BY <2>1, UndecidedStep
<1>2. Spec => []Undecided
  BY <1>1, InitUndecided, Invariance, PTL DEF Spec
<1>3. IInv /\ Undecided /\ [Next]_vars =>
        [/\ \A c \in Conns : outcome[c] # "none" => outcome'[c] = outcome[c]
         /\ \A f \in FDs : table[f] # None /\ table'[f] # table[f] =>
              table'[f] = None /\ outcome'[table[f]] # "none"]_vars
  BY VerdictStep
<1> QED
  BY <1>2, <1>3, Invariance, PTL DEF Spec, VerdictThenClose
=============================================================================
