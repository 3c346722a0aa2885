----------------------------- MODULE HttpFetch ------------------------------
(***************************************************************************)
(* GetHttpResponse of weather.cpp: one page is fetched into a buffer that  *)
(* doubles when fewer than MARGIN bytes of it are free.  The loop takes a  *)
(* recv that returns 0 for the end of the page, and a NUL is written       *)
(* behind the last byte when it is over.                                   *)
(***************************************************************************)
EXTENDS Integers

CONSTANTS
  START,      \* first size of the buffer, 4096 in the code
  MARGIN,     \* 100 in the code
  INT_MAX,    \* the largest int, 2^31 - 1 where the code runs
  PAGE_MAX    \* bound: longest page the site sends

ASSUME FetchAssumption ==
  /\ START \in Nat /\ MARGIN \in Nat /\ PAGE_MAX \in Nat
  /\ 0 < MARGIN /\ MARGIN <= START
  /\ INT_MAX \in Nat /\ START <= INT_MAX

VARIABLES
  pc,           \* "lookup", "socket", "connect", "send", "malloc", "recv", "grow", "end", "returned", "crash"
  ret,          \* the last return value
  sock,         \* "none", "open", "closed"
  SZ,           \* the size the code counts with, an int
  allocated,    \* the size of the memory behind pageBuf
  bytesread,
  page,         \* length of the page the site sends
  wire,         \* "up", "eof": all is sent and the peer has closed, "broken"
  answer        \* "none", "true", "false"

vars == <<pc, ret, sock, SZ, allocated, bytesread, page, wire, answer>>
buffer == <<SZ, allocated, bytesread>>
site == <<page, wire>>

Init ==
  /\ pc = "lookup" /\ ret = 0 /\ sock = "none"
  /\ SZ = 0 /\ allocated = 0 /\ bytesread = 0
  /\ page \in 0 .. PAGE_MAX
  /\ wire = "up"
  /\ answer = "none"

-----------------------------------------------------------------------------
(* The site *)

PeerCloses ==
  /\ wire = "up"
  /\ wire' \in {"eof", "broken"}
  /\ UNCHANGED <<pc, ret, sock, buffer, page, answer>>

-----------------------------------------------------------------------------
(* GetHttpResponse *)

Proceed ==
  \/ pc = "lookup" /\ pc' = "socket" /\ UNCHANGED sock
  \/ pc = "socket" /\ pc' = "connect" /\ sock' = "open"
  \/ pc = "connect" /\ pc' = "send" /\ UNCHANGED sock
  \/ pc = "send" /\ pc' = "malloc" /\ UNCHANGED sock

\* gethostbyname, socket, connect or send succeeds.
Connects ==
  /\ Proceed
  /\ UNCHANGED <<ret, buffer, site, answer>>

\* One of them fails; pageBuf is left alone.
ConnectFails ==
  /\ pc \in {"lookup", "socket", "connect", "send"}
  /\ pc' = "returned" /\ answer' = "false"
  /\ sock' = IF sock = "open" THEN "closed" ELSE sock
  /\ UNCHANGED <<ret, buffer, site>>

Malloc ==
  /\ pc = "malloc"
  /\ pc' = "recv" /\ ret' = 1
  /\ SZ' = START /\ allocated' = START /\ bytesread' = 0
  /\ UNCHANGED <<sock, site, answer>>

\* recv copies what has come, up to the room that is left; with no room it
\* returns 0 at once.
Received(n) ==
  \/ n \in 1 .. page - bytesread /\ n <= SZ - bytesread
  \/ n = 0 /\ (SZ = bytesread \/ (wire = "eof" /\ bytesread = page))
  \/ n = -1 /\ wire = "broken"

Recv ==
  /\ pc = "recv"
  /\ \E n \in -1 .. PAGE_MAX :
       /\ Received(n)
       /\ ret' = n
       /\ bytesread' = IF n > 0 THEN bytesread + n ELSE bytesread
  /\ pc' = "grow"
  /\ UNCHANGED <<sock, SZ, allocated, site, answer>>

\* Mutant: the buffer grows only when it is full, and a byte too late.
MustGrow_WhenOver == SZ - bytesread < 0
MustGrow == SZ - bytesread < MARGIN

LoopOrEnd == IF ret > 0 THEN "recv" ELSE "end"

\* Mutant: the size is doubled in the call of realloc only.
Grow_NotCounted ==
  /\ pc = "grow" /\ MustGrow /\ 2 * SZ <= INT_MAX
  /\ allocated' = 2 * SZ
  /\ pc' = LoopOrEnd
  /\ UNCHANGED <<ret, sock, SZ, bytesread, site, answer>>
Grow ==
  /\ pc = "grow" /\ MustGrow /\ 2 * SZ <= INT_MAX
  /\ SZ' = 2 * SZ /\ allocated' = 2 * SZ
  /\ pc' = LoopOrEnd
  /\ UNCHANGED <<ret, sock, bytesread, site, answer>>

Enough ==
  /\ pc = "grow" /\ ~MustGrow
  /\ pc' = LoopOrEnd
  /\ UNCHANGED <<ret, sock, buffer, site, answer>>

\* malloc or realloc returns NULL, and memset, or the NUL after a recv that
\* failed, is written through it.  It always does when the doubled size is
\* no int any more: the size has wrapped, and as a size_t it is beyond
\* anything realloc gives.
OutOfMemory ==
  /\ pc = "malloc" \/ (pc = "grow" /\ MustGrow)
  /\ pc' = "crash"
  /\ UNCHANGED <<ret, sock, buffer, site, answer>>

\* Mutant: close is forgotten.
Return_Open ==
  /\ pc = "end"
  /\ pc' = "returned" /\ answer' = "true"
  /\ UNCHANGED <<ret, sock, buffer, site>>
\* The NUL, close, and true, whatever ended the loop.
Return ==
  /\ pc = "end"
  /\ pc' = "returned" /\ answer' = "true" /\ sock' = "closed"
  /\ UNCHANGED <<ret, buffer, site>>

Fetch == Connects \/ ConnectFails \/ Malloc \/ Recv \/ Grow \/ Enough \/ OutOfMemory \/ Return

Next == PeerCloses \/ Fetch

Spec == Init /\ [][Next]_vars

\* The crawler is scheduled; the site owes nothing.
FairSpec == Spec /\ WF_vars(Fetch)

-----------------------------------------------------------------------------
(* Properties *)

TypeOK ==
  /\ pc \in {"lookup", "socket", "connect", "send", "malloc", "recv", "grow", "end", "returned", "crash"}
  /\ ret \in Int /\ ret >= -1
  /\ sock \in {"none", "open", "closed"}
  /\ SZ \in 0 .. INT_MAX /\ allocated \in Nat /\ bytesread \in Nat
  /\ page \in 0 .. PAGE_MAX
  /\ wire \in {"up", "eof", "broken"}
  /\ answer \in {"none", "true", "false"}

\* The NUL, and before it every byte received, is written inside the memory
\* that pageBuf points to, however long the page is and however it is
\* divided, unless the program has come to its end for want of memory or
\* because the size is no int any more (a page of 2^30 bytes, less MARGIN).
TerminatorFits ==
  /\ pc \in {"recv", "end"} => bytesread < allocated
  /\ bytesread <= allocated

\* recv is never called without room, where its 0 would be taken for the end
\* of the page: a page is cut short only if the connection broke.  The caller
\* is told true in that case as well.
WholeUnlessBroken ==
  answer = "true" => bytesread = page \/ wire = "broken"

\* The call returns with its socket closed if the peer closes the connection
\* some day; there is no timeout, and nothing else ends the loop.
Returns == <>(wire # "up") => <>(pc = "crash" \/ (pc = "returned" /\ sock # "open"))
=============================================================================
