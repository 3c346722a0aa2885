--------------------------- MODULE HttpFetchProof ---------------------------
(***************************************************************************)
(* Proofs about HttpFetch, for every first size, margin, page length and   *)
(* width of an int.                                                        *)
(***************************************************************************)
EXTENDS HttpFetch, TLAPS

\* What the code counts with is what it has allocated, and recv is called
\* and the loop left with at least MARGIN bytes free.
Room ==
  /\ bytesread <= page
  /\ pc \in {"lookup", "socket", "connect", "send", "malloc"} => bytesread = 0 /\ answer = "none"
  /\ pc \in {"recv", "grow", "end"} => SZ = allocated /\ SZ >= START /\ answer = "none"
  /\ pc = "grow" => bytesread <= SZ
  /\ pc \in {"recv", "end"} => SZ - bytesread >= MARGIN
  /\ bytesread <= allocated

\* What the last return value of recv says of the page.
EndSeen ==
  /\ pc = "recv" => ret > 0
  /\ pc = "end" => ret <= 0
  /\ pc \in {"grow", "end"} /\ ret = 0 => bytesread = page
  /\ pc \in {"grow", "end"} /\ ret < 0 => wire = "broken"

IInv == TypeOK /\ Room /\ EndSeen /\ WholeUnlessBroken

\* The invariant holds when GetHttpResponse is called.
LEMMA InitOK == Init => IInv
BY FetchAssumption DEF Init, IInv, TypeOK, Room, EndSeen, WholeUnlessBroken

\* recv, called with room for at least one byte, stays inside it, and its 0
\* means the end of the page.
LEMMA ReceivedFits ==
  ASSUME TypeOK, Room, pc = "recv", NEW n \in -1 .. PAGE_MAX, Received(n)
  PROVE  /\ n > 0 => bytesread + n <= page /\ bytesread + n <= SZ
         /\ n = 0 => bytesread = page
         /\ n < 0 => n = -1 /\ wire = "broken"
BY FetchAssumption DEF TypeOK, Room, Received

\* A recv of any outcome keeps the invariant.
LEMMA RecvOK == IInv /\ Recv => IInv'
<1> SUFFICES ASSUME IInv, Recv PROVE IInv'
  OBVIOUS
<1> USE DEF site
<1>1. PICK n \in -1 .. PAGE_MAX :
        /\ Received(n)
        /\ ret' = n
        /\ bytesread' = IF n > 0 THEN bytesread + n ELSE bytesread
  BY DEF Recv
<1>2. /\ n > 0 => bytesread + n <= page /\ bytesread + n <= SZ
      /\ n = 0 => bytesread = page
      /\ n < 0 => n = -1 /\ wire = "broken"
  BY <1>1, ReceivedFits DEF IInv, Recv
<1>3. TypeOK'
  BY <1>1, FetchAssumption DEF IInv, TypeOK, Recv
<1>4. Room'
  BY <1>1, <1>2, FetchAssumption DEF IInv, TypeOK, Room, Recv
<1>5. EndSeen' /\ WholeUnlessBroken'
  BY <1>1, <1>2, FetchAssumption DEF IInv, TypeOK, Room, EndSeen, WholeUnlessBroken, Recv
<1> QED
  BY <1>3, <1>4, <1>5 DEF IInv

\* Doubling a buffer of at least MARGIN bytes leaves MARGIN of them free.
LEMMA GrowOK == IInv /\ Grow => IInv'
<1> SUFFICES ASSUME IInv, Grow PROVE IInv'
  OBVIOUS
<1> USE DEF site
<1>1. 2 * SZ - bytesread >= MARGIN /\ bytesread <= 2 * SZ /\ 2 * SZ >= START
  BY FetchAssumption DEF IInv, TypeOK, Room, Grow
<1>2. TypeOK' /\ Room'
  BY <1>1, FetchAssumption DEF IInv, TypeOK, Room, Grow, LoopOrEnd
<1>3. EndSeen' /\ WholeUnlessBroken'
  BY FetchAssumption DEF IInv, TypeOK, Room, EndSeen, WholeUnlessBroken, Grow, LoopOrEnd
<1> QED
  BY <1>2, <1>3 DEF IInv

\* Every step keeps the invariant.
LEMMA NextOK == IInv /\ [Next]_vars => IInv'
<1> SUFFICES ASSUME IInv, [Next]_vars PROVE IInv'
  OBVIOUS
<1> USE FetchAssumption DEF IInv, TypeOK, Room, EndSeen, WholeUnlessBroken, buffer, site
<1>1. CASE PeerCloses
  BY <1>1 DEF PeerCloses
<1>2. CASE Connects
  BY <1>2 DEF Connects, Proceed
<1>3. CASE ConnectFails
  BY <1>3 DEF ConnectFails
<1>4. CASE Malloc
  BY <1>4 DEF Malloc
<1>5. CASE Recv
  BY <1>5, RecvOK
<1>6. CASE Grow
  BY <1>6, GrowOK
<1>7. CASE Enough
  BY <1>7 DEF Enough, MustGrow, LoopOrEnd
<1>8. CASE OutOfMemory
  BY <1>8 DEF OutOfMemory
<1>9. CASE Return
  BY <1>9 DEF Return
<1>10. CASE UNCHANGED vars
  BY <1>10 DEF vars
<1> QED
  BY <1>1, <1>2, <1>3, <1>4, <1>5, <1>6, <1>7, <1>8, <1>9, <1>10 DEF Next, Fetch

\* The invariant holds in every state of GetHttpResponse.
THEOREM FetchInvariant == Spec => []IInv
BY InitOK, NextOK, PTL DEF Spec

\* The variables of GetHttpResponse keep their types.
THEOREM FetchTypeCorrect == Spec => []TypeOK
<1>1. IInv => TypeOK
  BY DEF IInv
<1> QED
  BY <1>1, FetchInvariant, PTL

\* The bytes received and the NUL behind them are written inside the memory
\* pageBuf points to.
THEOREM NulInsideBuffer == Spec => []TerminatorFits
<1>1. IInv => TerminatorFits
  BY FetchAssumption DEF IInv, TypeOK, Room, TerminatorFits
<1> QED
  BY <1>1, FetchInvariant, PTL

\* A page that is returned is whole, unless the connection broke.
THEOREM PagesAreWhole == Spec => []WholeUnlessBroken
<1>1. IInv => WholeUnlessBroken
  BY DEF IInv
<1> QED
  BY <1>1, FetchInvariant, PTL
=============================================================================
