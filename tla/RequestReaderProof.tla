------------------------- MODULE RequestReaderProof -------------------------
(***************************************************************************)
(* Proofs about RequestReader for every text, of any length, every way of  *)
(* its arrival and every size of the line buffer.                          *)
(*                                                                         *)
(* What has been read is related to the text character by character        *)
(* (Placed), which needs that the ranks leave no gap (Onto), that a CR is  *)
(* pending while get_line peeks behind it, and that a LF left behind by    *)
(* its CR has been late (Split).  The cuts are related to what has been    *)
(* read (Cut, Line, Blanks) as long as nothing was late and no line too    *)
(* long; a last line without an end can only be the end of the text.       *)
(***************************************************************************)
EXTENDS RequestReader, SequenceTheorems, FiniteSetTheorems, TLAPS

-----------------------------------------------------------------------------
(* Lists *)

\* Appending (recv into buf).
LEMMA AppendFacts ==
  ASSUME NEW S, NEW q \in Seq(S), NEW t \in S
  PROVE  /\ Append(q, t) \in Seq(S)
         /\ Append(q, t) # << >>
         /\ Len(q) \in Nat
         /\ Len(Append(q, t)) = Len(q) + 1
         /\ Append(q, t)[Len(q) + 1] = t
         /\ \A i \in 1 .. Len(q) : Append(q, t)[i] = q[i]
<1>1. Len(q) \in Nat
  BY LenProperties
<1> QED
  BY <1>1, AppendProperties

\* A queue is empty exactly when it has no position.
LEMMA EmptyFacts ==
  ASSUME NEW S, NEW q \in Seq(S)
  PROVE  Len(q) \in Nat /\ (q = << >> <=> Len(q) = 0)
  BY EmptySeq, LenProperties

-----------------------------------------------------------------------------
(* The invariant *)

Late == gap \/ full

\* Room for one more character, and for the NUL.
Room == pc \in {"recv", "peek"} => Len(buf) < MAX_LEN - 1

Onto == \A p \in 1 .. Rank(text, pos) : \E i \in 1 .. pos : ~AfterCR(text, i) /\ Rank(text, i) = p

Placed ==
  /\ pc = "peek" => pos > 0 /\ text[pos] = CR /\ Len(Seen) + 1 = Rank(text, pos) + extra
  /\ pc # "peek" => Len(Seen) = Rank(text, pos) + extra
  /\ extra = 0 => \A i \in 1 .. pos : ~AfterCR(text, i) /\ Rank(text, i) <= Len(Seen) => Seen[Rank(text, i)] = AsRead(text, i)

Split ==
  /\ extra > 0 => gap
  /\ pc # "peek" /\ ToCome /\ AfterCR(text, pos + 1) => gap

NoLF(s, n) == \A i \in 1 .. n : s[i] # LF

\* The line that is being read, or has been read and not yet returned.
Line ==
  /\ pc \in {"recv", "peek"} => NoLF(buf, Len(buf))
  /\ pc = "return" => \/ buf # << >> /\ buf[Len(buf)] = LF /\ NoLF(buf, Len(buf) - 1)
                      \/ ~ToCome /\ NoLF(buf, Len(buf))
  /\ pc = "done" => buf = << >>

Unfinished == out # << >> /\ out[Len(out)] # LF

Cut ==
  /\ Unfinished => ~ToCome /\ buf = << >> /\ pc \in {"recv", "return"}
  /\ ~Unfinished => ends = {p \in 1 .. Len(out) : out[p] = LF}

BlankIn(s, p) == s[p] = LF /\ (p > 1 => s[p - 1] = LF)

Blanks ==
  /\ pc # "done" => \A p \in 1 .. Len(out) : ~BlankIn(out, p)
  /\ pc = "done" => /\ out # << >>
                    /\ \A p \in 1 .. Len(out) : BlankIn(out, p) <=> p = Len(out)

IInv ==
  /\ TypeOK /\ Room /\ Onto /\ Placed /\ Split
  /\ ~Late => Line /\ Cut /\ Blanks

-----------------------------------------------------------------------------
(* Ranks *)

\* The next character has the next rank, unless it is the LF of a CR LF.
LEMMA RankNext ==
  ASSUME NEW t, NEW i \in Nat
  PROVE  /\ Rank(t, i) \in Nat
         /\ Rank(t, i + 1) = IF AfterCR(t, i + 1) THEN Rank(t, i) ELSE Rank(t, i) + 1
<1> DEFINE S(n) == {j \in 1 .. n : ~AfterCR(t, j)}
<1>1. IsFiniteSet(S(i))
  <2>1. IsFiniteSet(1 .. i) /\ S(i) \in SUBSET (1 .. i)
    BY FS_Interval
  <2> QED
    BY <2>1, FS_Subset
<1>2. Cardinality(S(i)) \in Nat
  BY <1>1, FS_CardinalityType
<1>3. CASE AfterCR(t, i + 1)
  <2>1. S(i + 1) = S(i)
    BY <1>3
  <2> QED
    BY <1>2, <1>3, <2>1 DEF Rank
<1>4. CASE ~AfterCR(t, i + 1)
  <2>1. S(i + 1) = S(i) \cup {i + 1} /\ i + 1 \notin S(i)
    BY <1>4
  <2>2. Cardinality(S(i) \cup {i + 1}) = Cardinality(S(i)) + 1
    BY <1>1, <2>1, FS_AddElement
  <2> QED
    BY <1>2, <1>4, <2>1, <2>2 DEF Rank
<1> QED
  BY <1>3, <1>4, <1>2 DEF Rank

\* Before the first character nothing has a rank.
LEMMA RankZero == \A t : Rank(t, 0) = 0
<1> TAKE t
<1>1. {j \in 1 .. 0 : ~AfterCR(t, j)} = {}
  OBVIOUS
<1> QED
  BY <1>1, FS_EmptySet DEF Rank

\* Ranks grow with the position, from 1.
LEMMA RankGrows ==
  ASSUME NEW t, NEW i \in Nat, NEW j \in Nat, i <= j
  PROVE  Rank(t, i) \in Nat /\ Rank(t, j) \in Nat /\ Rank(t, i) <= Rank(t, j) /\ (1 <= i => 1 <= Rank(t, i))
<1> DEFINE S(n) == {k \in 1 .. n : ~AfterCR(t, k)}
<1>1. ASSUME NEW n \in Nat
      PROVE  IsFiniteSet(S(n)) /\ Cardinality(S(n)) \in Nat
  <2>1. IsFiniteSet(1 .. n) /\ S(n) \in SUBSET (1 .. n)
    BY FS_Interval
  <2>2. IsFiniteSet(S(n))
    BY <2>1, FS_Subset
  <2> QED
    BY <2>2, FS_CardinalityType
<1>2. S(i) \in SUBSET S(j)
  OBVIOUS
<1>3. Cardinality(S(i)) <= Cardinality(S(j))
  BY <1>1, <1>2, FS_Subset
<1>4. ASSUME 1 <= i
      PROVE  1 <= Cardinality(S(i))
  <2>1. 1 \in S(i)
    BY <1>4 DEF AfterCR
  <2>2. S(i) # {}
    BY <2>1
  <2>3. Cardinality(S(i)) # 0
    BY <1>1, <2>2, FS_EmptySet
  <2> QED
    BY <1>1, <2>3
<1> QED
  BY <1>1, <1>3, <1>4 DEF Rank

-----------------------------------------------------------------------------
(* What the actions do *)

\* Types in the form the other lemmas need.
LEMMA TypeFacts ==
  ASSUME TypeOK
  PROVE  /\ pos \in Nat /\ arrived \in Nat /\ extra \in Nat /\ Len(text) \in Nat /\ pos <= arrived /\ arrived <= Len(text)
         /\ \A i \in 1 .. Len(text) : text[i] \in {"a", CR, LF}
         /\ buf \in Seq({"a", LF}) /\ Len(buf) \in Nat /\ (buf = << >> <=> Len(buf) = 0)
         /\ out \in Seq({"a", LF}) /\ Len(out) \in Nat /\ (out = << >> <=> Len(out) = 0)
<1>1. text \in Seq({"a", CR, LF}) /\ buf \in Seq({"a", LF}) /\ out \in Seq({"a", LF})
  BY ReaderAssumption DEF TypeOK
<1>2. /\ Len(text) \in Nat /\ Len(buf) \in Nat /\ Len(out) \in Nat
      /\ (buf = << >> <=> Len(buf) = 0) /\ (out = << >> <=> Len(out) = 0)
  BY <1>1, EmptyFacts
<1>3. \A i \in 1 .. Len(text) : text[i] \in {"a", CR, LF}
  BY <1>1, ElementOfSeq
<1>4. pos \in Nat /\ arrived \in Nat /\ extra \in Nat /\ pos <= arrived /\ arrived <= Len(text)
  BY <1>2 DEF TypeOK
<1> QED
  BY <1>1, <1>2, <1>3, <1>4

\* Positions of a text followed by another.
LEMMA ConcatFacts ==
  ASSUME NEW S, NEW a \in Seq(S), NEW b \in Seq(S)
  PROVE  /\ a \o b \in Seq(S) /\ Len(a) \in Nat /\ Len(b) \in Nat /\ Len(a \o b) = Len(a) + Len(b)
         /\ \A i \in 1 .. Len(a) : (a \o b)[i] = a[i]
         /\ \A i \in 1 .. Len(b) : (a \o b)[Len(a) + i] = b[i]
<1>1. Len(a) \in Nat /\ Len(b) \in Nat /\ a \o b \in Seq(S) /\ Len(a \o b) = Len(a) + Len(b)
  BY LenProperties, ConcatProperties
<1>2. \A i \in 1 .. Len(a) + Len(b) : (a \o b)[i] = IF i <= Len(a) THEN a[i] ELSE b[i - Len(a)]
  BY <1>1, ConcatProperties
<1>3. ASSUME NEW i \in 1 .. Len(b)
      PROVE  (a \o b)[Len(a) + i] = b[i]
  <2>1. Len(a) + i \in 1 .. Len(a) + Len(b) /\ ~(Len(a) + i <= Len(a)) /\ (Len(a) + i) - Len(a) = i
    BY <1>1
  <2> QED
    BY <1>2, <2>1
<1>4. ASSUME NEW i \in 1 .. Len(a)
      PROVE  (a \o b)[i] = a[i]
  BY <1>1, <1>2
<1> QED
  BY <1>1, <1>3, <1>4

\* What Store does to the line, and to all that has been read.
LEMMA StoreFacts ==
  ASSUME TypeOK, NEW ch \in {"a", LF}, Len(buf) < MAX_LEN - 1, Store(ch), UNCHANGED out
  PROVE  /\ buf' \in Seq({"a", LF}) /\ buf' # << >> /\ Len(buf') = Len(buf) + 1
         /\ buf'[Len(buf) + 1] = ch /\ \A i \in 1 .. Len(buf) : buf'[i] = buf[i]
         /\ Len(Seen) \in Nat /\ Len(Seen') = Len(Seen) + 1
         /\ Seen'[Len(Seen) + 1] = ch /\ \A i \in 1 .. Len(Seen) : Seen'[i] = Seen[i]
         /\ pc' \in {"recv", "return"} /\ Len(buf') <= MAX_LEN - 1
         /\ pc' = "recv" => ch # LF /\ Len(buf') < MAX_LEN - 1
         /\ full' \in BOOLEAN /\ (~full' => ~full /\ (pc' = "return" => ch = LF))
<1>1. /\ buf \in Seq({"a", LF}) /\ Len(buf) \in Nat /\ out \in Seq({"a", LF}) /\ Len(out) \in Nat
      /\ MAX_LEN \in Nat /\ full \in BOOLEAN
  BY TypeFacts, ReaderAssumption DEF TypeOK
<1>2. buf' = Append(buf, ch)
  BY DEF Store
<1>3. /\ buf' \in Seq({"a", LF}) /\ buf' # << >> /\ Len(buf') = Len(buf) + 1
      /\ buf'[Len(buf) + 1] = ch /\ \A i \in 1 .. Len(buf) : buf'[i] = buf[i]
  BY <1>1, <1>2, AppendFacts
<1>4. /\ pc' \in {"recv", "return"} /\ Len(buf') <= MAX_LEN - 1
      /\ pc' = "recv" => ch # LF /\ Len(buf') < MAX_LEN - 1
  BY <1>1, <1>3 DEF Store
<1>5. full' \in BOOLEAN /\ (~full' => ~full /\ (pc' = "return" => ch = LF))
  BY DEF Store, LF
<1>6. /\ Len(out \o buf) = Len(out) + Len(buf)
      /\ \A i \in 1 .. Len(out) : (out \o buf)[i] = out[i]
      /\ \A i \in 1 .. Len(buf) : (out \o buf)[Len(out) + i] = buf[i]
  BY <1>1, ConcatFacts
<1>7. /\ Len(out \o buf') = Len(out) + Len(buf')
      /\ \A i \in 1 .. Len(out) : (out \o buf')[i] = out[i]
      /\ \A i \in 1 .. Len(buf') : (out \o buf')[Len(out) + i] = buf'[i]
  <2>1. buf' \in Seq({"a", LF}) /\ out \in Seq({"a", LF})
    BY <1>1, <1>3
  <2> QED
    BY <2>1, ConcatFacts
<1>8. Len(Seen) \in Nat /\ Len(Seen') = Len(Seen) + 1
  BY <1>1, <1>3, <1>6, <1>7 DEF Seen
<1>9. Seen'[Len(Seen) + 1] = ch
  <2>1. Len(Seen) + 1 = Len(out) + (Len(buf) + 1) /\ Len(buf) + 1 \in 1 .. Len(buf')
    BY <1>1, <1>3, <1>6 DEF Seen
  <2>2. (out \o buf')[Len(out) + (Len(buf) + 1)] = ch
    BY <1>3, <1>7, <2>1
  <2> QED
    BY <2>1, <2>2 DEF Seen
<1>10. ASSUME NEW i \in 1 .. Len(Seen)
       PROVE  Seen'[i] = Seen[i]
  <2>1. CASE i \in 1 .. Len(out)
    BY <1>6, <1>7, <2>1 DEF Seen
  <2>2. CASE i \notin 1 .. Len(out)
    <3>1. i - Len(out) \in 1 .. Len(buf) /\ i = Len(out) + (i - Len(out))
      BY <1>1, <1>6, <2>2 DEF Seen
    <3>2. i - Len(out) \in 1 .. Len(buf')
      BY <1>1, <1>3, <3>1
    <3>3. (out \o buf)[i] = buf[i - Len(out)] /\ (out \o buf')[i] = buf'[i - Len(out)]
      BY <1>6, <1>7, <3>1, <3>2
    <3> QED
      BY <1>3, <3>1, <3>3 DEF Seen
  <2> QED
    BY <2>1, <2>2
<1> QED
  BY <1>3, <1>4, <1>5, <1>8, <1>9, <1>10

\* What get_line's return does: the line is put behind the others.
LEMMA ReturnFacts ==
  ASSUME TypeOK, get_line
  PROVE  /\ pc = "return" /\ pc' = IF buf = Blank THEN "done" ELSE "recv"
         /\ buf' = << >> /\ Len(buf') = 0 /\ UNCHANGED <<text, arrived, pos, gap, extra, full>>
         /\ out' \in Seq({"a", LF}) /\ Len(out') = Len(out) + Len(buf)
         /\ \A i \in 1 .. Len(out) : out'[i] = out[i]
         /\ \A i \in 1 .. Len(buf) : out'[Len(out) + i] = buf[i]
         /\ ends' = IF buf = << >> THEN ends ELSE ends \cup {Len(out) + Len(buf)}
         /\ buf = << >> => out' = out
         /\ Seen' = Seen
<1>1. buf \in Seq({"a", LF}) /\ out \in Seq({"a", LF})
  BY TypeFacts
<1>2. out' = out \o buf /\ buf' = << >>
  BY DEF get_line
<1>3. /\ out' \in Seq({"a", LF}) /\ Len(out') = Len(out) + Len(buf)
      /\ \A i \in 1 .. Len(out) : out'[i] = out[i]
      /\ \A i \in 1 .. Len(buf) : out'[Len(out) + i] = buf[i]
  BY <1>1, <1>2, ConcatFacts
<1>4. out' \o buf' = out'
  <2>1. out' \in Seq({"a", LF})
    BY <1>3
  <2> QED
    BY <1>2, <2>1, ConcatEmptySeq
<1>5. Seen' = Seen
  BY <1>2, <1>4 DEF Seen
<1>6. buf = << >> => out' = out
  BY <1>1, <1>2, ConcatEmptySeq
<1> QED
  BY <1>2, <1>3, <1>5, <1>6 DEF get_line, HeaderEnds

-----------------------------------------------------------------------------
(* Each part of the invariant *)

\* The types are kept, and buf is never overrun.
LEMMA TypeStep ==
  ASSUME TypeOK, Room, Next
  PROVE  TypeOK' /\ Room'
<1>0. /\ pos \in Nat /\ arrived \in Nat /\ extra \in Nat /\ Len(text) \in Nat /\ pos <= arrived /\ arrived <= Len(text)
      /\ \A i \in 1 .. Len(text) : text[i] \in {"a", CR, LF}
      /\ MAX_LEN \in Nat /\ MAX_LEN > 1
  BY TypeFacts, ReaderAssumption
<1>1. CASE Arrive
  <2>1. PICK n \in arrived + 1 .. Len(text) : arrived' = n
    BY <1>1 DEF Arrive
  <2>2. arrived' \in 0 .. Len(text) /\ pos \in 0 .. arrived'
    BY <1>0, <2>1
  <2> QED
    BY <1>1, <2>2 DEF Arrive, TypeOK, Room
<1>2. CASE Recv
  <2>1. /\ pc = "recv" /\ pos < arrived /\ pos' = pos + 1 /\ extra' \in {extra, extra + 1}
        /\ UNCHANGED <<text, arrived, out, ends, gap>>
    BY <1>2 DEF Recv, There
  <2>2. pos' \in 0 .. arrived /\ extra' \in 0 .. pos' /\ pos + 1 \in 1 .. Len(text)
    BY <1>0, <2>1 DEF TypeOK
  <2>3. CASE text[pos + 1] = CR
    BY <1>2, <2>1, <2>2, <2>3 DEF Recv, TypeOK, Room
  <2>4. CASE text[pos + 1] # CR
    <3>1. Store(text[pos + 1]) /\ text[pos + 1] \in {"a", LF} /\ Len(buf) < MAX_LEN - 1
      BY <1>0, <1>2, <2>1, <2>2, <2>4 DEF Recv, Room
    <3>2. /\ buf' \in Seq({"a", LF}) /\ pc' \in {"recv", "return"} /\ Len(buf') <= MAX_LEN - 1
          /\ (pc' = "recv" => Len(buf') < MAX_LEN - 1) /\ full' \in BOOLEAN
      BY <2>1, <3>1, StoreFacts
    <3> QED
      BY <2>1, <2>2, <3>2 DEF TypeOK, Room
  <2> QED
    BY <2>3, <2>4
<1>3. CASE RecvNothing
  BY <1>3 DEF RecvNothing, TypeOK, Room
<1>4. CASE PeekLF \/ PeekOther
  <2>1. /\ pc = "peek" /\ Store(LF) /\ pos' \in {pos, pos + 1} /\ (pos' = pos + 1 => pos < arrived)
        /\ UNCHANGED <<text, arrived, out, ends, extra>>
    BY <1>0, <1>4 DEF PeekLF, PeekOther, There
  <2>a. gap' \in BOOLEAN
    <3>1. gap' = gap \/ gap' = (gap \/ (ToCome /\ ~There))
      BY <1>4 DEF PeekLF, PeekOther
    <3>2. gap \in BOOLEAN
      BY DEF TypeOK
    <3> QED
      BY <3>1, <3>2
  <2>2. LF \in {"a", LF} /\ Len(buf) < MAX_LEN - 1
    BY <2>1 DEF Room
  <2>3. /\ buf' \in Seq({"a", LF}) /\ pc' \in {"recv", "return"} /\ Len(buf') <= MAX_LEN - 1
        /\ (pc' = "recv" => Len(buf') < MAX_LEN - 1) /\ full' \in BOOLEAN
    BY <2>1, <2>2, StoreFacts
  <2>4. pos' \in 0 .. arrived /\ extra \in 0 .. pos'
    BY <1>0, <2>1 DEF TypeOK
  <2> QED
    BY <2>1, <2>a, <2>3, <2>4 DEF TypeOK, Room
<1>5. CASE get_line
  <2>1. /\ pc' \in {"recv", "done"} /\ buf' = << >> /\ Len(buf') = 0 /\ out' \in Seq({"a", LF})
        /\ Len(out') = Len(out) + Len(buf) /\ UNCHANGED <<text, arrived, pos, gap, extra, full>>
    BY <1>5, ReturnFacts
  <2>2. ends' \subseteq 1 .. Len(out')
    <3>1. ends' = IF buf = << >> THEN ends ELSE ends \cup {Len(out) + Len(buf)}
      BY <1>5, ReturnFacts
    <3>2. Len(out) \in Nat /\ Len(buf) \in Nat /\ (buf = << >> <=> Len(buf) = 0) /\ ends \subseteq 1 .. Len(out)
      BY TypeFacts DEF TypeOK
    <3>3. ends \subseteq 1 .. Len(out')
      BY <2>1, <3>2
    <3>4. CASE buf = << >>
      BY <3>1, <3>3, <3>4
    <3>5. CASE buf # << >>
      <4>1. Len(out) + Len(buf) \in 1 .. Len(out')
        BY <2>1, <3>2, <3>5
      <4> QED
        BY <3>1, <3>3, <3>5, <4>1
    <3> QED
      BY <3>4, <3>5
  <2>3. buf' \in Seq({"a", LF}) /\ Len(buf') < MAX_LEN - 1
    BY <1>0, <2>1
  <2> QED
    BY <1>0, <2>1, <2>2, <2>3 DEF TypeOK, Room
<1> QED
  BY <1>1, <1>2, <1>3, <1>4, <1>5 DEF Next, Read

\* The ranks of what has been read leave no gap.
LEMMA OntoStep ==
  ASSUME TypeOK, Onto, Next
  PROVE  Onto'
<1>0. pos \in Nat
  BY TypeFacts
<1>1. UNCHANGED text /\ pos' \in {pos, pos + 1}
  BY DEF Next, Read, Arrive, Recv, RecvNothing, PeekLF, PeekOther, get_line
<1>2. CASE pos' = pos
  BY <1>1, <1>2 DEF Onto
<1>3. CASE pos' = pos + 1
  <2>1. /\ Rank(text, pos) \in Nat
        /\ Rank(text, pos + 1) = IF AfterCR(text, pos + 1) THEN Rank(text, pos) ELSE Rank(text, pos) + 1
    BY <1>0, RankNext
  <2>2. ASSUME NEW p \in 1 .. Rank(text, pos + 1)
        PROVE  \E i \in 1 .. pos + 1 : ~AfterCR(text, i) /\ Rank(text, i) = p
    <3>1. CASE p \in 1 .. Rank(text, pos)
      <4>1. PICK i \in 1 .. pos : ~AfterCR(text, i) /\ Rank(text, i) = p
        BY <3>1 DEF Onto
      <4>2. i \in 1 .. pos + 1
        BY <1>0
      <4> QED
        BY <4>1, <4>2
    <3>2. CASE p \notin 1 .. Rank(text, pos)
      <4>1. ~AfterCR(text, pos + 1) /\ Rank(text, pos + 1) = p
        BY <2>1, <3>2
      <4>2. pos + 1 \in 1 .. pos + 1
        BY <1>0
      <4> QED
        BY <4>1, <4>2
    <3> QED
      BY <3>1, <3>2
  <2> QED
    BY <1>1, <1>3, <2>2 DEF Onto
<1> QED
  BY <1>1, <1>2, <1>3

\* A LF whose CR has been read without it was late.
LEMMA SplitStep ==
  ASSUME TypeOK, Split, Next
  PROVE  Split'
<1>0. pos \in Nat /\ arrived \in Nat /\ extra \in Nat /\ Len(text) \in Nat /\ pos <= arrived /\ arrived <= Len(text)
  BY TypeFacts
<1> USE DEF Split, ToCome, There
<1>1. CASE Arrive
  BY <1>1 DEF Arrive
<1>2. CASE Recv
  <2>1. /\ pc = "recv" /\ pos < arrived /\ pos' = pos + 1 /\ UNCHANGED <<text, gap>>
        /\ extra' = IF AfterCR(text, pos + 1) THEN extra + 1 ELSE extra
    BY <1>2 DEF Recv
  <2>2. extra' > 0 => gap
    BY <1>0, <2>1
  <2>3. pc' # "peek" => text[pos + 1] # CR
    BY <1>2 DEF Recv
  <2>4. AfterCR(text, pos' + 1) => text[pos + 1] = CR
    BY <1>0, <2>1 DEF AfterCR
  <2> QED
    BY <2>1, <2>2, <2>3, <2>4
<1>3. CASE RecvNothing
  BY <1>3 DEF RecvNothing
<1>4. CASE PeekLF
  <2>1. text[pos + 1] = LF /\ pos' = pos + 1 /\ UNCHANGED <<text, gap, extra>>
    BY <1>4 DEF PeekLF
  <2>2. ~AfterCR(text, pos' + 1)
    BY <1>0, <2>1 DEF AfterCR, LF, CR
  <2> QED
    BY <2>1, <2>2
<1>5. CASE PeekOther
  <2>1. /\ ~(pos < arrived /\ text[pos + 1] = LF) /\ gap' = (gap \/ (pos < Len(text) /\ ~(pos < arrived)))
        /\ UNCHANGED <<text, pos, extra>>
    BY <1>5 DEF PeekOther
  <2>2. pos < Len(text) /\ AfterCR(text, pos + 1) => gap'
    BY <2>1 DEF AfterCR
  <2> QED
    BY <2>1, <2>2
<1>6. CASE get_line
  BY <1>6 DEF get_line
<1> QED
  BY <1>1, <1>2, <1>3, <1>4, <1>5, <1>6 DEF Next, Read

\* One more character has been stored: the one at position k of the text,
\* whose rank comes next.
LEMMA PlaceOne ==
  ASSUME TypeOK, NEW ch, NEW k \in Nat, NEW n \in Nat, k <= n,
         Len(Seen) \in Nat, Len(Seen') = Len(Seen) + 1, Seen'[Len(Seen) + 1] = ch,
         \A i \in 1 .. Len(Seen) : Seen'[i] = Seen[i],
         \A i \in 1 .. k - 1 : ~AfterCR(text, i) /\ Rank(text, i) <= Len(Seen) => Seen[Rank(text, i)] = AsRead(text, i),
         1 <= k, ~AfterCR(text, k), Rank(text, k) = Len(Seen) + 1, ch = AsRead(text, k),
         \A i \in k + 1 .. n : AfterCR(text, i)
  PROVE  \A i \in 1 .. n : ~AfterCR(text, i) /\ Rank(text, i) <= Len(Seen') => Seen'[Rank(text, i)] = AsRead(text, i)
<1> SUFFICES ASSUME NEW i \in 1 .. n, ~AfterCR(text, i), Rank(text, i) <= Len(Seen')
             PROVE  Seen'[Rank(text, i)] = AsRead(text, i)
  OBVIOUS
<1>1. CASE i = k
  BY <1>1
<1>2. CASE i < k
  <2>1. k - 1 \in Nat /\ k = (k - 1) + 1 /\ i <= k - 1 /\ i \in 1 .. k - 1 /\ i \in Nat /\ 1 <= i
    BY <1>2
  <2>2. /\ Rank(text, i) \in Nat /\ Rank(text, k - 1) \in Nat
        /\ 1 <= Rank(text, i) /\ Rank(text, i) <= Rank(text, k - 1)
    BY <2>1, RankGrows
  <2>3. Rank(text, k) = Rank(text, k - 1) + 1
    BY <2>1, RankNext
  <2>4. Rank(text, i) \in 1 .. Len(Seen) /\ Rank(text, i) <= Len(Seen)
    BY <2>2, <2>3
  <2> QED
    BY <2>1, <2>4
<1>3. CASE i > k
  BY <1>3
<1> QED
  BY <1>1, <1>2, <1>3

\* Every character stored stands at its rank.
LEMMA PlacedStep ==
  ASSUME TypeOK, Room, Placed, Split, Next
  PROVE  Placed'
<1>0. /\ pos \in Nat /\ arrived \in Nat /\ extra \in Nat /\ Len(text) \in Nat /\ pos <= arrived /\ arrived <= Len(text)
      /\ \A i \in 1 .. Len(text) : text[i] \in {"a", CR, LF}
  BY TypeFacts
<1>a. Len(Seen) \in Nat
  <2>1. buf \in Seq({"a", LF}) /\ out \in Seq({"a", LF})
    BY TypeFacts
  <2> QED
    BY <2>1, ConcatFacts DEF Seen
<1>b. /\ Rank(text, pos) \in Nat
      /\ Rank(text, pos + 1) = IF AfterCR(text, pos + 1) THEN Rank(text, pos) ELSE Rank(text, pos) + 1
  BY <1>0, RankNext
<1>1. CASE Arrive \/ RecvNothing
  <2>1. UNCHANGED <<text, pos, Seen, extra>> /\ (pc' = "peek" <=> pc = "peek")
    BY <1>1 DEF Arrive, RecvNothing, Seen
  <2> QED
    BY <2>1 DEF Placed
<1>2. CASE Recv
  <2>1. /\ pc = "recv" /\ pos < arrived /\ pos' = pos + 1 /\ UNCHANGED <<text, arrived, out>>
        /\ extra' = IF AfterCR(text, pos + 1) THEN extra + 1 ELSE extra
    BY <1>2 DEF Recv, There
  <2>2. Len(Seen) = Rank(text, pos) + extra
    BY <2>1 DEF Placed
  <2>3. extra = 0 => \A i \in 1 .. pos : ~AfterCR(text, i) /\ Rank(text, i) <= Len(Seen)
                                       => Seen[Rank(text, i)] = AsRead(text, i)
    BY DEF Placed
  <2>4. pos + 1 \in 1 .. Len(text) /\ pos + 1 \in Nat
    BY <1>0, <2>1
  <2>5. CASE text[pos + 1] = CR
    <3>1. pc' = "peek" /\ Seen' = Seen
      BY <1>2, <2>1, <2>5 DEF Recv, Seen
    <3>2. ~AfterCR(text, pos + 1) /\ extra' = extra
      BY <2>1, <2>5 DEF AfterCR, CR, LF
    <3>3. Len(Seen) + 1 = Rank(text, pos + 1) + extra
      BY <1>0, <1>a, <1>b, <2>2, <3>2
    <3>4. ASSUME extra = 0, NEW i \in 1 .. pos + 1, ~AfterCR(text, i), Rank(text, i) <= Len(Seen)
          PROVE  Seen[Rank(text, i)] = AsRead(text, i)
      <4>1. i # pos + 1
        BY <1>0, <1>a, <1>b, <3>3, <3>4
      <4>2. i \in 1 .. pos
        BY <1>0, <4>1
      <4> QED
        BY <2>3, <3>4, <4>2
    <3> QED
      BY <1>0, <2>1, <2>5, <3>1, <3>2, <3>3, <3>4 DEF Placed
  <2>6. CASE text[pos + 1] # CR
    <3>1. Store(text[pos + 1]) /\ text[pos + 1] \in {"a", LF} /\ Len(buf) < MAX_LEN - 1
      BY <1>0, <1>2, <2>1, <2>4, <2>6 DEF Recv, Room
    <3>2. /\ Len(Seen') = Len(Seen) + 1 /\ Seen'[Len(Seen) + 1] = text[pos + 1]
          /\ \A i \in 1 .. Len(Seen) : Seen'[i] = Seen[i]
          /\ pc' # "peek"
      BY <2>1, <3>1, StoreFacts
    <3>3. Len(Seen') = Rank(text, pos + 1) + extra'
      BY <1>0, <1>a, <1>b, <2>1, <2>2, <3>2
    <3>4. ASSUME extra' = 0
          PROVE  \A i \in 1 .. pos + 1 : ~AfterCR(text, i) /\ Rank(text, i) <= Len(Seen')
                                         => Seen'[Rank(text, i)] = AsRead(text, i)
      <4>1. ~AfterCR(text, pos + 1) /\ extra = 0
        BY <1>0, <2>1, <3>4
      <4>2. Rank(text, pos + 1) = Len(Seen) + 1 /\ text[pos + 1] = AsRead(text, pos + 1)
        BY <1>b, <2>2, <2>6, <4>1 DEF AsRead
      <4>3. (pos + 1) - 1 = pos /\ pos + 1 <= pos + 1 /\ 1 <= pos + 1
        BY <1>0
      <4>4. \A i \in (pos + 1) + 1 .. pos + 1 : AfterCR(text, i)
        BY <1>0
      <4>5. \A i \in 1 .. (pos + 1) - 1 : ~AfterCR(text, i) /\ Rank(text, i) <= Len(Seen)
                                         => Seen[Rank(text, i)] = AsRead(text, i)
        BY <2>3, <4>1, <4>3
      <4> QED
        BY <1>a, <2>4, <3>2, <4>1, <4>2, <4>3, <4>4, <4>5, PlaceOne
    <3> QED
      BY <2>1, <3>2, <3>3, <3>4 DEF Placed
  <2> QED
    BY <2>5, <2>6
<1>3. CASE PeekLF \/ PeekOther
  <2>1. /\ pc = "peek" /\ Store(LF) /\ UNCHANGED <<text, out, extra>>
        /\ \/ pos' = pos
           \/ pos' = pos + 1 /\ text[pos + 1] = LF
    BY <1>3 DEF PeekLF, PeekOther
  <2>2. pos > 0 /\ text[pos] = CR /\ Len(Seen) + 1 = Rank(text, pos) + extra
    BY <2>1 DEF Placed
  <2>3. LF \in {"a", LF} /\ Len(buf) < MAX_LEN - 1
    BY <2>1 DEF Room
  <2>4. /\ Len(Seen') = Len(Seen) + 1 /\ Seen'[Len(Seen) + 1] = LF
        /\ \A i \in 1 .. Len(Seen) : Seen'[i] = Seen[i]
        /\ pc' # "peek"
    BY <2>1, <2>3, StoreFacts
  <2>5. ~AfterCR(text, pos) /\ LF = AsRead(text, pos)
    BY <2>2 DEF AfterCR, AsRead, CR, LF
  <2>6. pos' = pos + 1 => AfterCR(text, pos + 1)
    BY <1>0, <2>1, <2>2 DEF AfterCR
  <2>7. Rank(text, pos') = Rank(text, pos)
    BY <1>b, <2>1, <2>6
  <2>8. ASSUME extra = 0
        PROVE  \A i \in 1 .. pos' : ~AfterCR(text, i) /\ Rank(text, i) <= Len(Seen')
                                     => Seen'[Rank(text, i)] = AsRead(text, i)
    <3>1. pos' \in Nat /\ pos <= pos' /\ 1 <= pos
      BY <1>0, <2>1, <2>2
    <3>2. \A i \in pos + 1 .. pos' : AfterCR(text, i)
      BY <1>0, <2>1, <2>6
    <3>3. \A i \in 1 .. pos - 1 : ~AfterCR(text, i) /\ Rank(text, i) <= Len(Seen)
                                   => Seen[Rank(text, i)] = AsRead(text, i)
      <4>1. \A i \in 1 .. pos - 1 : i \in 1 .. pos
        BY <1>0
      <4> QED
        BY <2>8, <4>1 DEF Placed
    <3>4. Rank(text, pos) = Len(Seen) + 1
      BY <1>b, <2>2, <2>8
    <3> QED
      BY <1>0, <1>a, <2>4, <2>5, <3>1, <3>2, <3>3, <3>4, PlaceOne
  <2> QED
    BY <2>1, <2>2, <2>4, <2>7, <2>8 DEF Placed
<1>4. CASE get_line
  <2>1. UNCHANGED <<text, pos, extra>> /\ Seen' = Seen /\ pc # "peek" /\ pc' # "peek"
    BY <1>4, ReturnFacts
  <2> QED
    BY <2>1 DEF Placed
<1> QED
  BY <1>1, <1>2, <1>3, <1>4 DEF Next, Read

\* A place in what has been returned is one of before, or one of the new line.
LEMMA ReturnedPlaces ==
  ASSUME TypeOK, get_line, NEW p \in 1 .. Len(out')
  PROVE  \/ p \in 1 .. Len(out) /\ out'[p] = out[p]
         \/ /\ p - Len(out) \in 1 .. Len(buf) /\ p \notin 1 .. Len(out)
            /\ out'[p] = buf[p - Len(out)]
<1>1. /\ Len(out') = Len(out) + Len(buf) /\ Len(out) \in Nat /\ Len(buf) \in Nat
      /\ \A i \in 1 .. Len(out) : out'[i] = out[i]
      /\ \A i \in 1 .. Len(buf) : out'[Len(out) + i] = buf[i]
  BY ReturnFacts, TypeFacts
<1>2. CASE p \in 1 .. Len(out)
  BY <1>1, <1>2
<1>3. CASE p \notin 1 .. Len(out)
  <2>1. p - Len(out) \in 1 .. Len(buf) /\ p = Len(out) + (p - Len(out))
    BY <1>1, <1>3
  <2> QED
    BY <1>1, <1>3, <2>1
<1> QED
  BY <1>2, <1>3

\* A returned line adds its own line end to the cuts, and a blank line only
\* as the last one.
LEMMA ReturnStep ==
  ASSUME TypeOK, Line, Cut, Blanks, get_line
  PROVE  Line' /\ Cut' /\ Blanks'
<1>0. /\ Len(buf) \in Nat /\ (buf = << >> <=> Len(buf) = 0) /\ buf \in Seq({"a", LF})
      /\ Len(out) \in Nat /\ (out = << >> <=> Len(out) = 0)
  BY TypeFacts
<1>1. /\ pc = "return" /\ pc' = IF buf = Blank THEN "done" ELSE "recv"
      /\ buf' = << >> /\ Len(buf') = 0 /\ UNCHANGED <<text, pos>>
      /\ out' \in Seq({"a", LF}) /\ Len(out') = Len(out) + Len(buf)
      /\ buf = << >> => out' = out
  BY ReturnFacts
<1>2. \A i \in 1 .. Len(buf) : out'[Len(out) + i] = buf[i]
  BY ReturnFacts
<1>3. ends' = IF buf = << >> THEN ends ELSE ends \cup {Len(out')}
  BY <1>1, ReturnFacts
<1>a. out' = << >> <=> Len(out') = 0
  BY <1>1, EmptyFacts
<1>4. Line'
  BY <1>1 DEF Line, NoLF
<1>5. CASE buf = << >>
  <2>1. pc' = "recv" /\ out' = out /\ ends' = ends
    BY <1>0, <1>1, <1>3, <1>5 DEF Blank
  <2> QED
    BY <1>1, <1>4, <2>1 DEF Cut, Blanks, Unfinished, BlankIn, ToCome
<1>6. CASE buf # << >> /\ buf[Len(buf)] = LF /\ NoLF(buf, Len(buf) - 1)
  <2>1. ~Unfinished
    BY <1>6 DEF Cut
  <2>2. ends = {p \in 1 .. Len(out) : out[p] = LF}
    BY <2>1 DEF Cut
  <2>3. Len(buf) \in 1 .. Len(buf) /\ Len(out') \in 1 .. Len(out')
    BY <1>0, <1>1, <1>6
  <2>4. out'[Len(out')] = LF
    BY <1>1, <1>2, <1>6, <2>3
  <2>5. ASSUME NEW p \in 1 .. Len(out')
        PROVE  out'[p] = LF <=> (p \in 1 .. Len(out) /\ out[p] = LF) \/ p = Len(out')
    <3>1. CASE p \in 1 .. Len(out) /\ out'[p] = out[p]
      BY <1>0, <1>1, <1>6, <3>1
    <3>2. CASE /\ p - Len(out) \in 1 .. Len(buf) /\ p \notin 1 .. Len(out)
               /\ out'[p] = buf[p - Len(out)]
      <4>1. CASE p = Len(out')
        BY <2>4, <4>1
      <4>2. CASE p # Len(out')
        <5>1. p - Len(out) \in 1 .. Len(buf) - 1
          BY <1>0, <1>1, <3>2, <4>2
        <5> QED
          BY <1>6, <3>2, <4>2, <5>1 DEF NoLF
      <4> QED
        BY <4>1, <4>2
    <3> QED
      BY <3>1, <3>2, ReturnedPlaces
  <2>6. ends' = {p \in 1 .. Len(out') : out'[p] = LF}
    <3>1. ends' = ends \cup {Len(out')}
      BY <1>3, <1>6
    <3>2. 1 .. Len(out) \subseteq 1 .. Len(out')
      BY <1>0, <1>1
    <3> QED
      BY <2>2, <2>3, <2>5, <3>1, <3>2
  <2>7. Cut'
    BY <2>4, <2>6 DEF Cut, Unfinished
  <2>8. pc # "done" /\ \A p \in 1 .. Len(out) : ~BlankIn(out, p)
    BY <1>1 DEF Blanks
  <2>9. ASSUME NEW p \in 1 .. Len(out)
        PROVE  ~BlankIn(out', p) /\ p # Len(out')
    <3>1. p # Len(out')
      BY <1>0, <1>1, <1>6
    <3>2. out'[p] = out[p]
      BY ReturnFacts
    <3>3. p > 1 => out'[p - 1] = out[p - 1]
      <4>1. p > 1 => p - 1 \in 1 .. Len(out)
        BY <1>0
      <4> QED
        BY <4>1, ReturnFacts
    <3> QED
      BY <2>8, <3>1, <3>2, <3>3 DEF BlankIn
  <2>10. CASE buf = Blank
    <3>1. Len(buf) = 1 /\ Len(out') = Len(out) + 1
      BY <1>1, <2>10 DEF Blank
    <3>2. BlankIn(out', Len(out'))
      <4>1. Len(out') > 1 => out'[Len(out') - 1] = LF
        <5>1. CASE Len(out) = 0
          BY <3>1, <5>1
        <5>2. CASE Len(out) # 0
          <6>1. Len(out) \in 1 .. Len(out) /\ Len(out') - 1 = Len(out)
            BY <1>0, <3>1, <5>2
          <6>2. out[Len(out)] = LF
            BY <1>0, <2>1, <5>2 DEF Unfinished
          <6> QED
            BY <6>1, <6>2, ReturnFacts
        <5> QED
          BY <5>1, <5>2
      <4> QED
        BY <2>4, <4>1 DEF BlankIn
    <3>3. ASSUME NEW p \in 1 .. Len(out')
          PROVE  BlankIn(out', p) <=> p = Len(out')
      <4>1. CASE p = Len(out')
        BY <3>2, <4>1
      <4>2. CASE p \in 1 .. Len(out)
        BY <2>9, <4>2
      <4> QED
        BY <1>0, <3>1, <4>1, <4>2
    <3>4. out' # << >> /\ pc' = "done"
      BY <1>0, <1>1, <1>a, <2>10, <3>1
    <3> QED
      BY <1>4, <2>7, <3>3, <3>4 DEF Blanks
  <2>11. CASE buf # Blank
    <3>1. Len(buf) >= 2
      <4>1. CASE Len(buf) = 1
        <5>1. buf = <<buf[1]>>
          BY <1>0, <4>1
        <5> QED
          BY <1>6, <2>11, <4>1, <5>1 DEF Blank
      <4>2. Len(buf) \in Nat /\ Len(buf) # 0
        BY <1>0, <1>6
      <4>3. CASE Len(buf) # 1
        <5>1. \A n \in Nat : n = 0 \/ n = 1 \/ n >= 2
          OBVIOUS
        <5> QED
          BY <4>2, <4>3, <5>1
      <4> QED
        BY <4>1, <4>3
    <3>2. ASSUME NEW p \in 1 .. Len(out'), p \notin 1 .. Len(out)
          PROVE  ~BlankIn(out', p)
      <4>1. CASE p # Len(out')
        BY <2>5, <3>2, <4>1 DEF BlankIn
      <4>2. CASE p = Len(out')
        <5>1. p > 1 /\ Len(buf) - 1 \in 1 .. Len(buf) /\ p - 1 = Len(out) + (Len(buf) - 1)
              /\ Len(buf) - 1 \in 1 .. Len(buf) - 1
          BY <1>0, <1>1, <3>1, <4>2
        <5>2. out'[p - 1] = buf[Len(buf) - 1] /\ buf[Len(buf) - 1] # LF
          BY <1>2, <1>6, <5>1 DEF NoLF
        <5> QED
          BY <5>1, <5>2 DEF BlankIn
      <4> QED
        BY <4>1, <4>2
    <3>3. pc' = "recv"
      BY <1>1, <2>11
    <3>4. \A p \in 1 .. Len(out') : ~BlankIn(out', p)
      BY <2>9, <3>2
    <3> QED
      BY <1>4, <2>7, <3>3, <3>4 DEF Blanks
  <2> QED
    BY <2>10, <2>11
<1>7. CASE buf # << >> /\ ~ToCome /\ NoLF(buf, Len(buf))
  <2>1. pc' = "recv" /\ ~ToCome'
    <3>1. buf # Blank
      BY <1>0, <1>7 DEF NoLF, Blank
    <3> QED
      BY <1>1, <1>7, <3>1 DEF ToCome
  <2>2. ASSUME NEW p \in 1 .. Len(out'), p \notin 1 .. Len(out)
        PROVE  out'[p] # LF
    <3>1. p - Len(out) \in 1 .. Len(buf) /\ out'[p] = buf[p - Len(out)]
      BY <2>2, ReturnedPlaces
    <3> QED
      BY <1>7, <3>1 DEF NoLF
  <2>3. Unfinished'
    <3>1. Len(out') \in 1 .. Len(out') /\ Len(out') \notin 1 .. Len(out)
      BY <1>0, <1>1, <1>7
    <3> QED
      BY <1>a, <2>2, <3>1 DEF Unfinished
  <2>4. ASSUME NEW p \in 1 .. Len(out)
        PROVE  ~BlankIn(out', p)
    <3>1. ~BlankIn(out, p)
      BY <1>1 DEF Blanks
    <3>2. out'[p] = out[p]
      BY ReturnFacts
    <3>3. p > 1 => out'[p - 1] = out[p - 1]
      <4>1. p > 1 => p - 1 \in 1 .. Len(out)
        BY <1>0
      <4> QED
        BY <4>1, ReturnFacts
    <3> QED
      BY <3>1, <3>2, <3>3 DEF BlankIn
  <2>5. \A p \in 1 .. Len(out') : ~BlankIn(out', p)
    BY <2>2, <2>4 DEF BlankIn
  <2> QED
    BY <1>1, <1>4, <2>1, <2>3, <2>5 DEF Cut, Blanks
<1> QED
  BY <1>1, <1>5, <1>6, <1>7 DEF Line

\* A character stored while nothing is late goes on with the line, or ends it.
LEMMA LineStep ==
  ASSUME TypeOK, Room, Line, Cut, Blanks, pc \in {"recv", "peek"}, ~Unfinished, NEW ch \in {"a", LF}, Store(ch),
         UNCHANGED <<text, out, ends>>, ~full'
  PROVE  Line' /\ Cut' /\ Blanks'
<1>0. Len(buf) \in Nat /\ Len(buf) < MAX_LEN - 1 /\ NoLF(buf, Len(buf))
  BY TypeFacts DEF Room, Line
<1>1. /\ buf' # << >> /\ Len(buf') = Len(buf) + 1 /\ buf'[Len(buf) + 1] = ch
      /\ \A i \in 1 .. Len(buf) : buf'[i] = buf[i]
      /\ pc' \in {"recv", "return"} /\ (pc' = "recv" => ch # LF) /\ (pc' = "return" => ch = LF)
  BY <1>0, StoreFacts
<1>2. NoLF(buf', Len(buf))
  BY <1>0, <1>1 DEF NoLF
<1>3. CASE pc' = "recv"
  <2>1. ASSUME NEW i \in 1 .. Len(buf')
        PROVE  buf'[i] # LF
    <3>1. CASE i = Len(buf) + 1
      BY <1>1, <1>3, <3>1
    <3>2. CASE i \in 1 .. Len(buf)
      BY <1>2, <3>2 DEF NoLF
    <3> QED
      BY <1>0, <1>1, <3>1, <3>2
  <2> QED
    BY <1>3, <2>1 DEF Line, NoLF, Cut, Blanks, Unfinished, BlankIn
<1>4. CASE pc' = "return"
  <2>1. buf'[Len(buf')] = LF /\ Len(buf') - 1 = Len(buf)
    BY <1>0, <1>1, <1>4
  <2>2. NoLF(buf', Len(buf') - 1)
    BY <1>2, <2>1
  <2>3. Line'
    BY <1>1, <1>4, <2>1, <2>2 DEF Line, NoLF
  <2> QED
    BY <1>4, <2>3 DEF Cut, Blanks, Unfinished, BlankIn
<1> QED
  BY <1>1, <1>3, <1>4

\* As long as nothing is late and no line too long, the cuts are line ends.
LEMMA LinesStep ==
  ASSUME TypeOK, Room, ~Late => Line /\ Cut /\ Blanks, Next, ~Late'
  PROVE  Line' /\ Cut' /\ Blanks'
<1>0. pos \in Nat /\ arrived \in Nat /\ Len(text) \in Nat /\ pos <= arrived /\ arrived <= Len(text)
      /\ \A i \in 1 .. Len(text) : text[i] \in {"a", CR, LF}
  BY TypeFacts
<1>1. ~gap' /\ ~full' /\ ~gap /\ ~full
  <2>1. ~gap' /\ ~full'
    BY DEF Late
  <2>2. (gap => gap') /\ (full => full')
    <3>1. full /\ Next => full'
      BY DEF Next, Read, Arrive, Recv, RecvNothing, PeekLF, PeekOther, get_line, Store
    <3>2. gap /\ Next => gap'
      BY DEF Next, Read, Arrive, Recv, RecvNothing, PeekLF, PeekOther, get_line
    <3> QED
      BY <3>1, <3>2
  <2> QED
    BY <2>1, <2>2
<1>2. Line /\ Cut /\ Blanks
  BY <1>1 DEF Late
<1>3. CASE Arrive
  BY <1>2, <1>3 DEF Arrive, Line, Cut, Blanks, Unfinished, BlankIn, NoLF, ToCome
<1>4. CASE Recv
  <2>1. /\ pc = "recv" /\ pos < arrived /\ UNCHANGED <<text, out, ends>>
    BY <1>4 DEF Recv, There
  <2>2. ~Unfinished
    BY <1>0, <1>2, <2>1 DEF Cut, ToCome
  <2>3. CASE text[pos + 1] = CR
    <3>1. pc' = "peek" /\ UNCHANGED buf
      BY <1>4, <2>3 DEF Recv
    <3> QED
      BY <1>2, <2>1, <2>2, <3>1 DEF Line, Cut, Blanks, Unfinished, BlankIn, NoLF
  <2>4. CASE text[pos + 1] # CR
    <3>1. pos + 1 \in 1 .. Len(text)
      BY <1>0, <2>1
    <3>2. text[pos + 1] \in {"a", LF} /\ Store(text[pos + 1])
      BY <1>0, <1>4, <2>4, <3>1 DEF Recv
    <3> QED
      BY <1>1, <1>2, <2>1, <2>2, <3>2, LineStep
  <2> QED
    BY <2>3, <2>4
<1>5. CASE RecvNothing
  <2>1. pc = "recv" /\ pc' = "return" /\ UNCHANGED <<text, pos, buf, out, ends>> /\ ~ToCome
    BY <1>1, <1>5 DEF RecvNothing
  <2> QED
    BY <1>2, <2>1 DEF Line, Cut, Blanks, Unfinished, BlankIn, NoLF, ToCome
<1>6. CASE PeekLF \/ PeekOther
  <2>1. pc = "peek" /\ Store(LF) /\ UNCHANGED <<text, out, ends>> /\ LF \in {"a", LF}
    BY <1>6 DEF PeekLF, PeekOther
  <2>2. ~Unfinished
    BY <1>2, <2>1 DEF Cut
  <2> QED
    BY <1>1, <1>2, <2>1, <2>2, LineStep
<1>7. CASE get_line
  BY <1>2, <1>7, ReturnStep
<1> QED
  BY <1>3, <1>4, <1>5, <1>6, <1>7 DEF Next, Read

-----------------------------------------------------------------------------
(* The parts together *)

\* It holds before anything has arrived.
LEMMA InitIInv == Init => IInv
<1> SUFFICES ASSUME Init
             PROVE  IInv
  OBVIOUS
<1>1. TypeOK /\ Room
  <2>1. Len(text) \in Nat
    BY ReaderAssumption, LenProperties DEF Init
  <2> QED
    <3>1. text \in Texts /\ arrived \in 0 .. Len(text) /\ pos \in 0 .. arrived /\ extra \in 0 .. pos
      BY <2>1 DEF Init
    <3>2. buf \in Seq({"a", LF}) /\ out \in Seq({"a", LF}) /\ Len(buf) = 0
      BY DEF Init
    <3>3. 0 < MAX_LEN - 1 /\ 0 <= MAX_LEN - 1
      BY ReaderAssumption
    <3> QED
      BY <3>1, <3>2, <3>3 DEF Init, TypeOK, Room
<1>2. Rank(text, pos) = 0 /\ Len(Seen) = 0
  BY RankZero DEF Init, Seen
<1>3. Onto /\ Placed
  BY <1>2 DEF Init, Onto, Placed
<1>4. Split
  BY DEF Init, Split, AfterCR
<1>5. Line /\ Cut /\ Blanks
  BY DEF Init, Line, Cut, Blanks, Unfinished, NoLF
<1> QED
  BY <1>1, <1>3, <1>4, <1>5 DEF IInv

\* Every step keeps it.
LEMMA NextIInv == IInv /\ [Next]_vars => IInv'
<1> SUFFICES ASSUME IInv, [Next]_vars
             PROVE  IInv'
  OBVIOUS
<1>1. CASE Next
  <2>1. TypeOK' /\ Room' /\ Onto' /\ Placed' /\ Split'
    BY <1>1, TypeStep, OntoStep, PlacedStep, SplitStep DEF IInv
  <2>2. ~Late' => Line' /\ Cut' /\ Blanks'
    BY <1>1, LinesStep DEF IInv
  <2> QED
    BY <2>1, <2>2 DEF IInv
<1>2. CASE UNCHANGED vars
  <2>1. TypeOK' /\ Room' /\ Onto' /\ Placed' /\ Split'
    BY <1>2 DEF vars, IInv, TypeOK, Room, Onto, Placed, Split, Seen, ToCome
  <2>2. ~Late' => Line' /\ Cut' /\ Blanks'
    BY <1>2 DEF vars, IInv, Late, Line, Cut, Blanks, Unfinished, BlankIn, NoLF, ToCome
  <2> QED
    BY <2>1, <2>2 DEF IInv
<1> QED
  BY <1>1, <1>2

\* The inductive invariant holds throughout.
LEMMA Invariance == Spec => []IInv
  BY InitIInv, NextIInv, PTL DEF Spec

-----------------------------------------------------------------------------
(* The theorems *)

\* get_line stays within the text that has arrived and within its buffer, for
\* every text and every max_len.
THEOREM ReaderTypeCorrect == Spec => []TypeOK
  BY Invariance, PTL DEF IInv

\* get_line loses and adds nothing, however a text arrives, but for a CR LF
\* whose halves come apart.
THEOREM NothingIsLost == Spec => []NothingLost
<1>1. IInv => NothingLost
  <2> SUFFICES ASSUME IInv, pc # "peek"
               PROVE  /\ Len(Seen) = Rank(text, pos) + extra
                      /\ extra = 0 => \A i \in 1 .. pos : ~AfterCR(text, i) => Seen[Rank(text, i)] = AsRead(text, i)
                      /\ extra > 0 => gap
    BY DEF NothingLost
  <2>1. Len(Seen) = Rank(text, pos) + extra /\ (extra > 0 => gap) /\ pos \in Nat
    BY TypeFacts DEF IInv, Placed, Split
  <2>2. ASSUME extra = 0, NEW i \in 1 .. pos, ~AfterCR(text, i)
        PROVE  Seen[Rank(text, i)] = AsRead(text, i)
    <3>1. i \in Nat /\ i <= pos
      BY <2>1
    <3>2. Rank(text, i) <= Rank(text, pos) /\ Rank(text, pos) \in Nat
      BY <2>1, <3>1, RankGrows
    <3>3. Rank(text, i) <= Len(Seen)
      BY <2>1, <2>2, <3>2
    <3> QED
      BY <2>2, <3>3 DEF IInv, Placed
  <2> QED
    BY <2>1, <2>2
<1> QED
  BY <1>1, Invariance, PTL

\* The blank lines of the text are those of what get_line returned.
LEMMA BlankPlaces ==
  ASSUME TypeOK, Onto, extra = 0, Len(out) = Rank(text, pos),
         \A i \in 1 .. pos : ~AfterCR(text, i) => out[Rank(text, i)] = AsRead(text, i),
         NEW i \in 1 .. pos, ~AfterCR(text, i)
  PROVE  Rank(text, i) \in 1 .. Len(out) /\ (BlankAt(text, i) <=> BlankIn(out, Rank(text, i)))
<1>0. pos \in Nat /\ i \in Nat /\ 1 <= i /\ i <= pos
  BY TypeFacts
<1>1. Rank(text, i) \in 1 .. Len(out)
  <2>1. Rank(text, i) \in Nat /\ Rank(text, pos) \in Nat /\ Rank(text, i) <= Rank(text, pos) /\ 1 <= Rank(text, i)
    BY <1>0, RankGrows
  <2> QED
    BY <2>1
<1>2. out[Rank(text, i)] = AsRead(text, i)
  OBVIOUS
<1>3. CASE i = 1
  <2>1. Rank(text, 0) = 0
    BY RankZero
  <2>2. Rank(text, 0 + 1) = IF AfterCR(text, 0 + 1) THEN Rank(text, 0) ELSE Rank(text, 0) + 1
    BY RankNext
  <2>3. Rank(text, i) = 1
    BY <1>3, <2>1, <2>2
  <2> QED
    BY <1>1, <1>2, <1>3, <2>3 DEF BlankAt, LineEnd, BlankIn
<1>4. CASE i > 1
  <2>1. i - 1 \in Nat /\ i = (i - 1) + 1 /\ 1 <= i - 1 /\ i - 1 \in 1 .. pos /\ i - 1 <= pos
    BY <1>0, <1>4
  <2>2. Rank(text, i) = Rank(text, i - 1) + 1 /\ Rank(text, i - 1) \in Nat
    BY <2>1, RankNext
  <2>3. 1 <= Rank(text, i - 1)
    BY <1>0, <2>1, RankGrows
  <2>4. Rank(text, i) > 1 /\ Rank(text, i) - 1 = Rank(text, i - 1)
    BY <2>2, <2>3
  <2>5. out[Rank(text, i - 1)] = AsRead(text, i - 1)
    <3>1. CASE ~AfterCR(text, i - 1)
      BY <2>1, <3>1
    <3>2. CASE AfterCR(text, i - 1)
      <4>1. /\ i - 2 \in Nat /\ 1 <= i - 2 /\ i - 2 \in 1 .. pos /\ i - 1 = (i - 2) + 1
            /\ text[i - 2] = CR /\ text[i - 1] = LF /\ ~AfterCR(text, i - 2)
        <5>1. i - 1 > 1 /\ text[(i - 1) - 1] = CR /\ text[i - 1] = LF /\ (i - 1) - 1 = i - 2
          BY <1>0, <3>2 DEF AfterCR
        <5>2. ~AfterCR(text, i - 2)
          BY <5>1 DEF AfterCR, CR, LF
        <5> QED
          BY <1>0, <5>1, <5>2
      <4>2. Rank(text, i - 1) = Rank(text, i - 2)
        BY <3>2, <4>1, RankNext
      <4>3. out[Rank(text, i - 2)] = AsRead(text, i - 2)
        BY <4>1
      <4> QED
        BY <4>1, <4>2, <4>3 DEF AsRead, CR, LF
    <3> QED
      BY <3>1, <3>2
  <2> QED
    BY <1>1, <1>2, <1>4, <2>4, <2>5 DEF BlankAt, LineEnd, BlankIn
<1> QED
  BY <1>0, <1>3, <1>4

\* A text that is there in time is cut into its own lines, and clear_header
\* stops behind the first blank one.
THEOREM LinesAreTheTexts == Spec => []LinesMatch
<1>1. IInv => LinesMatch
  <2> SUFFICES ASSUME IInv, ~gap, ~full, pc = "done"
               PROVE  /\ ends = {Rank(text, i) : i \in {j \in 1 .. pos : LineEnd(text, j)}}
                      /\ {Rank(text, i) : i \in {j \in 1 .. pos : BlankAt(text, j)}} = {Len(out)}
    BY DEF LinesMatch
  <2>1. TypeOK /\ Onto /\ Placed /\ Split /\ Line /\ Cut /\ Blanks
    BY DEF IInv, Late
  <2>2. pos \in Nat /\ extra \in Nat /\ out \in Seq({"a", LF}) /\ Len(out) \in Nat
    BY <2>1, TypeFacts
  <2>3. extra = 0 /\ Seen = out
    <3>1. extra = 0
      BY <2>1, <2>2 DEF Split
    <3>2. buf = << >>
      BY <2>1 DEF Line
    <3> QED
      BY <2>2, <3>1, <3>2, ConcatEmptySeq DEF Seen
  <2>4. Len(out) = Rank(text, pos)
    <3>1. Len(Seen) = Rank(text, pos) + extra /\ Rank(text, pos) \in Nat
      BY <2>1, <2>2, RankNext DEF Placed
    <3> QED
      BY <2>3, <3>1
  <2>5. ASSUME NEW i \in 1 .. pos, ~AfterCR(text, i)
        PROVE  out[Rank(text, i)] = AsRead(text, i)
    <3>1. i \in Nat /\ i <= pos
      BY <2>2
    <3>2. Rank(text, i) <= Rank(text, pos)
      BY <2>2, <3>1, RankGrows
    <3> QED
      BY <2>1, <2>3, <2>4, <2>5, <3>2 DEF Placed
  <2>6. \A i \in 1 .. pos : ~AfterCR(text, i) =>
          Rank(text, i) \in 1 .. Len(out) /\ (BlankAt(text, i) <=> BlankIn(out, Rank(text, i)))
    BY <2>1, <2>3, <2>4, <2>5, BlankPlaces
  <2>7. \A p \in 1 .. Len(out) : \E i \in 1 .. pos : ~AfterCR(text, i) /\ Rank(text, i) = p
    BY <2>1, <2>4 DEF Onto
  <2>8. ends = {p \in 1 .. Len(out) : out[p] = LF}
    BY <2>1 DEF Cut
  <2>9. \A i \in 1 .. pos : LineEnd(text, i) <=> ~AfterCR(text, i) /\ out[Rank(text, i)] = LF
    BY <2>5 DEF LineEnd
  <2>10. ends = {Rank(text, i) : i \in {j \in 1 .. pos : LineEnd(text, j)}}
    BY <2>6, <2>7, <2>8, <2>9
  <2>11. out # << >> /\ \A p \in 1 .. Len(out) : BlankIn(out, p) <=> p = Len(out)
    BY <2>1 DEF Blanks
  <2>12. Len(out) \in 1 .. Len(out)
    BY <2>2, <2>11, EmptyFacts
  <2>13. \A i \in 1 .. pos : BlankAt(text, i) => ~AfterCR(text, i)
    BY DEF BlankAt, LineEnd
  <2>14. {Rank(text, i) : i \in {j \in 1 .. pos : BlankAt(text, j)}} = {Len(out)}
    <3>1. ASSUME NEW i \in 1 .. pos, BlankAt(text, i)
          PROVE  Rank(text, i) = Len(out)
      BY <2>6, <2>11, <2>13, <3>1
    <3>2. PICK i \in 1 .. pos : ~AfterCR(text, i) /\ Rank(text, i) = Len(out)
      BY <2>7, <2>12
    <3>3. BlankAt(text, i)
      BY <2>6, <2>11, <2>12, <3>2
    <3> QED
      BY <3>1, <3>2, <3>3
  <2> QED
    BY <2>10, <2>14
<1> QED
  BY <1>1, Invariance, PTL
=============================================================================
