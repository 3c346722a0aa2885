--------------------------- MODULE RequestReader ----------------------------
(***************************************************************************)
(* get_line of httpd.c, byte by byte, and clear_header, which calls it     *)
(* until it has read an empty line.  The text of a request arrives in      *)
(* pieces on a non-blocking socket; a recv that finds nothing ends the     *)
(* line, and the caller is not told.                                       *)
(***************************************************************************)
EXTENDS Integers, Sequences, FiniteSets

CONSTANTS
  Texts,     \* what clients may send: sequences of "a", CR and LF
  MAX_LEN    \* the size of buf, 1024 in the code

CR == "r"
LF == "n"

ASSUME ReaderAssumption ==
  /\ \A t \in Texts : t \in Seq({"a", CR, LF})
  /\ MAX_LEN \in Nat /\ MAX_LEN > 1

VARIABLES
  text,      \* what the client sends
  arrived,   \* how much of it has arrived
  pos,       \* how much has been read
  pc,        \* "recv", "peek": after a CR, "return", "done": clear_header has returned
  buf,       \* the line so far
  out,       \* the lines get_line has returned, one behind the other
  ends,      \* the places in out where one of them ends
  gap,       \* history: recv has found nothing although more was to come
  extra,     \* history: how many LFs were read apart from their CR
  full       \* history: a line was longer than buf

vars == <<text, arrived, pos, pc, buf, out, ends, gap, extra, full>>

Init ==
  /\ text \in Texts
  /\ arrived = 0 /\ pos = 0
  /\ pc = "recv" /\ buf = << >> /\ out = << >> /\ ends = {}
  /\ gap = FALSE /\ extra = 0 /\ full = FALSE

Arrive ==
  /\ pc # "done"
  /\ arrived' \in arrived + 1 .. Len(text)
  /\ UNCHANGED <<text, pos, pc, buf, out, ends, gap, extra, full>>

-----------------------------------------------------------------------------
(* get_line *)

There == pos < arrived
ToCome == pos < Len(text)

\* Character i of text t is the LF of a CR LF.
AfterCR(t, i) == i > 1 /\ t[i - 1] = CR /\ t[i] = LF

\* Mutant: i < max_len.
Store_OneMore(c) ==
  /\ buf' = Append(buf, c)
  /\ pc' = IF c = LF \/ Len(buf) + 1 = MAX_LEN THEN "return" ELSE "recv"
  /\ full' = (full \/ (c # LF /\ Len(buf) + 1 = MAX_LEN))
\* The character c stored in buf: LF ends the line, and so does a full buf.
Store(c) ==
  /\ buf' = Append(buf, c)
  /\ pc' = IF c = LF \/ Len(buf) + 1 = MAX_LEN - 1 THEN "return" ELSE "recv"
  /\ full' = (full \/ (c # LF /\ Len(buf) + 1 = MAX_LEN - 1))

Recv ==
  /\ pc = "recv" /\ There
  /\ pos' = pos + 1
  /\ IF text[pos + 1] = CR
     THEN pc' = "peek" /\ UNCHANGED <<buf, full>>
     ELSE Store(text[pos + 1])
  /\ extra' = IF AfterCR(text, pos + 1) THEN extra + 1 ELSE extra
  /\ UNCHANGED <<text, arrived, out, ends, gap>>

\* Mutant: the LF that ends the loop is stored as well.
RecvNothing_Stores ==
  /\ pc = "recv" /\ ~There
  /\ Store(LF)
  /\ gap' = (gap \/ ToCome)
  /\ UNCHANGED <<text, arrived, pos, out, ends, extra>>
\* recv fails, or returns 0: c is set to LF, which is not stored.
RecvNothing ==
  /\ pc = "recv" /\ ~There
  /\ pc' = "return"
  /\ gap' = (gap \/ ToCome)
  /\ UNCHANGED <<text, arrived, pos, buf, out, ends, extra, full>>

\* Mutant: the LF that was peeked at is not taken.
PeekLF_Leaves ==
  /\ pc = "peek" /\ There /\ text[pos + 1] = LF
  /\ Store(LF)
  /\ UNCHANGED <<text, arrived, pos, out, ends, gap, extra>>
\* The LF of a CR LF is taken with it.
PeekLF ==
  /\ pc = "peek" /\ There /\ text[pos + 1] = LF
  /\ pos' = pos + 1
  /\ Store(LF)
  /\ UNCHANGED <<text, arrived, out, ends, gap, extra>>

\* A CR alone, or one whose LF has not arrived, is stored as LF.
PeekOther ==
  /\ pc = "peek"
  /\ ~(There /\ text[pos + 1] = LF)
  /\ Store(LF)
  /\ gap' = (gap \/ (ToCome /\ ~There))
  /\ UNCHANGED <<text, arrived, pos, out, ends, extra>>

-----------------------------------------------------------------------------
(* clear_header *)

Blank == <<LF>>

HeaderEnds(line) == line = Blank

get_line ==
  /\ pc = "return"
  /\ out' = out \o buf
  /\ ends' = IF buf = << >> THEN ends ELSE ends \cup {Len(out) + Len(buf)}
  /\ pc' = IF HeaderEnds(buf) THEN "done" ELSE "recv"
  /\ buf' = << >>
  /\ UNCHANGED <<text, arrived, pos, gap, extra, full>>

Read == Recv \/ RecvNothing \/ PeekLF \/ PeekOther \/ get_line

Next == Arrive \/ Read

Spec == Init /\ [][Next]_vars
FairSpec == Spec /\ WF_vars(Read)

-----------------------------------------------------------------------------
(* Properties *)

\* A text is read right if it becomes itself with CR LF and CR replaced by LF.
\* Character i of text t then stands at its rank among those that remain.
Rank(t, i) == Cardinality({j \in 1 .. i : ~AfterCR(t, j)})
AsRead(t, i) == IF t[i] = CR THEN LF ELSE t[i]
LineEnd(t, i) == ~AfterCR(t, i) /\ AsRead(t, i) = LF
BlankAt(t, i) == LineEnd(t, i) /\ (i > 1 => AsRead(t, i - 1) = LF)
Seen == out \o buf

TypeOK ==
  /\ text \in Texts
  /\ arrived \in 0 .. Len(text) /\ pos \in 0 .. arrived
  /\ pc \in {"recv", "peek", "return", "done"}
  /\ buf \in Seq({"a", LF}) /\ Len(buf) <= MAX_LEN - 1
  /\ out \in Seq({"a", LF}) /\ ends \subseteq 1 .. Len(out)
  /\ gap \in BOOLEAN /\ extra \in 0 .. pos /\ full \in BOOLEAN

\* Of what was read nothing is lost and nothing is added, wherever the text
\* was cut, except that a CR LF whose halves arrive apart becomes two line
\* ends.
NothingLost ==
  pc # "peek" =>
    /\ Len(Seen) = Rank(text, pos) + extra
    /\ extra = 0 => \A i \in 1 .. pos : ~AfterCR(text, i) => Seen[Rank(text, i)] = AsRead(text, i)
    /\ extra > 0 => gap

\* A text that is always there in time, in lines that fit, is cut at its line
\* ends and nowhere else, and clear_header stops behind its first blank line.
LinesMatch ==
  ~gap /\ ~full /\ pc = "done" =>
    /\ ends = {Rank(text, i) : i \in {j \in 1 .. pos : LineEnd(text, j)}}
    /\ {Rank(text, i) : i \in {j \in 1 .. pos : BlankAt(text, j)}} = {Len(out)}

\* clear_header has read up to the line end at i, the LF of its CR included
\* or still on its way.
ReadTo(i) == pos = i \/ (pos = i + 1 /\ AfterCR(text, pos))

FirstBlank(i) == BlankAt(text, i) /\ \A j \in 1 .. i - 1 : ~BlankAt(text, j)

\* The line that ends at i fills buf once or several times exactly.
Filled(i) ==
  /\ LineEnd(text, i)
  /\ \E n \in 1 .. i - 1 :
       /\ n % (MAX_LEN - 1) = 0
       /\ \A j \in i - n .. i - 1 : text[j] = "a"
       /\ i - n > 1 => AsRead(text, i - n - 1) = LF

Cleared ==
  \E i \in 1 .. Len(text) :
    /\ FirstBlank(i)
    /\ ReadTo(i) \/ (pos < i /\ (gap \/ \E j \in 1 .. i - 1 : Filled(j) /\ ReadTo(j)))

HasBlank == \E i \in 1 .. Len(text) : BlankAt(text, i)

\* When a header with a blank line has arrived, clear_header returns with all
\* of it read and nothing of what follows.  Two things make it return too
\* early, with header lines left that nobody will read: a recv that found
\* nothing in between, and a line that fills the buffer exactly, whose line
\* end is then read as a line of its own.
HeaderCleared ==
  HasBlank /\ <>(arrived = Len(text)) => <>(pc = "done" /\ Cleared)
=============================================================================
