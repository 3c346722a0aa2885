--------------------------- MODULE CityNamesProof ---------------------------
(***************************************************************************)
(* Proofs about CityNames.  A key is put together byte by byte by          *)
(* FlattenSeq, so most of this is induction over a name: the library's     *)
(* least-number principle for sets of naturals is first-order, and gives   *)
(* an induction in which the property is a set.                            *)
(***************************************************************************)
EXTENDS CityNames, SequenceTheorems, WellFoundedInduction, TLAPS

-----------------------------------------------------------------------------
(* Induction *)

\* A set of natural numbers that is not empty has a least element.
LEMMA LeastNumber ==
  ASSUME NEW S \in SUBSET Nat, S # {}
  PROVE  \E n \in S : \A m \in S : n <= m
<1> DEFINE R == OpToRel(<, Nat)
<1>1. \A m, n \in Nat : <<m, n>> \in R <=> m < n
  BY DEF OpToRel
<1>2. IsWellFoundedOn(R, Nat)
  BY NatLessThanWellFounded
<1> HIDE DEF R
<1>3. PICK n \in S : \A m \in S : ~(<<m, n>> \in R)
  BY <1>2, WFMin
<1>4. \A m \in S : ~(m < n)
  BY <1>1, <1>3
<1> QED
  BY <1>4

\* A set that has 1, and a number up to n if it has the one before, has all
\* numbers from 1 to n.
LEMMA Induction ==
  ASSUME NEW n \in Nat, NEW S, 1 \in S, \A j \in 2 .. n : j - 1 \in S => j \in S
  PROVE  1 .. n \subseteq S
<1> DEFINE T == (1 .. n) \ S
<1> SUFFICES ASSUME T # {} PROVE FALSE
  OBVIOUS
<1>1. T \in SUBSET Nat
  OBVIOUS
<1> HIDE DEF T
<1>2. PICK j \in T : \A i \in T : j <= i
  BY <1>1, LeastNumber
<1>3. j \in 1 .. n /\ j \notin S
  BY <1>2 DEF T
<1>4. j \in 2 .. n /\ j - 1 \in 1 .. n /\ ~(j <= j - 1)
  BY <1>3
<1>5. j - 1 \in S
  BY <1>2, <1>4 DEF T
<1> QED
  BY <1>3, <1>4, <1>5

-----------------------------------------------------------------------------
(* FlattenSeq *)

\* g gives the concatenations of the first 1, 2, ... n elements of f.
Joins(f, n, g) == g = [i \in 1 .. n |-> IF i = 1 THEN f[i] ELSE g[i - 1] \o f[i]]

\* The same, one join after the other.
Chain(f, n, g) == g[1] = f[1] /\ \A j \in 2 .. n : g[j] = g[j - 1] \o f[j]

\* Each join is the one before and one element more.
LEMMA JoinsNext ==
  ASSUME NEW n \in Nat \ {0}, NEW f, NEW g, Joins(f, n, g)
  PROVE  Chain(f, n, g)
<1>1. \A j \in 1 .. n : g[j] = IF j = 1 THEN f[j] ELSE g[j - 1] \o f[j]
  BY Zenon DEF Joins
<1>2. 1 \in 1 .. n /\ \A j \in 2 .. n : j \in 1 .. n /\ j # 1
  OBVIOUS
<1>3. g[1] = f[1]
  BY <1>1, <1>2, Zenon
<1>4. ASSUME NEW j \in 2 .. n
      PROVE  g[j] = g[j - 1] \o f[j]
  BY <1>1, <1>2, Zenon
<1> QED
  BY <1>3, <1>4 DEF Chain

\* There is such a function, which is why FlattenSeq is what its recursion says.
LEMMA JoinsExist ==
  ASSUME NEW n \in Nat \ {0}, NEW f
  PROVE  \E g : Joins(f, n, g)
<1> DEFINE S == {k \in Nat : \E g : Joins(f, k, g)}
<1>1. 1 \in S
  <2> DEFINE g == [i \in 1 .. 1 |-> f[i]]
  <2>1. g = [i \in 1 .. 1 |-> IF i = 1 THEN f[i] ELSE g[i - 1] \o f[i]]
    OBVIOUS
  <2> HIDE DEF g
  <2>2. Joins(f, 1, g)
    BY <2>1 DEF Joins
  <2> QED
    BY <2>2
<1>2. ASSUME NEW j \in 2 .. n, j - 1 \in S
      PROVE  j \in S
  <2>1. PICK g : Joins(f, j - 1, g)
    BY <1>2
  <2> DEFINE h == [i \in 1 .. j |-> IF i = j THEN g[j - 1] \o f[j] ELSE g[i]]
  <2>2. ASSUME NEW i \in 1 .. j
        PROVE  h[i] = IF i = 1 THEN f[i] ELSE h[i - 1] \o f[i]
    <3>1. CASE i = j
      <4>1. i # 1 /\ j - 1 \in 1 .. j /\ j - 1 # j
        BY <3>1
      <4> QED
        BY <3>1, <4>1
    <3>2. CASE i # j
      <4>1. i \in 1 .. j - 1 /\ (i # 1 => i - 1 \in 1 .. j /\ i - 1 # j)
        BY <3>2
      <4>2. g[i] = IF i = 1 THEN f[i] ELSE g[i - 1] \o f[i]
        BY <2>1, <4>1 DEF Joins
      <4> QED
        BY <3>2, <4>1, <4>2
    <3> QED
      BY <3>1, <3>2
  <2>3. h = [i \in 1 .. j |-> IF i = 1 THEN f[i] ELSE h[i - 1] \o f[i]]
    BY <2>2
  <2> HIDE DEF h
  <2>4. Joins(f, j, h)
    BY <2>3 DEF Joins
  <2> QED
    BY <2>4
<1> HIDE DEF S
<1>3. 1 .. n \subseteq S
  BY <1>1, <1>2, Induction
<1>4. n \in S
  BY <1>3
<1> QED
  BY <1>4 DEF S

\* FlattenSeq of a list is the last of its joins.
LEMMA FlattenIsJoin ==
  ASSUME NEW n \in Nat \ {0}, NEW s, Len(s) = n
  PROVE  \E g : Joins(s, n, g) /\ FlattenSeq(s) = g[n]
<1> DEFINE f == CHOOSE g : Joins(s, n, g)
<1>1. FlattenSeq(s) = f[n]
  BY DEF FlattenSeq, Joins
<1>2. Joins(s, n, f)
  BY JoinsExist
<1> QED
  BY <1>1, <1>2

\* Joins of lists that begin alike begin alike.
LEMMA JoinsAgree ==
  ASSUME NEW m \in Nat \ {0}, NEW n \in Nat \ {0}, m <= n, NEW f, NEW h,
         \A i \in 1 .. m : f[i] = h[i],
         NEW g, Joins(f, m, g), NEW k, Joins(h, n, k)
  PROVE  \A i \in 1 .. m : g[i] = k[i]
<1> DEFINE S == {i \in 1 .. m : g[i] = k[i]}
<1>1. Chain(f, m, g)
  BY JoinsNext
<1>2. Chain(h, n, k)
  BY JoinsNext
<1>3. 1 \in S
  BY <1>1, <1>2 DEF Chain
<1>4. ASSUME NEW j \in 2 .. m, j - 1 \in S
      PROVE  j \in S
  <2>1. j \in 1 .. m /\ j \in 2 .. n
    OBVIOUS
  <2> QED
    BY <1>1, <1>2, <1>4, <2>1 DEF Chain
<1> HIDE DEF S
<1>5. 1 .. m \subseteq S
  BY <1>3, <1>4, Induction
<1> QED
  BY <1>5 DEF S

\* The concatenation of one list is that list.
LEMMA FlattenOne ==
  ASSUME NEW f
  PROVE  FlattenSeq([i \in 1 .. 1 |-> f[i]]) = f[1]
<1> DEFINE s == [i \in 1 .. 1 |-> f[i]]
<1>1. Len(s) = 1 /\ s[1] = f[1]
  OBVIOUS
<1> HIDE DEF s
<1>2. PICK g : Joins(s, 1, g) /\ FlattenSeq(s) = g[1]
  <2>1. 1 \in Nat \ {0}
    OBVIOUS
  <2> QED
    BY <1>1, <2>1, FlattenIsJoin
<1>3. g[1] = s[1]
  BY <1>2 DEF Joins
<1> QED
  BY <1>1, <1>2, <1>3 DEF s

\* One list more is appended at the end.
LEMMA FlattenNext ==
  ASSUME NEW f, NEW n \in Nat, NEW m \in Nat \ {0}, n = m + 1
  PROVE  FlattenSeq([i \in 1 .. n |-> f[i]]) = FlattenSeq([i \in 1 .. m |-> f[i]]) \o f[n]
<1> DEFINE s == [i \in 1 .. m |-> f[i]]
           t == [i \in 1 .. n |-> f[i]]
<1>1. Len(s) = m /\ Len(t) = n /\ t[n] = f[n] /\ \A i \in 1 .. m : s[i] = t[i]
  OBVIOUS
<1> HIDE DEF s, t
<1>2. PICK g : Joins(s, m, g) /\ FlattenSeq(s) = g[m]
  BY <1>1, FlattenIsJoin
<1>3. n \in Nat \ {0} /\ m <= n /\ m \in 1 .. m /\ n \in 2 .. n /\ n - 1 = m
  OBVIOUS
<1>4. PICK k : Joins(t, n, k) /\ FlattenSeq(t) = k[n]
  BY <1>1, <1>3, FlattenIsJoin
<1>5. g[m] = k[m]
  <2>1. Joins(s, m, g) /\ Joins(t, n, k) /\ \A i \in 1 .. m : s[i] = t[i]
    BY <1>1, <1>2, <1>4
  <2>2. \A i \in 1 .. m : g[i] = k[i]
    BY <1>3, <2>1, JoinsAgree
  <2> QED
    BY <1>3, <2>2
<1>6. Chain(t, n, k)
  BY <1>3, <1>4, JoinsNext
<1>7. k[n] = k[m] \o t[n]
  BY <1>3, <1>6 DEF Chain
<1> QED
  BY <1>1, <1>2, <1>4, <1>5, <1>7 DEF s, t

-----------------------------------------------------------------------------
(* Bytes *)

Bytes == (0 .. 15) \X (0 .. 15)

\* A list that was appended to is not empty.
LEMMA AppendNotEmpty ==
  ASSUME NEW S, NEW s \in Seq(S), NEW x \in S
  PROVE  Append(s, x) \in Seq(S) /\ Append(s, x) # << >>
<1>1. Append(s, x) \in Seq(S) /\ Len(Append(s, x)) = Len(s) + 1
  BY AppendProperties
<1>2. Len(s) \in Nat
  BY LenProperties
<1>3. Len(s) + 1 # 0
  BY <1>2
<1> QED
  BY <1>1, <1>3, EmptySeq

\* What is left of an encoded byte without its percent sign.
Shown(byte) ==
  IF byte = Blank THEN <<PLUS>>
  ELSE IF SentAsIs(16 * byte[1] + byte[2]) THEN <<Char(16 * byte[1] + byte[2])>>
  ELSE <<byte[1], byte[2]>>

\* Lists of no, one and two elements.
LEMMA ShortLists ==
  ASSUME NEW S, NEW x \in S, NEW y \in S
  PROVE  /\ << >> \in Seq(S) /\ <<x>> \in Seq(S) /\ <<x, y>> \in Seq(S)
         /\ Len(<< >>) = 0 /\ Len(<<x>>) = 1 /\ Len(<<x, y>>) = 2
         /\ << >> \o << >> = << >> /\ << >> \o <<x>> = <<x>> /\ <<x>> \o << >> = <<x>>
         /\ <<x>> \o <<y>> = <<x, y>>
<1>1. << >> \in Seq(S) /\ <<x>> \in Seq(S) /\ <<x, y>> \in Seq(S)
  OBVIOUS
<1>2. Len(<< >>) = 0 /\ Len(<<x>>) = 1 /\ Len(<<x, y>>) = 2
  OBVIOUS
<1>3. << >> \o << >> = << >> /\ << >> \o <<x>> = <<x>> /\ <<x>> \o << >> = <<x>>
  BY <1>1, ConcatEmptySeq
<1>4. <<x>> \o <<y>> = <<x, y>>
  <2> DEFINE u == <<x>> \o <<y>>
             v == <<x, y>>
  <2>1. <<y>> \in Seq(S) /\ Len(<<y>>) = 1 /\ <<x>>[1] = x /\ <<y>>[1] = y /\ v[1] = x /\ v[2] = y
    OBVIOUS
  <2>2. u \in Seq(S) /\ Len(u) = 2 /\ u[1] = x /\ u[2] = y
    BY <1>1, <1>2, <2>1, ConcatProperties
  <2>3. \A i \in 1 .. 2 : i = 1 \/ i = 2
    OBVIOUS
  <2> HIDE DEF u
  <2>4. \A i \in 1 .. Len(u) : u[i] = v[i]
    BY <2>1, <2>2, <2>3
  <2>5. u = v
    BY <1>1, <1>2, <2>2, <2>4, SeqEqual
  <2> QED
    BY <2>5 DEF u
<1> QED
  BY <1>1, <1>2, <1>3, <1>4

\* A digit is left out or written.
LEMMA DigitFacts ==
  ASSUME NEW d \in 0 .. 15
  PROVE  /\ d # 15 => NotF(d) = <<d>>
         /\ NotF(d) \in Seq(0 .. 14) /\ Len(NotF(d)) \in 0 .. 1
<1>1. d # 15 => d \in 0 .. 14
  OBVIOUS
<1>2. CASE d = 15
  <2>1. NotF(d) = << >>
    BY <1>2 DEF NotF
  <2>2. << >> \in Seq(0 .. 14) /\ Len(<< >>) = 0 /\ 0 \in 0 .. 1
    OBVIOUS
  <2>3. NotF(d) \in Seq(0 .. 14) /\ Len(NotF(d)) \in 0 .. 1
    BY <2>1, <2>2, Zenon
  <2> QED
    BY <1>2, <2>3, Zenon
<1>3. CASE d # 15
  <2>1. NotF(d) = <<d>>
    BY <1>3 DEF NotF
  <2>2. <<d>> \in Seq(0 .. 14) /\ Len(<<d>>) = 1
    BY <1>1, <1>3
  <2> QED
    BY <2>1, <2>2
<1> QED
  BY <1>2, <1>3

\* A byte as find_cgi gets it: as it is shown, perhaps after a percent sign.
LEMMA EncodeFacts ==
  ASSUME NEW b \in Bytes
  PROVE  \/ \E x \in Nat \ {PERCENT} : Encode(b) = <<x>> /\ Shown(b) = <<x>>
         \/ /\ Encode(b) = <<PERCENT, b[1], b[2]>> /\ Shown(b) = <<b[1], b[2]>>
            /\ b[1] \in 0 .. 15 /\ b[2] \in 0 .. 15
<1>1. b[1] \in 0 .. 15 /\ b[2] \in 0 .. 15
  BY DEF Bytes
<1> DEFINE code == 16 * b[1] + b[2]
<1>2. code \in Nat
  BY <1>1
<1>3. CASE b = Blank
  BY <1>3 DEF Encode, Shown, PLUS, PERCENT
<1>4. CASE b # Blank /\ SentAsIs(code)
  <2> HIDE DEF code
  <2>1. Char(code) \in Nat \ {PERCENT}
    BY <1>2, <1>4 DEF Char, SentAsIs, PERCENT
  <2> QED
    BY <1>4, <2>1 DEF Encode, Shown, code
<1>5. CASE b # Blank /\ ~SentAsIs(code)
  BY <1>1, <1>5 DEF Encode, Shown
<1> QED
  BY <1>3, <1>4, <1>5

\* What the crawler writes for a byte and what find_cgi keeps of it.
LEMMA ByteFacts ==
  ASSUME NEW b \in Bytes
  PROVE  /\ Digits(b) \in Seq(0 .. 14)
         /\ Shown(b) \in Seq(Nat)
         /\ Len(Shown(b)) \in Nat \ {0} /\ Len(Digits(b)) \in Nat
         /\ Len(Digits(b)) <= Len(Shown(b))
         /\ IsAscii(b) => Digits(b) = << >>
         /\ ~IsAscii(b) => Shown(b) = <<b[1], b[2]>>
         /\ ~IsAscii(b) /\ b[1] # 15 /\ b[2] # 15 => Digits(b) = <<b[1], b[2]>>
<1>1. b[1] \in 0 .. 15 /\ b[2] \in 0 .. 15
  BY DEF Bytes
<1>2. ~IsAscii(b) => Shown(b) = <<b[1], b[2]>>
  <2> SUFFICES ASSUME ~IsAscii(b) PROVE Shown(b) = <<b[1], b[2]>>
    OBVIOUS
  <2>1. b # Blank
    BY <1>1 DEF IsAscii, Blank
  <2>2. ~SentAsIs(16 * b[1] + b[2])
    BY <1>1 DEF IsAscii, SentAsIs
  <2> QED
    BY <2>1, <2>2 DEF Shown
<1>3. /\ b[1] # 15 => NotF(b[1]) = <<b[1]>>
      /\ b[2] # 15 => NotF(b[2]) = <<b[2]>>
      /\ NotF(b[1]) \in Seq(0 .. 14) /\ Len(NotF(b[1])) \in 0 .. 1
      /\ NotF(b[2]) \in Seq(0 .. 14) /\ Len(NotF(b[2])) \in 0 .. 1
  BY <1>1, DigitFacts
<1>4. Shown(b) \in Seq(Nat) /\ Len(Shown(b)) \in 1 .. 2
  <2>1. CASE \E x \in Nat \ {PERCENT} : Shown(b) = <<x>>
    BY <2>1
  <2>2. CASE Shown(b) = <<b[1], b[2]>>
    <3>1. b[1] \in Nat /\ b[2] \in Nat
      BY <1>1
    <3> QED
      BY <2>2, <3>1
  <2> QED
    BY <2>1, <2>2, EncodeFacts
<1>5. Digits(b) \in Seq(0 .. 14) /\ Len(Digits(b)) \in 0 .. 2
  <2>1. CASE Digits(b) = << >>
    BY <2>1
  <2>2. CASE Digits(b) = NotF(b[1]) \o NotF(b[2])
    <3>1. Digits(b) \in Seq(0 .. 14) /\ Len(Digits(b)) = Len(NotF(b[1])) + Len(NotF(b[2]))
      BY <1>3, <2>2, ConcatProperties
    <3>2. \A m, n \in 0 .. 1 : m + n \in 0 .. 2
      OBVIOUS
    <3> QED
      BY <1>3, <3>1, <3>2
  <2> QED
    BY <2>1, <2>2 DEF Digits
<1>6. IsAscii(b) => Digits(b) = << >>
  BY DEF Digits
<1>7. ~IsAscii(b) /\ b[1] # 15 /\ b[2] # 15 => Digits(b) = <<b[1], b[2]>>
  <2>1. b[1] # 15 /\ b[2] # 15 => NotF(b[1]) = <<b[1]>> /\ NotF(b[2]) = <<b[2]>>
    BY <1>3
  <2>2. <<b[1]>> \o <<b[2]>> = <<b[1], b[2]>>
    BY <1>1, ShortLists
  <2> QED
    BY <2>1, <2>2 DEF Digits
<1>8. Len(Digits(b)) <= Len(Shown(b))
  <2>1. CASE IsAscii(b)
    BY <1>4, <1>6, <2>1
  <2>2. CASE ~IsAscii(b)
    BY <1>2, <1>5, <2>2
  <2> QED
    BY <2>1, <2>2
<1>9. Len(Shown(b)) \in Nat \ {0} /\ Len(Digits(b)) \in Nat
  <2>1. (1 .. 2) \subseteq Nat \ {0} /\ (0 .. 2) \subseteq Nat
    OBVIOUS
  <2> QED
    BY <1>4, <1>5, <2>1
<1> QED
  BY <1>2, <1>4, <1>5, <1>6, <1>7, <1>8, <1>9

-----------------------------------------------------------------------------
(* Names *)

\* The first n bytes of a name as the crawler writes them, as the browser
\* sends them, and as find_cgi keeps them.
WrittenTo(name, n) == FlattenSeq([i \in 1 .. n |-> Digits(name[i])])
SentTo(name, n) == FlattenSeq([i \in 1 .. n |-> Encode(name[i])])
ShownTo(name, n) == FlattenSeq([i \in 1 .. n |-> Shown(name[i])])

\* The three grow byte by byte.
LEMMA NameSteps ==
  ASSUME NEW name \in Seq(Bytes), name # << >>
  PROVE  /\ WrittenTo(name, 1) = Digits(name[1])
         /\ SentTo(name, 1) = Encode(name[1])
         /\ ShownTo(name, 1) = Shown(name[1])
         /\ \A n \in 2 .. Len(name) :
              /\ WrittenTo(name, n) = WrittenTo(name, n - 1) \o Digits(name[n])
              /\ SentTo(name, n) = SentTo(name, n - 1) \o Encode(name[n])
              /\ ShownTo(name, n) = ShownTo(name, n - 1) \o Shown(name[n])
<1> DEFINE w == [i \in 1 .. Len(name) |-> Digits(name[i])]
           e == [i \in 1 .. Len(name) |-> Encode(name[i])]
           s == [i \in 1 .. Len(name) |-> Shown(name[i])]
<1>1. \A n \in 1 .. Len(name) : /\ [i \in 1 .. n |-> w[i]] = [i \in 1 .. n |-> Digits(name[i])]
                                /\ [i \in 1 .. n |-> e[i]] = [i \in 1 .. n |-> Encode(name[i])]
                                /\ [i \in 1 .. n |-> s[i]] = [i \in 1 .. n |-> Shown(name[i])]
                                /\ w[n] = Digits(name[n]) /\ e[n] = Encode(name[n]) /\ s[n] = Shown(name[n])
  OBVIOUS
<1>2. Len(name) \in Nat \ {0} /\ 1 \in 1 .. Len(name)
  BY EmptySeq
<1> HIDE DEF w, e, s
<1>3. /\ WrittenTo(name, 1) = Digits(name[1])
      /\ SentTo(name, 1) = Encode(name[1])
      /\ ShownTo(name, 1) = Shown(name[1])
  BY <1>1, <1>2, FlattenOne DEF WrittenTo, SentTo, ShownTo
<1>4. ASSUME NEW n \in 2 .. Len(name)
      PROVE  /\ WrittenTo(name, n) = WrittenTo(name, n - 1) \o Digits(name[n])
             /\ SentTo(name, n) = SentTo(name, n - 1) \o Encode(name[n])
             /\ ShownTo(name, n) = ShownTo(name, n - 1) \o Shown(name[n])
  <2>1. n \in 1 .. Len(name) /\ n - 1 \in 1 .. Len(name) /\ n \in Nat /\ n - 1 \in Nat \ {0} /\ n = (n - 1) + 1
    BY <1>2
  <2>2. FlattenSeq([i \in 1 .. n |-> w[i]]) = FlattenSeq([i \in 1 .. n - 1 |-> w[i]]) \o w[n]
    BY <2>1, FlattenNext
  <2>3. FlattenSeq([i \in 1 .. n |-> e[i]]) = FlattenSeq([i \in 1 .. n - 1 |-> e[i]]) \o e[n]
    BY <2>1, FlattenNext
  <2>4. FlattenSeq([i \in 1 .. n |-> s[i]]) = FlattenSeq([i \in 1 .. n - 1 |-> s[i]]) \o s[n]
    BY <2>1, FlattenNext
  <2> QED
    BY <1>1, <2>1, <2>2, <2>3, <2>4 DEF WrittenTo, SentTo, ShownTo
<1> QED
  BY <1>3, <1>4

\* Types and lengths: what is shown of a name is never shorter than what is
\* written, and longer as soon as there is an ASCII character.
LEMMA NameFacts ==
  ASSUME NEW name \in Seq(Bytes), name # << >>
  PROVE  \A n \in 1 .. Len(name) :
           /\ WrittenTo(name, n) \in Seq(0 .. 14) /\ ShownTo(name, n) \in Seq(Nat)
           /\ Len(WrittenTo(name, n)) \in Nat /\ Len(ShownTo(name, n)) \in Nat
           /\ Len(WrittenTo(name, n)) <= Len(ShownTo(name, n))
           /\ (\E i \in 1 .. n : IsAscii(name[i])) => Len(WrittenTo(name, n)) < Len(ShownTo(name, n))
<1> DEFINE P(n) ==
             /\ WrittenTo(name, n) \in Seq(0 .. 14) /\ ShownTo(name, n) \in Seq(Nat)
             /\ Len(WrittenTo(name, n)) \in Nat /\ Len(ShownTo(name, n)) \in Nat
             /\ Len(WrittenTo(name, n)) <= Len(ShownTo(name, n))
             /\ (\E i \in 1 .. n : IsAscii(name[i])) => Len(WrittenTo(name, n)) < Len(ShownTo(name, n))
           S == {n \in 1 .. Len(name) : P(n)}
<1>1. Len(name) \in Nat \ {0} /\ 1 \in 1 .. Len(name)
  BY EmptySeq
<1>2. \A n \in 1 .. Len(name) : name[n] \in Bytes
  BY ElementOfSeq
<1>3. \A n \in 1 .. Len(name) :
           /\ Digits(name[n]) \in Seq(0 .. 14) /\ Shown(name[n]) \in Seq(Nat)
           /\ Len(Shown(name[n])) \in Nat \ {0} /\ Len(Digits(name[n])) \in Nat
           /\ Len(Digits(name[n])) <= Len(Shown(name[n]))
           /\ IsAscii(name[n]) => Len(Digits(name[n])) = 0
  BY <1>2, ByteFacts
<1>4. P(1)
  <2>1. (\E i \in 1 .. 1 : IsAscii(name[i])) => IsAscii(name[1])
    OBVIOUS
  <2> QED
    BY <1>1, <1>3, <2>1, NameSteps
<1>5. ASSUME NEW n \in 2 .. Len(name), P(n - 1)
      PROVE  P(n)
  <2>1. n \in 1 .. Len(name)
    BY <1>1
  <2> DEFINE w == WrittenTo(name, n - 1)
             s == ShownTo(name, n - 1)
  <2>2. WrittenTo(name, n) = w \o Digits(name[n]) /\ ShownTo(name, n) = s \o Shown(name[n])
    BY NameSteps
  <2>3. WrittenTo(name, n) \in Seq(0 .. 14) /\ Len(WrittenTo(name, n)) = Len(w) + Len(Digits(name[n]))
    BY <1>3, <1>5, <2>1, <2>2, ConcatProperties
  <2>4. ShownTo(name, n) \in Seq(Nat) /\ Len(ShownTo(name, n)) = Len(s) + Len(Shown(name[n]))
    BY <1>3, <1>5, <2>1, <2>2, ConcatProperties
  <2>5. (\E i \in 1 .. n : IsAscii(name[i])) => IsAscii(name[n]) \/ \E i \in 1 .. n - 1 : IsAscii(name[i])
    <3>1. \A i \in 1 .. n : i = n \/ i \in 1 .. n - 1
      OBVIOUS
    <3> QED
      BY <3>1
  <2>6. /\ Len(w) \in Nat /\ Len(s) \in Nat /\ Len(w) <= Len(s)
        /\ (\E i \in 1 .. n - 1 : IsAscii(name[i])) => Len(w) < Len(s)
        /\ Len(Digits(name[n])) \in Nat /\ Len(Shown(name[n])) \in Nat
        /\ Len(Digits(name[n])) <= Len(Shown(name[n]))
        /\ IsAscii(name[n]) => Len(Digits(name[n])) < Len(Shown(name[n]))
    BY <1>3, <1>5, <2>1
  <2> HIDE DEF w, s
  <2>7. /\ Len(WrittenTo(name, n)) \in Nat /\ Len(ShownTo(name, n)) \in Nat
        /\ Len(WrittenTo(name, n)) <= Len(ShownTo(name, n))
    BY <2>3, <2>4, <2>6
  <2>8. Len(w) < Len(s) \/ Len(Digits(name[n])) < Len(Shown(name[n]))
          => Len(WrittenTo(name, n)) < Len(ShownTo(name, n))
    BY <2>3, <2>4, <2>6
  <2> QED
    BY <2>3, <2>4, <2>5, <2>6, <2>7, <2>8
<1> HIDE DEF P
<1>6. 1 \in S
  BY <1>1, <1>4
<1>7. \A n \in 2 .. Len(name) : n - 1 \in S => n \in S
  BY <1>5
<1> HIDE DEF S
<1>8. 1 .. Len(name) \subseteq S
  BY <1>1, <1>6, <1>7, Induction
<1> QED
  BY <1>8 DEF S, P

\* Of a plain name the crawler writes what find_cgi keeps.
LEMMA PlainAgrees ==
  ASSUME NEW name \in Seq(Bytes), name # << >>, Plain(name)
  PROVE  \A n \in 1 .. Len(name) : WrittenTo(name, n) = ShownTo(name, n)
<1> DEFINE S == {n \in 1 .. Len(name) : WrittenTo(name, n) = ShownTo(name, n)}
<1>1. Len(name) \in Nat \ {0} /\ 1 \in 1 .. Len(name)
  BY EmptySeq
<1>2. \A n \in 1 .. Len(name) : Digits(name[n]) = Shown(name[n])
  <2>1. \A n \in 1 .. Len(name) : name[n] \in Bytes
    BY ElementOfSeq
  <2> QED
    BY <2>1, ByteFacts DEF Plain
<1>3. 1 \in S
  BY <1>1, <1>2, NameSteps
<1>4. ASSUME NEW n \in 2 .. Len(name), n - 1 \in S
      PROVE  n \in S
  <2>1. n \in 1 .. Len(name)
    BY <1>1
  <2>2. WrittenTo(name, n) = WrittenTo(name, n - 1) \o Digits(name[n])
    BY NameSteps
  <2>3. ShownTo(name, n) = ShownTo(name, n - 1) \o Shown(name[n])
    BY NameSteps
  <2> QED
    BY <1>2, <1>4, <2>1, <2>2, <2>3
<1> HIDE DEF S
<1>5. 1 .. Len(name) \subseteq S
  BY <1>1, <1>3, <1>4, Induction
<1> QED
  BY <1>5 DEF S

\* A digit f of a byte that is not ASCII is shown, and never written.
LEMMA FIsShown ==
  ASSUME NEW name \in Seq(Bytes), name # << >>
  PROVE  \A n \in 1 .. Len(name) :
           (\E i \in 1 .. n : ~IsAscii(name[i]) /\ (name[i][1] = 15 \/ name[i][2] = 15))
             => \E p \in 1 .. Len(ShownTo(name, n)) : ShownTo(name, n)[p] = 15
<1> DEFINE F(i) == ~IsAscii(name[i]) /\ (name[i][1] = 15 \/ name[i][2] = 15)
           P(n) == (\E i \in 1 .. n : F(i)) => \E p \in 1 .. Len(ShownTo(name, n)) : ShownTo(name, n)[p] = 15
           S == {n \in 1 .. Len(name) : P(n)}
<1>1. Len(name) \in Nat \ {0} /\ 1 \in 1 .. Len(name)
  BY EmptySeq
<1>2. ASSUME NEW n \in 1 .. Len(name)
      PROVE  /\ Shown(name[n]) \in Seq(Nat) /\ Len(Shown(name[n])) \in Nat
             /\ F(n) => \E p \in 1 .. Len(Shown(name[n])) : Shown(name[n])[p] = 15
  <2>1. name[n] \in Bytes
    BY ElementOfSeq
  <2>2. ~IsAscii(name[n]) => Shown(name[n]) = <<name[n][1], name[n][2]>>
    BY <2>1, ByteFacts
  <2>3. ASSUME F(n)
        PROVE  \E p \in 1 .. Len(Shown(name[n])) : Shown(name[n])[p] = 15
    <3>1. Shown(name[n]) = <<name[n][1], name[n][2]>>
      BY <2>2, <2>3
    <3>2. Shown(name[n])[1] = name[n][1] /\ Shown(name[n])[2] = name[n][2] /\ Len(Shown(name[n])) = 2
      BY <3>1
    <3>3. 1 \in 1 .. 2 /\ 2 \in 1 .. 2
      OBVIOUS
    <3> QED
      BY <2>3, <3>2, <3>3
  <2> QED
    BY <2>1, <2>3, ByteFacts
<1> HIDE DEF F
<1>3. P(1)
  <2>1. (\E i \in 1 .. 1 : F(i)) => F(1)
    OBVIOUS
  <2> QED
    BY <1>1, <1>2, <2>1, NameSteps
<1>4. ASSUME NEW n \in 2 .. Len(name), P(n - 1)
      PROVE  P(n)
  <2> SUFFICES ASSUME NEW i \in 1 .. n, F(i)
               PROVE  \E p \in 1 .. Len(ShownTo(name, n)) : ShownTo(name, n)[p] = 15
    OBVIOUS
  <2> DEFINE s == ShownTo(name, n - 1)
             t == Shown(name[n])
  <2>1. n \in 1 .. Len(name) /\ n - 1 \in 1 .. Len(name)
    BY <1>1
  <2>2. ShownTo(name, n) = s \o t
    BY NameSteps
  <2>3. s \in Seq(Nat) /\ Len(s) \in Nat /\ t \in Seq(Nat) /\ Len(t) \in Nat
    BY <1>2, <2>1, NameFacts
  <2> HIDE DEF s, t
  <2>4. /\ Len(s \o t) = Len(s) + Len(t)
        /\ \A p \in 1 .. Len(s) + Len(t) : (s \o t)[p] = IF p <= Len(s) THEN s[p] ELSE t[p - Len(s)]
    BY <2>3, ConcatProperties
  <2>5. CASE i = n
    <3>1. PICK p \in 1 .. Len(t) : t[p] = 15
      BY <1>2, <2>1, <2>5 DEF t
    <3>2. /\ p + Len(s) \in 1 .. Len(s) + Len(t) /\ ~(p + Len(s) <= Len(s))
          /\ p + Len(s) - Len(s) = p
      BY <2>3
    <3>3. (s \o t)[p + Len(s)] = 15
      BY <2>4, <3>1, <3>2
    <3> QED
      BY <2>2, <2>4, <3>2, <3>3
  <2>6. CASE i # n
    <3>1. i \in 1 .. n - 1
      BY <2>6
    <3>2. PICK p \in 1 .. Len(s) : s[p] = 15
      BY <1>4, <3>1 DEF s
    <3>3. p \in 1 .. Len(s) + Len(t) /\ p <= Len(s)
      BY <2>3
    <3> QED
      BY <2>2, <2>4, <3>2, <3>3
  <2> QED
    BY <2>5, <2>6
<1> HIDE DEF P
<1>5. 1 \in S
  BY <1>1, <1>3
<1>6. \A n \in 2 .. Len(name) : n - 1 \in S => n \in S
  BY <1>4
<1> HIDE DEF S
<1>7. 1 .. Len(name) \subseteq S
  BY <1>1, <1>5, <1>6, Induction
<1> QED
  BY <1>7 DEF S, P, F

\* The digits of a plain name are where one looks for them.
LEMMA PlainPositions ==
  ASSUME NEW name \in Seq(Bytes), name # << >>, Plain(name)
  PROVE  \A n \in 1 .. Len(name) :
           /\ WrittenTo(name, n) \in Seq(0 .. 14) /\ Len(WrittenTo(name, n)) = 2 * n
           /\ \A i \in 1 .. n : /\ WrittenTo(name, n)[2 * i - 1] = name[i][1]
                                /\ WrittenTo(name, n)[2 * i] = name[i][2]
<1> DEFINE P(n) == /\ WrittenTo(name, n) \in Seq(0 .. 14) /\ Len(WrittenTo(name, n)) = 2 * n
                   /\ \A i \in 1 .. n : /\ WrittenTo(name, n)[2 * i - 1] = name[i][1]
                                        /\ WrittenTo(name, n)[2 * i] = name[i][2]
           S == {n \in 1 .. Len(name) : P(n)}
<1>1. Len(name) \in Nat \ {0} /\ 1 \in 1 .. Len(name)
  BY EmptySeq
<1>2. ASSUME NEW n \in 1 .. Len(name)
      PROVE  /\ Digits(name[n]) \in Seq(0 .. 14) /\ Len(Digits(name[n])) = 2
             /\ Digits(name[n])[1] = name[n][1] /\ Digits(name[n])[2] = name[n][2]
  <2>1. name[n] \in Bytes
    BY ElementOfSeq
  <2>2. Digits(name[n]) \in Seq(0 .. 14) /\ Digits(name[n]) = <<name[n][1], name[n][2]>>
    BY <2>1, ByteFacts DEF Plain
  <2> QED
    BY <2>2
<1>3. P(1)
  <2>1. WrittenTo(name, 1) = Digits(name[1])
    BY NameSteps
  <2>2. Len(WrittenTo(name, 1)) = 2 * 1
    BY <1>1, <1>2, <2>1
  <2>3. ASSUME NEW i \in 1 .. 1
        PROVE  WrittenTo(name, 1)[2 * i - 1] = name[i][1] /\ WrittenTo(name, 1)[2 * i] = name[i][2]
    <3>1. i = 1 /\ 2 * i - 1 = 1 /\ 2 * i = 2
      OBVIOUS
    <3> QED
      BY <1>1, <1>2, <2>1, <3>1
  <2> QED
    BY <1>1, <1>2, <2>1, <2>2, <2>3
<1>4. ASSUME NEW n \in 2 .. Len(name), P(n - 1)
      PROVE  P(n)
  <2> DEFINE w == WrittenTo(name, n - 1)
             d == Digits(name[n])
  <2>1. n \in 1 .. Len(name) /\ n \in Nat
    BY <1>1
  <2>2. WrittenTo(name, n) = w \o d
    BY NameSteps
  <2>3. /\ w \in Seq(0 .. 14) /\ Len(w) = 2 * n - 2
        /\ d \in Seq(0 .. 14) /\ Len(d) = 2
        /\ d[1] = name[n][1] /\ d[2] = name[n][2]
    <3>1. 2 * (n - 1) = 2 * n - 2
      BY <2>1
    <3> QED
      BY <1>2, <1>4, <2>1, <3>1
  <2>4. \A i \in 1 .. n - 1 : w[2 * i - 1] = name[i][1] /\ w[2 * i] = name[i][2]
    BY <1>4
  <2> HIDE DEF w, d
  <2>5. /\ w \o d \in Seq(0 .. 14) /\ Len(w \o d) = 2 * n
        /\ \A p \in 1 .. 2 * n : (w \o d)[p] = IF p <= 2 * n - 2 THEN w[p] ELSE d[p - (2 * n - 2)]
    <3>1. /\ w \o d \in Seq(0 .. 14) /\ Len(w \o d) = Len(w) + Len(d)
          /\ \A p \in 1 .. Len(w) + Len(d) : (w \o d)[p] = IF p <= Len(w) THEN w[p] ELSE d[p - Len(w)]
      BY <2>3, ConcatProperties
    <3>2. Len(w) + Len(d) = 2 * n
      BY <2>1, <2>3
    <3> QED
      BY <2>3, <3>1, <3>2
  <2>6. ASSUME NEW i \in 1 .. n
        PROVE  (w \o d)[2 * i - 1] = name[i][1] /\ (w \o d)[2 * i] = name[i][2]
    <3>1. 2 * i - 1 \in 1 .. 2 * n /\ 2 * i \in 1 .. 2 * n
      BY <2>1
    <3>2. CASE i = n
      <4>1. /\ ~(2 * i - 1 <= 2 * n - 2) /\ ~(2 * i <= 2 * n - 2)
            /\ 2 * i - 1 - (2 * n - 2) = 1 /\ 2 * i - (2 * n - 2) = 2
        BY <2>1, <3>2
      <4>2. (w \o d)[2 * i - 1] = d[1] /\ (w \o d)[2 * i] = d[2]
        BY <2>5, <3>1, <4>1
      <4> QED
        BY <2>3, <3>2, <4>2
    <3>3. CASE i # n
      <4>1. 2 * i - 1 <= 2 * n - 2 /\ 2 * i <= 2 * n - 2 /\ i \in 1 .. n - 1
        BY <2>1, <3>3
      <4>2. (w \o d)[2 * i - 1] = w[2 * i - 1] /\ (w \o d)[2 * i] = w[2 * i]
        BY <2>5, <3>1, <4>1
      <4> QED
        BY <2>4, <4>1, <4>2
    <3> QED
      BY <3>2, <3>3
  <2> QED
    BY <2>2, <2>5, <2>6
<1> HIDE DEF P
<1>5. 1 \in S
  BY <1>1, <1>3
<1>6. \A n \in 2 .. Len(name) : n - 1 \in S => n \in S
  BY <1>4
<1> HIDE DEF S
<1>7. 1 .. Len(name) \subseteq S
  BY <1>1, <1>5, <1>6, Induction
<1> QED
  BY <1>7 DEF S, P

\* Written is all of a name that fits into buf.
LEMMA WrittenFacts ==
  ASSUME NEW name \in Seq(Bytes), name # << >>
  PROVE  /\ ~Overruns(name) => Written(name) = WrittenTo(name, Len(name))
         /\ Written(name) \in Seq(0 .. 14) /\ Len(Written(name)) \in Nat
<1>1. Len(name) \in Nat \ {0} /\ Len(name) \in 1 .. Len(name)
  BY EmptySeq
<1>2. ~Overruns(name) => Written(name) = WrittenTo(name, Len(name))
  BY DEF Written, WrittenTo
<1>3. Overruns(name) => Written(name) = WrittenTo(name, BUF)
  BY DEF Written, WrittenTo
<1>4. Overruns(name) => BUF \in 1 .. Len(name)
  BY <1>1, NamesAssumption DEF Overruns
<1> QED
  BY <1>1, <1>2, <1>3, <1>4, NameFacts

\* Equal keys of plain names are keys of equal names.
LEMMA PlainInjective ==
  ASSUME NEW a \in Seq(Bytes), a # << >>, Plain(a), NEW b \in Seq(Bytes), b # << >>, Plain(b),
         ~Overruns(a), ~Overruns(b), Written(a) = Written(b)
  PROVE  a = b
<1>1. /\ Len(a) \in Nat \ {0} /\ Len(a) \in 1 .. Len(a)
      /\ Len(b) \in Nat \ {0} /\ Len(b) \in 1 .. Len(b)
  BY EmptySeq
<1> DEFINE w == Written(a)
<1>2. /\ Len(w) = 2 * Len(a)
      /\ \A i \in 1 .. Len(a) : w[2 * i - 1] = a[i][1] /\ w[2 * i] = a[i][2]
  <2> DEFINE v == WrittenTo(a, Len(a))
  <2>1. w = v
    BY WrittenFacts
  <2>2. /\ Len(v) = 2 * Len(a)
        /\ \A i \in 1 .. Len(a) : v[2 * i - 1] = a[i][1] /\ v[2 * i] = a[i][2]
    BY <1>1, PlainPositions
  <2> HIDE DEF v, w
  <2> QED
    BY <2>1, <2>2
<1>3. /\ Len(w) = 2 * Len(b)
      /\ \A i \in 1 .. Len(b) : w[2 * i - 1] = b[i][1] /\ w[2 * i] = b[i][2]
  <2> DEFINE v == WrittenTo(b, Len(b))
  <2>1. w = v
    BY WrittenFacts
  <2>2. /\ Len(v) = 2 * Len(b)
        /\ \A i \in 1 .. Len(b) : v[2 * i - 1] = b[i][1] /\ v[2 * i] = b[i][2]
    BY <1>1, PlainPositions
  <2> HIDE DEF v, w
  <2> QED
    BY <2>1, <2>2
<1> HIDE DEF w
<1>4. Len(a) = Len(b)
  BY <1>1, <1>2, <1>3
<1>5. ASSUME NEW i \in 1 .. Len(a)
      PROVE  a[i] = b[i]
  <2>1. a[i] \in Bytes /\ b[i] \in Bytes
    BY <1>4, ElementOfSeq
  <2>2. a[i][1] = b[i][1] /\ a[i][2] = b[i][2]
    BY <1>2, <1>3, <1>4
  <2>3. a[i] = <<a[i][1], a[i][2]>> /\ b[i] = <<b[i][1], b[i][2]>>
    BY <2>1 DEF Bytes
  <2> QED
    BY <2>2, <2>3
<1> QED
  BY <1>4, <1>5, SeqEqual

-----------------------------------------------------------------------------
(* What find_cgi asks for *)

Keep(x) == IF x = PERCENT THEN << >> ELSE <<x>>

\* ParseStr goes character by character.
LEMMA ParseSteps ==
  ASSUME NEW x \in Nat
  PROVE  /\ ParseStr(<<x>>) = Keep(x)
         /\ \A str \in Seq(Nat) : str # << >> => ParseStr(Append(str, x)) = ParseStr(str) \o Keep(x)
<1>1. ParseStr(<<x>>) = Keep(x)
  <2> DEFINE f == [i \in 1 .. 1 |-> Keep(<<x>>[i])]
  <2>1. Len(<<x>>) = 1 /\ f[1] = Keep(x) /\ f = [i \in 1 .. 1 |-> f[i]]
    OBVIOUS
  <2>2. f = [i \in 1 .. Len(<<x>>) |-> IF <<x>>[i] = PERCENT THEN << >> ELSE <<(<<x>>[i])>>]
    BY <2>1 DEF Keep
  <2> HIDE DEF f
  <2>3. FlattenSeq([i \in 1 .. 1 |-> f[i]]) = f[1]
    BY FlattenOne
  <2> QED
    BY <2>1, <2>2, <2>3 DEF ParseStr
<1>2. ASSUME NEW str \in Seq(Nat), str # << >>
      PROVE  ParseStr(Append(str, x)) = ParseStr(str) \o Keep(x)
  <2> DEFINE t == Append(str, x)
             m == Len(str)
             n == Len(t)
             f == [i \in 1 .. n |-> Keep(t[i])]
  <2>1. m \in Nat \ {0} /\ n = m + 1 /\ n \in Nat /\ t[n] = x /\ \A i \in 1 .. m : t[i] = str[i]
    BY <1>2, EmptySeq, AppendProperties
  <2>2. n \in 1 .. n /\ \A i \in 1 .. m : i \in 1 .. n
    BY <2>1
  <2> HIDE DEF t, m, n
  <2>3. f = [i \in 1 .. n |-> f[i]] /\ f[n] = Keep(x)
    BY <2>1, <2>2
  <2>4. [i \in 1 .. m |-> f[i]] = [i \in 1 .. m |-> Keep(str[i])]
    BY <2>1, <2>2
  <2>5. f = [i \in 1 .. Len(t) |-> IF t[i] = PERCENT THEN << >> ELSE <<t[i]>>]
    BY DEF Keep, n
  <2>6. [i \in 1 .. m |-> Keep(str[i])] = [i \in 1 .. Len(str) |-> IF str[i] = PERCENT THEN << >> ELSE <<str[i]>>]
    BY DEF Keep, m
  <2> HIDE DEF f
  <2>7. FlattenSeq([i \in 1 .. n |-> f[i]]) = FlattenSeq([i \in 1 .. m |-> f[i]]) \o f[n]
    BY <2>1, FlattenNext
  <2>8. ParseStr(t) = FlattenSeq([i \in 1 .. n |-> f[i]])
    BY <2>3, <2>5 DEF ParseStr
  <2>9. ParseStr(str) = FlattenSeq([i \in 1 .. m |-> f[i]])
    BY <2>4, <2>6 DEF ParseStr
  <2> QED
    BY <2>3, <2>7, <2>8, <2>9 DEF t
<1> QED
  BY <1>1, <1>2

\* Two and three elements at the end of a list.
LEMMA AppendTwice ==
  ASSUME NEW s \in Seq(Nat), NEW x \in Nat, NEW y \in Nat
  PROVE  s \o <<x, y>> = Append(Append(s, x), y)
  OBVIOUS

\* Likewise.
LEMMA AppendThrice ==
  ASSUME NEW s \in Seq(Nat), NEW x \in Nat, NEW y \in Nat, NEW z \in Nat
  PROVE  s \o <<x, y, z>> = Append(Append(Append(s, x), y), z)
  OBVIOUS

\* A list of three elements.
LEMMA ListOfThree ==
  ASSUME NEW x \in Nat, NEW y \in Nat, NEW z \in Nat
  PROVE  <<x, y, z>> = Append(Append(<<x>>, y), z)
  OBVIOUS

\* ParseStr drops a percent sign and copies two digits.
LEMMA ParseThree ==
  ASSUME NEW s \in Seq(Nat), s # << >>, ParseStr(s) \in Seq(Nat),
         NEW x \in Nat \ {PERCENT}, NEW y \in Nat \ {PERCENT}
  PROVE  ParseStr(Append(Append(s, x), y)) = ParseStr(s) \o <<x, y>>
<1> DEFINE t == Append(s, x)
           p == ParseStr(s)
<1>1. t \in Seq(Nat) /\ t # << >>
  BY AppendNotEmpty
<1>2. ParseStr(t) = p \o <<x>>
  BY ParseSteps DEF Keep
<1>3. p \o <<x>> = Append(p, x)
  BY AppendIsConcat
<1>4. Append(p, x) \in Seq(Nat)
  BY AppendProperties
<1> HIDE DEF t
<1>5. ParseStr(Append(t, y)) = ParseStr(t) \o <<y>>
  BY <1>1, ParseSteps DEF Keep
<1> HIDE DEF p
<1>6. Append(p, x) \o <<y>> = Append(Append(p, x), y)
  BY <1>4, AppendIsConcat
<1>7. p \o <<x, y>> = Append(Append(p, x), y)
  BY AppendTwice DEF p
<1> QED
  BY <1>2, <1>3, <1>5, <1>6, <1>7 DEF t, p

\* One byte more, and ParseStr shows one byte more.
LEMMA ParseByte ==
  ASSUME NEW str \in Seq(Nat), str # << >>, ParseStr(str) \in Seq(Nat), NEW b \in Bytes
  PROVE  /\ str \o Encode(b) \in Seq(Nat) /\ str \o Encode(b) # << >>
         /\ ParseStr(str \o Encode(b)) = ParseStr(str) \o Shown(b)
<1>1. CASE \E x \in Nat \ {PERCENT} : Encode(b) = <<x>> /\ Shown(b) = <<x>>
  <2>1. PICK x \in Nat \ {PERCENT} : Encode(b) = <<x>> /\ Shown(b) = <<x>>
    BY <1>1
  <2>2. str \o <<x>> = Append(str, x)
    BY AppendIsConcat
  <2>3. Append(str, x) \in Seq(Nat) /\ Append(str, x) # << >>
    BY AppendNotEmpty
  <2>4. ParseStr(Append(str, x)) = ParseStr(str) \o <<x>>
    BY ParseSteps DEF Keep
  <2> QED
    BY <2>1, <2>2, <2>3, <2>4
<1>2. CASE /\ Encode(b) = <<PERCENT, b[1], b[2]>> /\ Shown(b) = <<b[1], b[2]>>
           /\ b[1] \in 0 .. 15 /\ b[2] \in 0 .. 15
  <2> DEFINE x == b[1]
             y == b[2]
             s == Append(str, PERCENT)
             p == ParseStr(str)
  <2>1. PERCENT \in Nat /\ \A d \in 0 .. 15 : d \in Nat \ {PERCENT}
    BY DEF PERCENT
  <2>2. x \in Nat \ {PERCENT} /\ y \in Nat \ {PERCENT}
    BY <1>2, <2>1
  <2> HIDE DEF x, y
  <2>3. s \in Seq(Nat) /\ s # << >>
    BY <2>1, AppendNotEmpty
  <2>4. ParseStr(s) = p
    <3>1. ParseStr(s) = p \o << >>
      BY <2>1, ParseSteps DEF Keep
    <3> QED
      BY <3>1, ConcatEmptySeq
  <2>5. str \o <<PERCENT, x, y>> = Append(Append(s, x), y)
    <3>1. PERCENT \in Nat /\ x \in Nat /\ y \in Nat
      BY <2>1, <2>2
    <3> QED
      BY <3>1, AppendThrice
  <2>6. p \in Seq(Nat)
    OBVIOUS
  <2> HIDE DEF s, p
  <2>7. ParseStr(Append(Append(s, x), y)) = p \o <<x, y>>
    BY <2>2, <2>3, <2>4, <2>6, ParseThree
  <2>8. Append(Append(s, x), y) \in Seq(Nat) /\ Append(Append(s, x), y) # << >>
    <3> DEFINE t == Append(s, x)
    <3>1. t \in Seq(Nat) /\ y \in Nat
      BY <2>2, <2>3, AppendNotEmpty
    <3> HIDE DEF t
    <3>2. Append(t, y) \in Seq(Nat) /\ Append(t, y) # << >>
      BY <3>1, AppendNotEmpty
    <3> QED
      BY <3>2 DEF t
  <2> QED
    BY <1>2, <2>5, <2>7, <2>8 DEF x, y, p
<1> QED
  BY <1>1, <1>2, EncodeFacts

\* The first byte on its own.
LEMMA ParseFirst ==
  ASSUME NEW b \in Bytes
  PROVE  Encode(b) \in Seq(Nat) /\ Encode(b) # << >> /\ ParseStr(Encode(b)) = Shown(b)
<1>1. CASE \E x \in Nat \ {PERCENT} : Encode(b) = <<x>> /\ Shown(b) = <<x>>
  <2>1. PICK x \in Nat \ {PERCENT} : Encode(b) = <<x>> /\ Shown(b) = <<x>>
    BY <1>1
  <2>2. ParseStr(<<x>>) = <<x>>
    BY ParseSteps DEF Keep
  <2> QED
    BY <2>1, <2>2
<1>2. CASE /\ Encode(b) = <<PERCENT, b[1], b[2]>> /\ Shown(b) = <<b[1], b[2]>>
           /\ b[1] \in 0 .. 15 /\ b[2] \in 0 .. 15
  <2> DEFINE x == b[1]
             y == b[2]
             s == <<PERCENT>>
  <2>1. PERCENT \in Nat /\ \A d \in 0 .. 15 : d \in Nat \ {PERCENT}
    BY DEF PERCENT
  <2>2. x \in Nat \ {PERCENT} /\ y \in Nat \ {PERCENT}
    BY <1>2, <2>1
  <2> HIDE DEF x, y
  <2>3. s \in Seq(Nat) /\ s # << >>
    BY <2>1
  <2>4. ParseStr(s) = << >> /\ << >> \in Seq(Nat)
    BY <2>1, ParseSteps DEF Keep
  <2>5. <<PERCENT, x, y>> = Append(Append(s, x), y)
    BY <2>1, <2>2, ListOfThree
  <2>6. <<PERCENT, x, y>> \in Seq(Nat) /\ <<PERCENT, x, y>> # << >>
    BY <2>1, <2>2
  <2> HIDE DEF s
  <2>7. ParseStr(Append(Append(s, x), y)) = << >> \o <<x, y>>
    BY <2>2, <2>3, <2>4, ParseThree
  <2>8. << >> \o <<x, y>> = <<x, y>>
    BY <2>2, ConcatEmptySeq
  <2> QED
    BY <1>2, <2>5, <2>6, <2>7, <2>8 DEF x, y
<1> QED
  BY <1>1, <1>2, EncodeFacts

\* What find_cgi asks for is what is shown of the name's bytes.
LEMMA AskedIsShown ==
  ASSUME NEW name \in Seq(Bytes), name # << >>
  PROVE  Asked(name) = ShownTo(name, Len(name))
<1> DEFINE P(n) == /\ SentTo(name, n) \in Seq(Nat) /\ SentTo(name, n) # << >>
                   /\ ParseStr(SentTo(name, n)) = ShownTo(name, n)
           S == {n \in 1 .. Len(name) : P(n)}
<1>1. Len(name) \in Nat \ {0} /\ 1 \in 1 .. Len(name) /\ Len(name) \in 1 .. Len(name)
  BY EmptySeq
<1>2. \A n \in 1 .. Len(name) : name[n] \in Bytes
  BY ElementOfSeq
<1>3. P(1)
  BY <1>1, <1>2, NameSteps, ParseFirst
<1>4. ASSUME NEW n \in 2 .. Len(name), P(n - 1)
      PROVE  P(n)
  <2>1. n \in 1 .. Len(name) /\ n - 1 \in 1 .. Len(name)
    BY <1>1
  <2>2. SentTo(name, n) = SentTo(name, n - 1) \o Encode(name[n])
    BY NameSteps
  <2>3. ShownTo(name, n) = ShownTo(name, n - 1) \o Shown(name[n])
    BY NameSteps
  <2>4. ParseStr(SentTo(name, n - 1)) \in Seq(Nat)
    BY <1>4, <2>1, NameFacts
  <2>5. /\ SentTo(name, n - 1) \o Encode(name[n]) \in Seq(Nat)
        /\ SentTo(name, n - 1) \o Encode(name[n]) # << >>
        /\ ParseStr(SentTo(name, n - 1) \o Encode(name[n])) = ParseStr(SentTo(name, n - 1)) \o Shown(name[n])
    BY <1>2, <1>4, <2>1, <2>4, ParseByte
  <2> QED
    BY <1>4, <2>2, <2>3, <2>5
<1> HIDE DEF P
<1>5. 1 \in S
  BY <1>1, <1>3
<1>6. \A n \in 2 .. Len(name) : n - 1 \in S => n \in S
  BY <1>4
<1> HIDE DEF S
<1>7. 1 .. Len(name) \subseteq S
  BY <1>1, <1>5, <1>6, Induction
<1>8. P(Len(name))
  BY <1>1, <1>7 DEF S
<1> DEFINE sent == SentTo(name, Len(name))
           q == <<EQUALS>> \o sent
<1>9. QueryString(name) = q
  BY DEF QueryString, SentTo
<1>10. sent \in Seq(Nat) /\ ParseStr(sent) = ShownTo(name, Len(name))
  BY <1>8 DEF P
<1> HIDE DEF sent
<1>11. find(q) = sent
  <2>1. EQUALS \in Nat
    BY DEF EQUALS
  <2>2. /\ Len(q) = Len(sent) + 1 /\ q \in Seq(Nat) /\ q[1] = EQUALS /\ Len(sent) \in Nat
        /\ \A i \in 1 .. Len(sent) : q[i + 1] = sent[i]
    <3>1. <<EQUALS>> \in Seq(Nat) /\ Len(<<EQUALS>>) = 1 /\ <<EQUALS>>[1] = EQUALS /\ Len(sent) \in Nat
      BY <1>10, <2>1
    <3>2. /\ q \in Seq(Nat) /\ Len(q) = 1 + Len(sent)
          /\ \A i \in 1 .. 1 + Len(sent) : q[i] = IF i <= 1 THEN <<EQUALS>>[i] ELSE sent[i - 1]
      BY <1>10, <3>1, ConcatProperties
    <3> HIDE DEF q
    <3>3. q[1] = EQUALS
      <4>1. 1 \in 1 .. 1 + Len(sent)
        BY <3>1
      <4> QED
        BY <3>1, <3>2, <4>1
    <3>4. ASSUME NEW i \in 1 .. Len(sent)
          PROVE  q[i + 1] = sent[i]
      <4>1. i + 1 \in 1 .. 1 + Len(sent) /\ ~(i + 1 <= 1) /\ (i + 1) - 1 = i
        BY <3>1
      <4> QED
        BY <3>2, <4>1
    <3> QED
      BY <3>1, <3>2, <3>3, <3>4
  <2> HIDE DEF q
  <2>3. find(q) = SubSeq(q, 2, Len(q))
    <3> DEFINE I == {i \in 1 .. Len(q) : q[i] = EQUALS}
    <3>1. 1 \in I /\ \A i \in I : 1 <= i
      BY <2>2
    <3>2. \A i \in I : (\A j \in I : i <= j) => i = 1
      BY <3>1
    <3> HIDE DEF I
    <3>3. Min(I) = 1
      BY <3>1, <3>2 DEF Min
    <3> QED
      <4> DEFINE k == IF I # {} THEN Min(I) ELSE 0
      <4>1. k + 1 = 2
        BY <3>1, <3>3
      <4>2. find(q) = SubSeq(q, k + 1, Len(q))
        BY DEF find, SelectInSeq, I
      <4> HIDE DEF k
      <4> QED
        BY <4>1, <4>2
  <2>4. SubSeq(q, 2, Len(q)) = sent
    <3>1. \A i \in 2 .. Len(q) : q[i] \in Nat
      BY <2>2, ElementOfSeq
    <3>2. 2 \in Int /\ Len(q) \in Int /\ Len(q) - 2 + 1 = Len(sent)
      BY <2>2
    <3>3. /\ SubSeq(q, 2, Len(q)) \in Seq(Nat)
          /\ Len(SubSeq(q, 2, Len(q))) = IF 2 <= Len(q) THEN Len(q) - 2 + 1 ELSE 0
          /\ \A i \in 1 .. Len(q) - 2 + 1 : SubSeq(q, 2, Len(q))[i] = q[2 + i - 1]
      BY <3>1, <3>2, SubSeqProperties
    <3>4. Len(SubSeq(q, 2, Len(q))) = Len(sent)
      BY <2>2, <3>3
    <3>5. ASSUME NEW i \in 1 .. Len(sent)
          PROVE  SubSeq(q, 2, Len(q))[i] = sent[i]
      <4>1. 2 + i - 1 = i + 1
        OBVIOUS
      <4> QED
        BY <2>2, <3>2, <3>3, <4>1
    <3> QED
      BY <1>10, <3>3, <3>4, <3>5, SeqEqual
  <2> QED
    BY <2>3, <2>4
<1> QED
  BY <1>9, <1>10, <1>11 DEF Asked

-----------------------------------------------------------------------------
(* The invariant *)

Typed == listed \in Seq(Names) /\ cityname \in Seq(0 .. 14)

\* The buffer is as long as the longest name so far, and begins with the last.
Longest ==
  /\ \A j \in 1 .. Len(listed) : Len(Written(listed[j])) <= Len(cityname)
  /\ Len(cityname) = 0 \/ \E j \in 1 .. Len(listed) : Len(cityname) = Len(Written(listed[j]))

Begins ==
  listed # << >> =>
    \A k \in 1 .. Len(Written(listed[Len(listed)])) : cityname[k] = Written(listed[Len(listed)])[k]

\* On a page of plain names that never get shorter each entry has the key of
\* the name it points to, and each name an entry with its key.
Growing == \A i \in 1 .. Len(listed) : Plain(listed[i]) /\ NoShorterThanBefore(i)

Mapped ==
  Growing =>
    /\ \A e \in city_name_url : e.url \in 1 .. Len(listed) /\ e.key = Written(listed[e.url])
    /\ \A i \in 1 .. Len(listed) : \E e \in city_name_url : e.key = Written(listed[i])

IInv == Typed /\ Longest /\ Begins /\ Mapped

\* What the assumption says of a name.
LEMMA NameIs ==
  ASSUME NEW name \in Names
  PROVE  /\ name \in Seq(Bytes) /\ name # << >>
         /\ Written(name) \in Seq(0 .. 14) /\ Len(Written(name)) \in Nat
<1>1. name \in Seq(Bytes) /\ name # << >>
  BY NamesAssumption DEF Bytes
<1> QED
  BY <1>1, WrittenFacts

\* A plain name that fits into buf is written as it is asked for.
LEMMA PlainAsked ==
  ASSUME NEW name \in Names, Plain(name), ~Overruns(name)
  PROVE  Written(name) = Asked(name)
<1>1. name \in Seq(Bytes) /\ name # << >>
  BY NameIs
<1>2. Len(name) \in 1 .. Len(name)
  BY <1>1, EmptySeq
<1> QED
  BY <1>1, <1>2, PlainAgrees, AskedIsShown, WrittenFacts

\* The buffer after a name: the longer of the two lengths, and the name first.
LEMMA UncodeFacts ==
  ASSUME NEW name \in Names, NEW out \in Seq(0 .. 14)
  PROVE  /\ UncodeTostr(name, out) \in Seq(0 .. 14)
         /\ Len(out) \in Nat /\ Len(UncodeTostr(name, out)) \in Nat
         /\ Len(Written(name)) <= Len(UncodeTostr(name, out)) /\ Len(out) <= Len(UncodeTostr(name, out))
         /\ Len(UncodeTostr(name, out)) = Len(Written(name)) \/ Len(UncodeTostr(name, out)) = Len(out)
         /\ \A k \in 1 .. Len(Written(name)) : UncodeTostr(name, out)[k] = Written(name)[k]
<1> DEFINE w == Written(name)
           r == SubSeq(out, Len(w) + 1, Len(out))
<1>1. w \in Seq(0 .. 14) /\ Len(w) \in Nat
  BY NameIs
<1>2. Len(out) \in Nat /\ \A i \in 1 .. Len(out) : out[i] \in 0 .. 14
  BY LenProperties, ElementOfSeq
<1> HIDE DEF w
<1>3. /\ r \in Seq(0 .. 14)
      /\ Len(r) = IF Len(w) + 1 <= Len(out) THEN Len(out) - (Len(w) + 1) + 1 ELSE 0
  <2>1. Len(w) + 1 \in Int /\ Len(out) \in Int /\ \A i \in Len(w) + 1 .. Len(out) : out[i] \in 0 .. 14
    BY <1>1, <1>2
  <2> QED
    BY <2>1, SubSeqProperties
<1> HIDE DEF r
<1>4. /\ w \o r \in Seq(0 .. 14) /\ Len(w \o r) = Len(w) + Len(r)
      /\ \A i \in 1 .. Len(w) + Len(r) : (w \o r)[i] = IF i <= Len(w) THEN w[i] ELSE r[i - Len(w)]
  BY <1>1, <1>3, ConcatProperties
<1>5. Len(w) + Len(r) = IF Len(w) <= Len(out) THEN Len(out) ELSE Len(w)
  BY <1>1, <1>2, <1>3
<1>6. /\ Len(w \o r) \in Nat /\ Len(w) <= Len(w \o r) /\ Len(out) <= Len(w \o r)
      /\ Len(w \o r) = Len(w) \/ Len(w \o r) = Len(out)
  BY <1>1, <1>2, <1>4, <1>5
<1>7. ASSUME NEW k \in 1 .. Len(w)
      PROVE  (w \o r)[k] = w[k]
  <2>1. k \in 1 .. Len(w) + Len(r) /\ k <= Len(w)
    BY <1>1, <1>2, <1>5
  <2> QED
    BY <1>4, <2>1
<1>8. UncodeTostr(name, out) = w \o r
  BY DEF UncodeTostr, w, r
<1> QED
  BY <1>2, <1>4, <1>6, <1>7, <1>8 DEF w

\* If no longer name has come before, the buffer holds the last name alone.
LEMMA BufferIsLast ==
  ASSUME Typed, Longest, Begins, listed # << >>, NoShorterThanBefore(Len(listed))
  PROVE  cityname = Written(listed[Len(listed)])
<1> DEFINE name == listed[Len(listed)]
<1>1. Len(listed) \in Nat \ {0} /\ Len(listed) \in 1 .. Len(listed)
  BY EmptySeq DEF Typed
<1>2. \A j \in 1 .. Len(listed) : listed[j] \in Names
  BY ElementOfSeq DEF Typed
<1>3. Written(name) \in Seq(0 .. 14) /\ Len(Written(name)) \in Nat
  BY <1>1, <1>2, NameIs
<1>4. Len(cityname) \in Nat /\ Len(Written(name)) <= Len(cityname)
  BY <1>1, LenProperties DEF Typed, Longest
<1>5. Len(cityname) <= Len(Written(name))
  <2>1. CASE Len(cityname) = 0
    BY <1>3, <2>1
  <2>2. CASE \E j \in 1 .. Len(listed) : Len(cityname) = Len(Written(listed[j]))
    BY <2>2 DEF NoShorterThanBefore
  <2> QED
    BY <2>1, <2>2 DEF Longest
<1>6. Len(cityname) = Len(Written(name))
  BY <1>3, <1>4, <1>5
<1>7. \A k \in 1 .. Len(cityname) : cityname[k] = Written(name)[k]
  BY <1>6 DEF Begins
<1>8. cityname \in Seq(0 .. 14)
  BY DEF Typed
<1> HIDE DEF name
<1>9. cityname = Written(name)
  BY <1>3, <1>6, <1>7, <1>8, SeqEqual
<1> QED
  BY <1>9 DEF name

\* What is asked for of a name that is not plain: more characters than are
\* written, or a digit f, which is never written.
LEMMA UnplainAsked ==
  ASSUME NEW name \in Names, ~Overruns(name)
  PROVE  /\ HasAscii(name) => Len(Written(name)) < Len(Asked(name))
         /\ ~Plain(name) /\ ~HasAscii(name) => \E p \in 1 .. Len(Asked(name)) : Asked(name)[p] = 15
<1>1. name \in Seq(Bytes) /\ name # << >>
  BY NameIs
<1>2. Len(name) \in 1 .. Len(name)
  BY <1>1, EmptySeq
<1>3. Asked(name) = ShownTo(name, Len(name)) /\ Written(name) = WrittenTo(name, Len(name))
  BY <1>1, AskedIsShown, WrittenFacts
<1>4. HasAscii(name) => Len(Written(name)) < Len(Asked(name))
  <2>1. (\E i \in 1 .. Len(name) : IsAscii(name[i]))
          => Len(WrittenTo(name, Len(name))) < Len(ShownTo(name, Len(name)))
    BY <1>1, <1>2, NameFacts
  <2> QED
    BY <1>3, <2>1 DEF HasAscii
<1>5. ASSUME ~Plain(name), ~HasAscii(name)
      PROVE  \E p \in 1 .. Len(Asked(name)) : Asked(name)[p] = 15
  <2>1. \E i \in 1 .. Len(name) : ~IsAscii(name[i]) /\ (name[i][1] = 15 \/ name[i][2] = 15)
    BY <1>5 DEF Plain, HasAscii
  <2>2. \E p \in 1 .. Len(ShownTo(name, Len(name))) : ShownTo(name, Len(name))[p] = 15
    BY <1>1, <1>2, <2>1, FIsShown
  <2> QED
    BY <1>3, <2>2
<1> QED
  BY <1>4, <1>5

\* The key of the last name.
LEMMA KeyAgreesFromInv ==
  ASSUME Typed, Longest, Begins
  PROVE  KeyAgrees
<1> SUFFICES ASSUME listed # << >>, ~Overruns(listed[Len(listed)])
             PROVE  LET name == listed[Len(listed)]
                    IN  /\ NoShorterThanBefore(Len(listed)) => (cityname = Asked(name) <=> Plain(name))
                        /\ ~NoShorterThanBefore(Len(listed)) /\ cityname = Asked(name) => HasAscii(name)
  BY DEF KeyAgrees, HasRoom, Last
<1> DEFINE name == listed[Len(listed)]
<1>1. Len(listed) \in Nat \ {0} /\ Len(listed) \in 1 .. Len(listed)
  BY EmptySeq DEF Typed
<1>2. \A j \in 1 .. Len(listed) : listed[j] \in Names
  BY ElementOfSeq DEF Typed
<1>3. name \in Names /\ Len(Written(name)) \in Nat /\ ~Overruns(name)
  BY <1>1, <1>2, NameIs
<1>4. Len(cityname) \in Nat /\ Len(Written(name)) <= Len(cityname) /\ cityname \in Seq(0 .. 14)
  BY <1>1, LenProperties DEF Typed, Longest
<1>5. ASSUME NoShorterThanBefore(Len(listed))
      PROVE  cityname = Written(name)
  BY <1>5, BufferIsLast
<1>6. \A p \in 1 .. Len(cityname) : cityname[p] # 15
  <2>1. \A p \in 1 .. Len(cityname) : cityname[p] \in 0 .. 14
    BY <1>4, ElementOfSeq
  <2>2. 15 \notin 0 .. 14
    OBVIOUS
  <2> QED
    BY <2>1, <2>2
<1>7. ASSUME ~NoShorterThanBefore(Len(listed))
      PROVE  Len(Written(name)) < Len(cityname)
  <2>1. PICK j \in 1 .. Len(listed) : ~(Len(Written(listed[j])) <= Len(Written(name)))
    BY <1>7 DEF NoShorterThanBefore
  <2>2. Len(Written(listed[j])) \in Nat /\ Len(Written(listed[j])) <= Len(cityname)
    BY <1>2, NameIs DEF Longest
  <2> HIDE DEF name
  <2> QED
    BY <1>3, <1>4, <2>1, <2>2
<1> HIDE DEF name
<1>8. ASSUME cityname = Asked(name), ~HasAscii(name)
      PROVE  Plain(name)
  BY <1>3, <1>6, <1>8, UnplainAsked
<1>9. ASSUME cityname = Asked(name), Plain(name)
      PROVE  cityname = Written(name)
  BY <1>3, <1>9, PlainAsked
<1>10. ASSUME NoShorterThanBefore(Len(listed)), cityname = Asked(name)
       PROVE  Plain(name)
  <2>1. ~HasAscii(name)
    <3>1. ~(Len(Written(name)) < Len(Written(name)))
      BY <1>3
    <3>2. Written(name) = Asked(name)
      BY <1>5, <1>10
    <3> QED
      BY <1>3, <3>1, <3>2, UnplainAsked
  <2> QED
    BY <1>8, <1>10, <2>1
<1>11. ASSUME NoShorterThanBefore(Len(listed)), Plain(name)
       PROVE  cityname = Asked(name)
  BY <1>3, <1>5, <1>11, PlainAsked
<1>12. ASSUME ~NoShorterThanBefore(Len(listed)), cityname = Asked(name)
       PROVE  HasAscii(name)
  <2>1. SUFFICES ASSUME ~HasAscii(name) PROVE FALSE
    OBVIOUS
  <2>2. cityname = Written(name)
    BY <1>8, <1>9, <1>12, <2>1
  <2>3. ~(Len(cityname) < Len(cityname))
    BY <1>4
  <2> QED
    BY <1>7, <1>12, <2>2, <2>3
<1> QED
  BY <1>10, <1>11, <1>12 DEF name

\* The entries of the map.
LEMMA MapHonestFromInv ==
  ASSUME Typed, Mapped
  PROVE  MapHonest
<1> SUFFICES ASSUME Growing, \A j \in 1 .. Len(listed) : ~Overruns(listed[j]),
                    NEW i \in 1 .. Len(listed)
             PROVE  \E e \in city_name_url : e.key = Asked(listed[i]) /\ listed[e.url] = listed[i]
  BY DEF MapHonest, Growing, HasRoom
<1>1. \A j \in 1 .. Len(listed) : listed[j] \in Names /\ Plain(listed[j])
  BY ElementOfSeq DEF Typed, Growing
<1>2. PICK e \in city_name_url : e.key = Written(listed[i])
  BY DEF Mapped
<1>3. e.url \in 1 .. Len(listed) /\ e.key = Written(listed[e.url])
  BY DEF Mapped
<1>4. e.key = Asked(listed[i])
  BY <1>1, <1>2, PlainAsked
<1>5. listed[e.url] = listed[i]
  <2>1. /\ listed[e.url] \in Seq(Bytes) /\ listed[e.url] # << >> /\ Plain(listed[e.url])
        /\ listed[i] \in Seq(Bytes) /\ listed[i] # << >> /\ Plain(listed[i])
    BY <1>1, <1>3, NameIs
  <2> QED
    BY <1>2, <1>3, <2>1, PlainInjective
<1> QED
  BY <1>4, <1>5

-----------------------------------------------------------------------------
(* The steps and the theorems *)

\* Nothing is listed at first.
LEMMA InitInv == Init => IInv
<1> SUFFICES ASSUME Init
             PROVE  IInv
  OBVIOUS
<1>1. cityname = << >> /\ listed = << >> /\ city_name_url = {} /\ Len(cityname) = 0 /\ Len(listed) = 0
  BY EmptySeq DEF Init
<1>2. 1 .. Len(listed) = {}
  BY <1>1
<1>3. Typed
  BY <1>1, EmptySeq DEF Typed
<1>4. Longest /\ Begins /\ Mapped
  BY <1>1, <1>2 DEF Longest, Begins, Mapped
<1> QED
  BY <1>3, <1>4 DEF IInv

\* One name more on the page.
LEMMA StepInv ==
  ASSUME IInv, find_resource
  PROVE  IInv'
<1>1. PICK name \in Names : listed' = Append(listed, name) /\ cityname' = UncodeTostr(name, cityname)
  BY DEF find_resource
<1> DEFINE n == Len(listed)
           w == Written(name)
<1>2. listed \in Seq(Names) /\ cityname \in Seq(0 .. 14) /\ n \in Nat
  BY LenProperties DEF IInv, Typed
<1>3. /\ listed' \in Seq(Names) /\ Len(listed') = n + 1 /\ listed'[n + 1] = name
      /\ \A i \in 1 .. n : listed'[i] = listed[i]
  BY <1>1, <1>2, AppendProperties
<1>4. 1 .. n + 1 = (1 .. n) \cup {n + 1} /\ n + 1 \in 1 .. n + 1
  BY <1>2
<1>5. /\ cityname' \in Seq(0 .. 14) /\ Len(cityname) \in Nat /\ Len(cityname') \in Nat
      /\ Len(w) <= Len(cityname') /\ Len(cityname) <= Len(cityname')
      /\ Len(cityname') = Len(w) \/ Len(cityname') = Len(cityname)
      /\ \A k \in 1 .. Len(w) : cityname'[k] = w[k]
  BY <1>1, <1>2, UncodeFacts
<1>6. w \in Seq(0 .. 14) /\ Len(w) \in Nat
  BY NameIs
<1>7. \A j \in 1 .. n : listed[j] \in Names /\ Len(Written(listed[j])) \in Nat
  BY <1>2, ElementOfSeq, NameIs
<1>8. city_name_url' = MapInsert(cityname', n + 1)
  BY <1>3 DEF find_resource
<1>9. Longest /\ Mapped
  BY DEF IInv
<1> HIDE DEF n, w
<1>10. Typed'
  BY <1>3, <1>5 DEF Typed
<1>11. Longest'
  <2>1. ASSUME NEW j \in 1 .. Len(listed')
        PROVE  Len(Written(listed'[j])) <= Len(cityname')
    <3>1. CASE j = n + 1
      BY <1>3, <1>5, <3>1 DEF w
    <3>2. CASE j \in 1 .. n
      <4>1. Len(Written(listed[j])) <= Len(cityname) /\ Len(Written(listed[j])) \in Nat
        BY <1>7, <1>9, <3>2 DEF Longest, n
      <4>2. Len(Written(listed[j])) <= Len(cityname')
        BY <1>5, <4>1
      <4> QED
        BY <1>3, <3>2, <4>2
    <3> QED
      BY <1>3, <1>4, <3>1, <3>2
  <2>2. Len(cityname') = 0 \/ \E j \in 1 .. Len(listed') : Len(cityname') = Len(Written(listed'[j]))
    <3>1. CASE Len(cityname') = Len(w)
      BY <1>3, <1>4, <3>1 DEF w
    <3>2. CASE Len(cityname') = Len(cityname)
      <4>1. CASE Len(cityname) = 0
        BY <3>2, <4>1
      <4>2. CASE \E j \in 1 .. n : Len(cityname) = Len(Written(listed[j]))
        BY <1>3, <1>4, <3>2, <4>2
      <4> QED
        BY <1>9, <4>1, <4>2 DEF Longest, n
    <3> QED
      BY <1>5, <3>1, <3>2
  <2> QED
    BY <2>1, <2>2 DEF Longest
<1>12. Begins'
  BY <1>3, <1>5 DEF Begins, w
<1>13. Mapped'
  <2> SUFFICES ASSUME Growing'
               PROVE  /\ \A e \in city_name_url' : e.url \in 1 .. n + 1 /\ e.key = Written(listed'[e.url])
                      /\ \A i \in 1 .. n + 1 : \E e \in city_name_url' : e.key = Written(listed'[i])
    BY <1>3 DEF Mapped
  <2>1. \A i \in 1 .. n + 1 :
          /\ Plain(listed'[i])
          /\ \A j \in 1 .. i : Len(Written(listed'[j])) <= Len(Written(listed'[i]))
    BY <1>3 DEF Growing, NoShorterThanBefore
  <2>2. Growing
    <3> SUFFICES ASSUME NEW i \in 1 .. n
                 PROVE  /\ Plain(listed[i])
                        /\ \A j \in 1 .. i : Len(Written(listed[j])) <= Len(Written(listed[i]))
      BY DEF Growing, NoShorterThanBefore, n
    <3>1. i \in 1 .. n + 1 /\ 1 .. i \subseteq 1 .. n
      BY <1>2
    <3> QED
      BY <1>3, <2>1, <3>1
  <2>3. /\ \A e \in city_name_url : e.url \in 1 .. n /\ e.key = Written(listed[e.url])
        /\ \A i \in 1 .. n : \E e \in city_name_url : e.key = Written(listed[i])
    BY <1>9, <2>2 DEF Mapped, n
  <2>4. cityname' = w
    <3>1. Len(cityname') = Len(w)
      <4>1. CASE Len(cityname') = Len(w)
        BY <4>1
      <4>2. CASE Len(cityname') = Len(cityname)
        <5>1. CASE Len(cityname) = 0
          BY <1>5, <1>6, <4>2, <5>1
        <5>2. CASE \E j \in 1 .. n : Len(cityname) = Len(Written(listed[j]))
          <6>1. PICK j \in 1 .. n : Len(cityname) = Len(Written(listed[j]))
            BY <5>2
          <6>2. Len(Written(listed'[j])) <= Len(Written(listed'[n + 1]))
            BY <1>4, <2>1
          <6>3. Len(cityname) <= Len(w)
            BY <1>3, <6>1, <6>2 DEF w
          <6> QED
            BY <1>5, <1>6, <4>2, <6>3
        <5> QED
          BY <1>9, <5>1, <5>2 DEF Longest, n
      <4> QED
        BY <1>5, <4>1, <4>2
    <3> QED
      BY <1>5, <1>6, <3>1, SeqEqual
  <2>5. listed'[n + 1] = name /\ \A i \in 1 .. n : listed'[i] = listed[i] /\ i \in 1 .. n + 1
    BY <1>3, <1>4
  <2>6. CASE \E e \in city_name_url : e.key = w
    <3>1. city_name_url' = city_name_url
      BY <1>8, <2>4, <2>6 DEF MapInsert
    <3>2. \A e \in city_name_url : e.url \in 1 .. n + 1 /\ e.key = Written(listed'[e.url])
      BY <2>3, <2>5
    <3>3. \A i \in 1 .. n + 1 : \E e \in city_name_url : e.key = Written(listed'[i])
      BY <1>4, <2>3, <2>5, <2>6 DEF w
    <3> QED
      BY <3>1, <3>2, <3>3
  <2>7. CASE ~\E e \in city_name_url : e.key = w
    <3> DEFINE new == [key |-> w, url |-> n + 1]
    <3>1. city_name_url' = city_name_url \cup {new} /\ new.key = w /\ new.url = n + 1
      BY <1>8, <2>4, <2>7 DEF MapInsert
    <3> HIDE DEF new
    <3>2. \A e \in city_name_url' : e.url \in 1 .. n + 1 /\ e.key = Written(listed'[e.url])
      BY <1>4, <2>3, <2>5, <3>1 DEF w
    <3>3. \A i \in 1 .. n + 1 : \E e \in city_name_url' : e.key = Written(listed'[i])
      BY <1>4, <2>3, <2>5, <3>1 DEF w
    <3> QED
      BY <3>2, <3>3
  <2> QED
    BY <2>6, <2>7
<1> QED
  BY <1>10, <1>11, <1>12, <1>13 DEF IInv

\* The invariant holds throughout.
THEOREM Invariant == Spec => []IInv
<1>1. IInv /\ UNCHANGED vars => IInv'
  BY DEF IInv, vars, Typed, Longest, Begins, Mapped, Growing, NoShorterThanBefore
<1>2. IInv /\ OverrunCrashes => IInv'
  BY DEF OverrunCrashes, IInv, Typed, Longest, Begins, Mapped, Growing, NoShorterThanBefore
<1>3. IInv /\ [Next]_vars => IInv'
  BY <1>1, <1>2, StepInv DEF Next
<1> QED
  BY <1>3, InitInv, PTL DEF Spec

\* find_resource lists a city under the key a query asks for exactly if its
\* name is plain, as long as no longer name has come before it; after a longer
\* one only a name with ASCII characters can be found.  This is so for all
\* names that UncodeTostr's buf and find_cgi's str have room for, whatever
\* names come before them, and pages of any length.
THEOREM KeysAgree == Spec => []KeyAgrees
<1>1. IInv => KeyAgrees
  BY KeyAgreesFromInv DEF IInv
<1> QED
  BY <1>1, Invariant, PTL

\* If the names are plain, never get shorter and fit into the arrays of both
\* programs, find_resource gives every
\* city of the page an entry under the key a query asks for that leads to a
\* page of that name: insert drops an entry only for a city listed twice.
THEOREM MapIsHonest == Spec => []MapHonest
<1>1. IInv => MapHonest
  BY MapHonestFromInv DEF IInv
<1> QED
  BY <1>1, Invariant, PTL
=============================================================================
