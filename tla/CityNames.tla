----------------------------- MODULE CityNames ------------------------------
(***************************************************************************)
(* The two spellings of a city's name that have to agree: the one under    *)
(* which find_resource of weather.cpp lists the city, and the one find_cgi *)
(* makes of what the browser sends.  Both are hexadecimal digits of the    *)
(* name's bytes.  Each program has an array that a long name overruns:     *)
(* what it then does is not defined.                                       *)
(*                                                                         *)
(* A name is a sequence of bytes, a byte a pair of digits.  A character of *)
(* a key or of a query is a number: 0 .. 15 for 0 .. 9 and A .. F, whether *)
(* they spell a byte or stand for themselves, and others for the rest.     *)
(***************************************************************************)
EXTENDS Integers, Sequences, SequencesExt, FiniteSetsExt

CONSTANTS
  Names,    \* the names that may stand in the page
  CITIES,   \* find_resource stops after so many (2564 in the code)
  BUF,      \* UncodeTostr has room for so many bytes (20 in the code)
  STR       \* the size of str in find_cgi (33 in the code)

PERCENT == 16
EQUALS == 17
PLUS == 18
Blank == <<2, 0>>
IsAscii(byte) == byte[1] < 8

ASSUME NamesAssumption ==
  /\ \A n \in Names : n \in Seq((0 .. 15) \X (0 .. 15)) /\ n # << >>
  /\ CITIES \in Nat \ {0} /\ BUF \in Nat \ {0} /\ STR \in Nat

VARIABLES
  cityname,        \* the buffer UncodeTostr writes to, up to its first NUL
  listed,          \* the names read so far, in the order of the page
  city_name_url,   \* the map: [key, url], url being the place in the list
  crashed          \* a name that overran buf has ended the crawler

vars == <<cityname, listed, city_name_url, crashed>>

-----------------------------------------------------------------------------
(* weather.cpp *)

NotF(digit) == IF digit = 15 THEN << >> ELSE <<digit>>

\* Mutant: the loop over the characters of buf[i] ends one too early.
Digits_OneShort(byte) == IF IsAscii(byte) THEN << >> ELSE NotF(byte[1])
\* What UncodeTostr writes for a byte.  %x prints a negative char with eight
\* digits, of which every f is left out, the byte's own too; a shorter
\* number, that of an ASCII character, is left out entirely.
Digits(byte) == IF IsAscii(byte) THEN << >> ELSE NotF(byte[1]) \o NotF(byte[2])

\* sprintf writes behind buf, while the loop after it reads all of buf and
\* no more.
Overruns(name) == Len(name) > BUF

Written(name) == FlattenSeq([i \in 1 .. IF Overruns(name) THEN BUF ELSE Len(name) |-> Digits(name[i])])

\* UncodeTostr overwrites the beginning of out and ends it nowhere.
UncodeTostr(in, out) == Written(in) \o SubSeq(out, Len(Written(in)) + 1, Len(out))

\* insert keeps the entry that is already there.
MapInsert(key, url) ==
  IF \E e \in city_name_url : e.key = key THEN city_name_url
  ELSE city_name_url \cup {[key |-> key, url |-> url]}

Init ==
  /\ cityname = << >>
  /\ listed = << >>
  /\ city_name_url = {}
  /\ crashed = FALSE

\* One turn of find_resource's loop.  A name that overruns buf may do so
\* without touching anything in use.
find_resource ==
  /\ ~crashed
  /\ Len(listed) < CITIES
  /\ \E name \in Names :
       /\ listed' = Append(listed, name)
       /\ cityname' = UncodeTostr(name, cityname)
  /\ city_name_url' = MapInsert(cityname', Len(listed'))
  /\ UNCHANGED crashed

\* Or it overwrites what UncodeTostr needs to return.
OverrunCrashes ==
  /\ ~crashed
  /\ Len(listed) < CITIES
  /\ \E name \in Names : Overruns(name)
  /\ crashed' = TRUE
  /\ UNCHANGED <<cityname, listed, city_name_url>>

Next == find_resource \/ OverrunCrashes

Spec == Init /\ [][Next]_vars

-----------------------------------------------------------------------------
(* The browser and find_cgi.cpp *)

\* A character of the field that is sent as it is: 0 .. 9 and A .. F look
\* like the digits of a byte, a .. f do not.
Char(code) ==
  CASE code \in 48 .. 57 -> code - 48
    [] code \in 65 .. 70 -> code - 55
    [] OTHER             -> code + 32

\* Letters, digits and * - . _ are sent as they are.
SentAsIs(code) == code \in (48 .. 57) \cup (65 .. 90) \cup (97 .. 122) \cup {42, 45, 46, 95}

\* How a form field is sent: a blank as +, what is not sent as it is as %
\* and two digits.
Encode(byte) ==
  LET code == 16 * byte[1] + byte[2]
  IN  IF byte = Blank THEN <<PLUS>>
      ELSE IF SentAsIs(code) THEN <<Char(code)>>
      ELSE <<PERCENT, byte[1], byte[2]>>

QueryString(name) == <<EQUALS>> \o FlattenSeq([i \in 1 .. Len(name) |-> Encode(name[i])])

\* Everything after the first "=", copied to str.
find(data_string) == SubSeq(data_string, SelectInSeq(data_string, LAMBDA x : x = EQUALS) + 1, Len(data_string))

\* strcpy stays inside str, its NUL included.
Fits(name) == Len(find(QueryString(name))) < STR

\* The characters but for the percent signs.
ParseStr(str) == FlattenSeq([i \in 1 .. Len(str) |-> IF str[i] = PERCENT THEN << >> ELSE <<str[i]>>])

Asked(name) == ParseStr(find(QueryString(name)))

-----------------------------------------------------------------------------
(* Properties *)

\* No ASCII, and no digit f.
Plain(name) == \A i \in 1 .. Len(name) : ~IsAscii(name[i]) /\ name[i][1] # 15 /\ name[i][2] # 15

NoShorterThanBefore(i) == \A j \in 1 .. i : Len(Written(listed[j])) <= Len(Written(listed[i]))

HasAscii(name) == \E i \in 1 .. Len(name) : IsAscii(name[i])

\* Both programs have room for the name.
HasRoom(name) == ~Overruns(name) /\ Fits(name)

\* If no longer name has come before it, a city is listed under the key that
\* a user's query asks for exactly if its name is plain.  After a longer one
\* it is not, since the buffer is reused without being cleared and what is
\* left of the longer name becomes part of the key; the one exception is a
\* name with ASCII characters, which UncodeTostr leaves out, and for which
\* the rest of the longer name may happen to stand in.  All this is said of
\* names both programs have room for, the plain ones of up to ten bytes with
\* the sizes of the code: for others what find_cgi asks for is not defined.
KeyAgrees ==
  listed # << >> /\ HasRoom(Last(listed)) =>
    LET name == Last(listed)
        agrees == cityname = Asked(name)
    IN  /\ NoShorterThanBefore(Len(listed)) => (agrees <=> Plain(name))
        /\ ~NoShorterThanBefore(Len(listed)) /\ agrees => HasAscii(name)

\* On a page of plain names that never get shorter, and that both programs
\* have room for, every city is listed under the key that is asked for, with
\* its own page, although the map keeps only the first of equal keys.
MapHonest ==
  (\A i \in 1 .. Len(listed) : Plain(listed[i]) /\ HasRoom(listed[i]) /\ NoShorterThanBefore(i)) =>
    \A i \in 1 .. Len(listed) :
      \E e \in city_name_url : e.key = Asked(listed[i]) /\ listed[e.url] = listed[i]
=============================================================================
