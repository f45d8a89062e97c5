------------------------------- MODULE Codec --------------------------------
(***************************************************************************)
(* The fields of TL messages as src/src/core/outboundpkt.cpp writes and    *)
(* src/src/core/inboundpkt.cpp reads them.  A word is WordSize bytes, the  *)
(* least significant first; a long is a word like any other here.  A       *)
(* string has its length in one byte, or after the byte Long (0xfe) in the *)
(* rest of a word, and is filled up with zeros to whole words.             *)
(*                                                                         *)
(* A definition marked "Mistake" is a plausible bug of the code modelled by*)
(* the definition that follows it; no other definition uses it.            *)
(***************************************************************************)
EXTENDS Integers, Sequences

CONSTANTS
  Base,       \* number of byte values (256)
  WordSize    \* bytes in a word (4)

Long == Base - 2
WordsFor(n) == (n + WordSize - 1) \div WordSize
Repeat(byte, n) == [i \in 1..n |-> byte]

---------------------------------------------------------------------------
(* Writing. *)

\* Shifted(v)[i] is v without its i lowest bytes.
Shifted(v) ==
  LET rest[i \in 0..WordSize] == IF i = 0 THEN v ELSE rest[i - 1] \div Base
  IN rest
IsWord(v) == v \in Nat /\ Shifted(v)[WordSize] = 0
AppendInt(v) == [i \in 1..WordSize |-> Shifted(v)[i - 1] % Base]

\* Mistake: the longest short string is one byte longer.
AppendLongShort(s) ==
  LET head == IF Len(s) <= Long THEN <<Len(s)>> ELSE AppendInt((Base * Len(s)) + Long)
      used == Len(head) + Len(s)
  IN head \o s \o Repeat(0, (WordSize * WordsFor(used)) - used)
AppendCString(s) ==
  LET head == IF Len(s) < Long THEN <<Len(s)>> ELSE AppendInt((Base * Len(s)) + Long)
      used == Len(head) + Len(s)
  IN head \o s \o Repeat(0, (WordSize * WordsFor(used)) - used)

\* The bytes of a number; the length is rounded up before anything is written.
SerializeBignum(s) ==
  LET reqlen == IF Len(s) < Long THEN Len(s) + 1 ELSE Len(s) + WordSize
      head == IF Len(s) < Long THEN <<Len(s)>> ELSE AppendInt((Base * Len(s)) + Long)
  IN head \o s \o Repeat(0, (WordSize * WordsFor(reqlen)) - reqlen)

---------------------------------------------------------------------------
(* Reading.  A reader r has a memory mem of bytes, m_inPtr and m_inEnd in  *)
(* words (ptr, end), and the values got so far.  It is ok until the program*)
(* reads outside the memory or stops at an ASSERT; what happens then is not*)
(* followed.                                                               *)

\* Of the bytes of a word the highest, the last, comes first.
WordAt(mem, p) ==
  LET sum[i \in 0..WordSize] ==
        IF i = 0 THEN 0 ELSE mem[(p * WordSize) + ((WordSize + 1) - i)] + (Base * sum[i - 1])
  IN sum[WordSize]
InMemory(r, words) == (r.ptr + words) * WordSize <= Len(r.mem)
Astray(r) == [r EXCEPT !.ok = FALSE]
Got(r, v) == [r EXCEPT !.got = Append(@, v)]

\* Mistake: a string that ends at m_inEnd is not taken.
StrlenBefore(r, short, long) ==
  CASE short < Long /\ r.end > r.ptr + (short \div WordSize) + 1 -> short
    [] short = Long /\ long >= Long /\ r.end > r.ptr + WordsFor(long + WordSize) -> long
    [] OTHER -> -1
\* The length of a string, given the first byte and the others of its first word;
\* -1 if the string does not end in front of m_inEnd.
Strlen(r, short, long) ==
  CASE short < Long /\ r.end >= r.ptr + (short \div WordSize) + 1 -> short
    [] short = Long /\ long >= Long /\ r.end >= r.ptr + WordsFor(long + WordSize) -> long
    [] OTHER -> -1
PrefetchStrlen(r) ==
  IF r.ptr >= r.end THEN -1
  ELSE LET l == WordAt(r.mem, r.ptr) IN Strlen(r, l % Base, l \div Base)

\* Mistake: the words are counted without the byte of the length.
WordsWithoutLength(len) ==
  IF len < Long THEN WordsFor(len) ELSE WordsFor(len + WordSize)
\* The words a string of this length is read over; none for the length -1.
FetchStrWords(len) ==
  IF len < Long THEN 1 + (len \div WordSize) ELSE WordsFor(len + WordSize)
FetchStrFrom(p, len) ==
  IF len < Long THEN (p * WordSize) + 1 ELSE (p + 1) * WordSize

\* fetchInt asserts nothing in a release.
FetchInt(r) ==
  IF ~InMemory(r, 1) THEN Astray(r)
  ELSE Got([r EXCEPT !.ptr = @ + 1], WordAt(r.mem, r.ptr))

\* Of a string of length -1 the program takes the bytes up to the next zero: a
\* value no TL string has.
SomeString == <<Base>>
FetchStr(r, len, from) ==
  LET next == [r EXCEPT !.ptr = @ + FetchStrWords(len)]
  IN IF len = -1 THEN Got(next, SomeString)
     ELSE IF from + len > Len(r.mem) THEN Astray(r)
     ELSE Got(next, SubSeq(r.mem, from + 1, from + len))
FetchQString(r) ==
  IF r.ptr < r.end /\ ~InMemory(r, 1) THEN Astray(r)
  ELSE LET len == PrefetchStrlen(r) IN FetchStr(r, len, FetchStrFrom(r.ptr, len))

\* A vector: its constructor is checked, but the check goes on; of its elements
\* a constructor the program does not know stops it.
FetchVector(r, known) ==
  IF ~InMemory(r, 2) THEN Astray(r)
  ELSE LET n == WordAt(r.mem, r.ptr + 1)
           element(i) == WordAt(r.mem, r.ptr + 1 + i)
       IN IF ~InMemory(r, 2 + n) \/ \E i \in 1..n : element(i) \notin known THEN Astray(r)
          ELSE Got([r EXCEPT !.ptr = @ + 2 + n], [i \in 1..n |-> element(i)])

---------------------------------------------------------------------------
(* The reference: a string as TL defines it. *)

TLString(s) ==
  LET head == IF Len(s) < Long THEN 1 ELSE WordSize
      used == head + Len(s)
  IN [i \in 1..(WordSize * WordsFor(used)) |->
        IF i > used THEN 0
        ELSE IF i > head THEN s[i - head]
        ELSE IF Len(s) < Long THEN Len(s)
        ELSE IF i = 1 THEN Long
        ELSE Shifted(Len(s))[i - 2] % Base]
=============================================================================
