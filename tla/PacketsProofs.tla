--------------------------- MODULE PacketsProofs ---------------------------
(***************************************************************************)
(* Proofs about Packets: for any width of bytes and words, any queries and *)
(* any messages the server may write, however they are cut into pieces.    *)
(*                                                                         *)
(* The handlers are followed twice: whatever stands in the memory, they    *)
(* only go on, tell the program more and take queries off the table        *)
(* (Onward, Handled); and where an item stands as the server writes it,    *)
(* they read just that item and tell it (After, Did).  PacketsIInv then    *)
(* follows the messages from the server to the program.                    *)
(***************************************************************************)
EXTENDS Packets, ConnectionProofs, NaturalsInduction, WellFoundedInduction

---------------------------------------------------------------------------
(* Counting up. *)

\* What holds of 0, and of every number if of the one before, holds of all.
LEMMA Counting ==
  ASSUME NEW n \in Nat, NEW P, 0 \in P, \A i \in 1..n : i - 1 \in P => i \in P
  PROVE  \A i \in 0..n : i \in P
<1> DEFINE R == {ss \in Nat \X Nat : ss[1] < ss[2]}
           Bad == {i \in 0..n : i \notin P}
<1>1. IsWellFoundedOn(R, Nat)
  BY NatLessThanWellFounded DEF OpToRel
<1>2. Bad \subseteq Nat
  OBVIOUS
<1> HIDE DEF R
<1>3. SUFFICES ASSUME Bad # {} PROVE FALSE
  OBVIOUS
<1>4. PICK x \in Bad : \A y \in Bad : ~ (<<y, x>> \in R)
  <2> HIDE DEF Bad
  <2> QED
    BY <1>1, <1>2, <1>3, WFMin
<1>5. \A y \in Bad : ~ (y < x)
  BY <1>2, <1>4 DEF R
<1>6. x \in 1..n /\ x - 1 \in P
  BY <1>5
<1> QED
  BY <1>6

\* g is what n steps of F make of v, one after the other.
Iterated(n, D, v, F, g) ==
  g \in [0..n -> D] /\ g[0] = v /\ \A i \in 1..n : g[i] = F[i][g[i - 1]]

\* Steps of a function can be repeated.
LEMMA Iterates ==
  ASSUME NEW n \in Nat, NEW D, NEW v \in D, NEW F \in [1..n -> [D -> D]]
  PROVE  \E g : Iterated(n, D, v, F, g)
<1> DEFINE Runs(g, m) == g[0] = v /\ \A i \in 1..m : g[i] = F[i][g[i - 1]]
           P == {m \in 0..n : \E g \in [0..m -> D] : Runs(g, m)}
<1>1. 0 \in P
  <2>1. Runs([i \in 0..0 |-> v], 0) /\ [i \in 0..0 |-> v] \in [0..0 -> D]
    OBVIOUS
  <2>2. \E g \in [0..0 -> D] : Runs(g, 0)
    BY <2>1
  <2> QED
    BY <2>2
<1>2. ASSUME NEW m \in 1..n, m - 1 \in P PROVE m \in P
  <2>1. PICK g \in [0..(m - 1) -> D] : Runs(g, m - 1)
    BY <1>2
  <2>2. PICK h : h = [i \in 0..m |-> IF i = m THEN F[m][g[m - 1]] ELSE g[i]]
    OBVIOUS
  <2>3. g[m - 1] \in D /\ F[m][g[m - 1]] \in D
    OBVIOUS
  <2>4. h \in [0..m -> D]
    BY <2>2, <2>3
  <2>5. h[0] = v /\ \A i \in 1..m : h[i] = F[i][h[i - 1]]
    <3>1. h[0] = g[0]
      BY <2>2
    <3>2. ASSUME NEW i \in 1..m PROVE h[i] = F[i][h[i - 1]]
      <4>1. h[i - 1] = g[i - 1]
        BY <2>2
      <4>2. CASE i = m
        BY <2>2, <4>1, <4>2
      <4>3. CASE i # m
        BY <2>1, <2>2, <4>1, <4>3
      <4> QED
        BY <4>2, <4>3
    <3> QED
      BY <2>1, <3>1, <3>2
  <2>6. \E f \in [0..m -> D] : Runs(f, m)
    BY <2>4, <2>5
  <2>7. m \in 0..n
    OBVIOUS
  <2> HIDE DEF Runs
  <2> QED
    BY <2>6, <2>7
<1>3. \A m \in 0..n : m \in P
  <2> HIDE DEF P
  <2> QED
    BY <1>1, <1>2, Counting
<1>4. n \in P
  BY <1>3
<1>5. PICK g \in [0..n -> D] : Runs(g, n)
  BY <1>4
<1> QED
  BY <1>5 DEF Iterated

---------------------------------------------------------------------------
(* Words. *)

\* The sizes of bytes and words.
LEMMA Sizes ==
  /\ Base \in Nat /\ Base > 1 /\ WordSize \in Nat /\ WordSize > 0
  /\ Long \in Nat /\ Long = Base - 2 /\ Byte = 0..(Base - 1)
BY FramingAssumption DEF Long, Byte

\* Shifted is what it is meant to be.
LEMMA ShiftedIs ==
  ASSUME NEW v \in Nat
  PROVE  /\ Shifted(v) \in [0..WordSize -> Nat] /\ Shifted(v)[0] = v
         /\ \A i \in 1..WordSize : Shifted(v)[i] = Shifted(v)[i - 1] \div Base
<1> DEFINE Next1(f) == [i \in 0..WordSize |-> IF i = 0 THEN v ELSE f[i - 1] \div Base]
<1>0. PICK D : D = Nat
  OBVIOUS
<1>1. PICK F : F = [i \in 1..WordSize |-> [x \in D |-> x \div Base]]
  OBVIOUS
<1>2. F \in [1..WordSize -> [D -> D]]
  <2>1. \A x \in D : x \div Base \in D
    BY <1>0, Sizes, Division
  <2> QED
    BY <1>1, <2>1
<1>3. PICK g \in [0..WordSize -> D] : g[0] = v /\ \A i \in 1..WordSize : g[i] = F[i][g[i - 1]]
  <2>1. WordSize \in Nat /\ v \in D
    BY <1>0, Sizes
  <2>2. PICK g : Iterated(WordSize, D, v, F, g)
    BY <1>2, <2>1, Iterates
  <2> QED
    BY <2>2 DEF Iterated
<1>4. \A i \in 1..WordSize : g[i] = g[i - 1] \div Base
  <2> TAKE i \in 1..WordSize
  <2>1. i - 1 \in 0..WordSize
    BY Sizes
  <2>2. F[i][g[i - 1]] = g[i - 1] \div Base
    BY <1>1, <2>1
  <2> QED
    BY <1>3, <2>2
<1>5. g = Next1(g)
  <2>1. \A i \in 0..WordSize : g[i] = Next1(g)[i]
    BY <1>0, <1>3, <1>4, Sizes
  <2>2. g = [i \in 0..WordSize |-> g[i]]
    BY <1>3
  <2> QED
    BY <2>1, <2>2
<1>6. Shifted(v) = CHOOSE f : f = Next1(f)
  BY DEF Shifted
<1>7. Shifted(v) = Next1(Shifted(v))
  BY <1>5, <1>6
<1>8. DOMAIN Shifted(v) = 0..WordSize /\ Shifted(v)[0] = v
  BY <1>7, Sizes
<1>9. \A i \in 1..WordSize : Shifted(v)[i] = Shifted(v)[i - 1] \div Base
  <2> TAKE i \in 1..WordSize
  <2>1. i \in 0..WordSize /\ i # 0
    BY Sizes
  <2>2. Next1(Shifted(v))[i] = Shifted(v)[i - 1] \div Base
    BY <2>1
  <2> QED
    BY <1>7, <2>2
<1>10. \A i \in 0..WordSize : Shifted(v)[i] = g[i]
  <2> DEFINE P == {j \in 0..WordSize : Shifted(v)[j] = g[j]}
  <2>1. 0 \in P
    BY <1>3, <1>8, Sizes
  <2>2. ASSUME NEW i \in 1..WordSize, i - 1 \in P PROVE i \in P
    BY <1>4, <1>9, <2>2
  <2>3. \A i \in 0..WordSize : i \in P
    <3> HIDE DEF P
    <3> QED
      BY <2>1, <2>2, Sizes, Counting
  <2> QED
    BY <2>3
<1>11. Shifted(v) = [i \in 0..WordSize |-> Shifted(v)[i]]
  BY <1>7
<1> QED
  BY <1>0, <1>8, <1>9, <1>10, <1>11

\* What appendInt writes.
LEMMA IntWritten ==
  ASSUME NEW v \in Nat
  PROVE  /\ AppendInt(v) \in Seq(Byte) /\ Len(AppendInt(v)) = WordSize
         /\ \A i \in 1..WordSize : AppendInt(v)[i] = Shifted(v)[i - 1] % Base
<1>1. \A i \in 1..WordSize : Shifted(v)[i - 1] \in Nat
  BY Sizes, ShiftedIs
<1>2. \A i \in 1..WordSize : Shifted(v)[i - 1] % Base \in Byte
  BY <1>1, Sizes, Division
<1>3. AppendInt(v) = [i \in 1..WordSize |-> Shifted(v)[i - 1] % Base]
  BY DEF AppendInt
<1>4. AppendInt(v) \in [1..WordSize -> Byte]
  BY <1>2, <1>3
<1> QED
  BY <1>3, <1>4, Sizes

\* The sums of which the last is a word: its bytes from the highest down.
Summed(mem, p, s) ==
  /\ s \in [0..WordSize -> Nat] /\ s[0] = 0
  /\ \A i \in 1..WordSize : s[i] = mem[(p * WordSize) + ((WordSize + 1) - i)] + (Base * s[i - 1])

\* A word is read byte by byte from its last, as it is summed.
LEMMA WordAtIs ==
  ASSUME NEW mem, NEW p \in Nat, \A i \in 1..WordSize : mem[(p * WordSize) + i] \in Byte
  PROVE  \E s : Summed(mem, p, s) /\ WordAt(mem, p) = s[WordSize]
<1> DEFINE Next1(f) == [i \in 0..WordSize |->
                          IF i = 0 THEN 0
                          ELSE mem[(p * WordSize) + ((WordSize + 1) - i)] + (Base * f[i - 1])]
           Byte1(i) == mem[(p * WordSize) + ((WordSize + 1) - i)]
<1>0. PICK D : D = Nat
  OBVIOUS
<1>1. PICK F : F = [i \in 1..WordSize |-> [x \in D |-> Byte1(i) + (Base * x)]]
  OBVIOUS
<1>2. \A i \in 1..WordSize : Byte1(i) \in Nat
  <2> TAKE i \in 1..WordSize
  <2>1. PICK j : j = (WordSize + 1) - i
    OBVIOUS
  <2>2. j \in 1..WordSize
    BY <2>1, Sizes
  <2>3. Byte1(i) = mem[(p * WordSize) + j]
    BY <2>1
  <2>4. mem[(p * WordSize) + j] \in Byte
    BY <2>2
  <2> QED
    BY <2>3, <2>4, Sizes
<1>3. F \in [1..WordSize -> [D -> D]]
  <2>1. \A i \in 1..WordSize : \A x \in D : Byte1(i) + (Base * x) \in D
    <3> HIDE DEF Byte1
    <3> QED
      BY <1>0, <1>2, Sizes
  <2> HIDE DEF Byte1
  <2> QED
    BY <1>1, <2>1
<1>4. PICK s : Iterated(WordSize, D, 0, F, s)
  <2>1. WordSize \in Nat /\ 0 \in D
    BY <1>0, Sizes
  <2> QED
    BY <1>3, <2>1, Iterates
<1>5. s \in [0..WordSize -> D] /\ s[0] = 0 /\ \A i \in 1..WordSize : s[i] = F[i][s[i - 1]]
  BY <1>4 DEF Iterated
<1>6. \A i \in 1..WordSize : s[i] = Byte1(i) + (Base * s[i - 1])
  <2> TAKE i \in 1..WordSize
  <2>1. i - 1 \in 0..WordSize
    BY Sizes
  <2>2. s[i - 1] \in D
    BY <1>5, <2>1
  <2>3. F[i][s[i - 1]] = Byte1(i) + (Base * s[i - 1])
    <3> HIDE DEF Byte1
    <3> QED
      BY <1>1, <2>2
  <2> QED
    BY <1>5, <2>3
<1>7. WordAt(mem, p) = (CHOOSE f : f = Next1(f))[WordSize]
  BY DEF WordAt
<1>8. PICK h : h = (CHOOSE f : f = Next1(f)) /\ h = Next1(h)
  <2>1. \A i \in 0..WordSize : s[i] = Next1(s)[i]
    <3> TAKE i \in 0..WordSize
    <3>1. CASE i = 0
      BY <1>5, <3>1
    <3>2. CASE i # 0
      BY <1>6, <3>2, Sizes
    <3> QED
      BY <3>1, <3>2
  <2>2. s = Next1(s)
    BY <1>5, <2>1
  <2> HIDE DEF Next1
  <2>3. \E f : f = Next1(f)
    BY <2>2
  <2> QED
    BY <2>3
<1>9. h[0] = 0 /\ \A i \in 1..WordSize : h[i] = Byte1(i) + (Base * h[i - 1])
  <2>1. 0 \in 0..WordSize /\ Next1(h)[0] = 0
    BY Sizes
  <2>2. \A i \in 1..WordSize : Next1(h)[i] = Byte1(i) + (Base * h[i - 1])
    BY Sizes
  <2> HIDE DEF Next1
  <2> QED
    BY <1>8, <2>1, <2>2
<1>10. \A i \in 0..WordSize : h[i] = s[i]
  <2> DEFINE P == {i \in 0..WordSize : h[i] = s[i]}
  <2>1. 0 \in P
    BY <1>5, <1>9, Sizes
  <2>2. ASSUME NEW i \in 1..WordSize, i - 1 \in P PROVE i \in P
    <3> HIDE DEF Byte1
    <3> QED
      BY <1>6, <1>9, <2>2
  <2>3. \A i \in 0..WordSize : i \in P
    <3> HIDE DEF P
    <3> QED
      BY <2>1, <2>2, Sizes, Counting
  <2> QED
    BY <2>3
<1>11. WordAt(mem, p) = s[WordSize]
  <2>1. WordSize \in 0..WordSize
    BY Sizes
  <2>2. h[WordSize] = s[WordSize]
    BY <1>10, <2>1
  <2> HIDE DEF Next1
  <2> QED
    BY <1>7, <1>8, <2>2
<1>12. Summed(mem, p, s)
  BY <1>0, <1>5, <1>6 DEF Summed
<1> QED
  BY <1>11, <1>12

\* A word that was written is read as it was.
LEMMA ReadBack ==
  ASSUME NEW mem, NEW p \in Nat, NEW v, IsWord(v),
         \A i \in 1..WordSize : mem[(p * WordSize) + i] = AppendInt(v)[i]
  PROVE  WordAt(mem, p) = v
<1>1. v \in Nat /\ Shifted(v)[WordSize] = 0
  BY DEF IsWord
<1>2. \A i \in 1..WordSize : mem[(p * WordSize) + i] \in Byte
  <2>1. \A i \in 1..WordSize : AppendInt(v)[i] \in Byte
    BY <1>1, IntWritten
  <2> QED
    BY <2>1
<1>3. PICK s : Summed(mem, p, s) /\ WordAt(mem, p) = s[WordSize]
  BY <1>2, WordAtIs
<1>4. PICK f : f = Shifted(v)
  OBVIOUS
<1>5. /\ f \in [0..WordSize -> Nat] /\ f[0] = v /\ f[WordSize] = 0
      /\ \A i \in 1..WordSize : f[i] = f[i - 1] \div Base
  BY <1>1, <1>4, ShiftedIs
<1>6. s[0] = 0 /\ \A i \in 1..WordSize : s[i] = mem[(p * WordSize) + ((WordSize + 1) - i)] + (Base * s[i - 1])
  BY <1>3 DEF Summed
<1>7. \A i \in 0..WordSize : s[i] = f[WordSize - i]
  <2> DEFINE P == {i \in 0..WordSize : s[i] = f[WordSize - i]}
  <2>1. 0 \in P
    BY <1>5, <1>6, Sizes
  <2>2. ASSUME NEW i \in 1..WordSize, i - 1 \in P PROVE i \in P
    <3>1. PICK j : j = (WordSize + 1) - i
      OBVIOUS
    <3>2. j \in 1..WordSize /\ WordSize - i = j - 1 /\ WordSize - (i - 1) = j
      BY <3>1, Sizes
    <3>3. mem[(p * WordSize) + j] = f[j - 1] % Base
      BY <1>1, <1>4, <3>2, IntWritten
    <3>4. f[j - 1] \in Nat /\ f[j] = f[j - 1] \div Base
      <4>1. j - 1 \in 0..WordSize
        BY <3>2, Sizes
      <4> QED
        BY <1>5, <3>2, <4>1
    <3>5. f[j - 1] = (Base * (f[j - 1] \div Base)) + (f[j - 1] % Base)
      BY <3>4, Sizes, Division
    <3>6. s[i - 1] = f[j]
      BY <2>2, <3>2
    <3>7. s[i] = (f[j - 1] % Base) + (Base * f[j])
      BY <1>6, <3>1, <3>3, <3>6
    <3>8. s[i] = f[j - 1]
      BY <3>4, <3>5, <3>7, Sizes
    <3> QED
      BY <3>2, <3>8
  <2>3. \A i \in 0..WordSize : i \in P
    <3> HIDE DEF P
    <3> QED
      BY <2>1, <2>2, Sizes, Counting
  <2> QED
    BY <2>3
<1> QED
  BY <1>3, <1>5, <1>7, Sizes

\* A word of bytes is a number, and its first byte the lowest.
LEMMA WordRead ==
  ASSUME NEW mem, NEW p \in Nat, \A i \in 1..WordSize : mem[(p * WordSize) + i] \in Byte
  PROVE  WordAt(mem, p) \in Nat /\ WordAt(mem, p) % Base = mem[(p * WordSize) + 1]
<1>1. PICK s : Summed(mem, p, s) /\ WordAt(mem, p) = s[WordSize]
  BY WordAtIs
<1>2. PICK w, b, l : w = s[WordSize - 1] /\ b = mem[(p * WordSize) + 1] /\ l = s[WordSize]
  OBVIOUS
<1>3. w \in Nat /\ l \in Nat
  BY <1>1, <1>2, Sizes DEF Summed
<1>4. b \in 0..(Base - 1)
  BY <1>2, Sizes
<1>5. l = b + (Base * w)
  <2>1. s[WordSize] = mem[(p * WordSize) + ((WordSize + 1) - WordSize)] + (Base * s[WordSize - 1])
    BY <1>1, Sizes DEF Summed
  <2>2. (WordSize + 1) - WordSize = 1
    BY Sizes
  <2> QED
    BY <1>2, <2>1, <2>2
<1>6. l = (Base * (l \div Base)) + (l % Base) /\ l \div Base \in Nat /\ l % Base \in 0..(Base - 1)
  BY <1>3, Sizes, Division
<1>7. l \div Base = w
  BY <1>3, <1>4, <1>5, <1>6, Sizes, OneQuotient
<1>8. l % Base = b
  BY <1>3, <1>4, <1>5, <1>6, <1>7, Sizes
<1> QED
  BY <1>1, <1>2, <1>3, <1>8

---------------------------------------------------------------------------
(* Whole words. *)

\* The words that bytes make.
Words(bytes) == Len(bytes) \div WordSize
\* Bytes of whole words.
Whole(bytes) == bytes \in Seq(Byte) /\ Len(bytes) = WordSize * Words(bytes)
\* bytes are in mem from its word p on.
Stored(mem, p, bytes) ==
  /\ Whole(bytes) /\ p \in Nat /\ (p + Words(bytes)) * WordSize <= Len(mem)
  /\ \A i \in 1..Len(bytes) : mem[(p * WordSize) + i] = bytes[i]

\* So many bytes in whole words are so many words.
LEMMA WholeWords ==
  ASSUME NEW n \in Nat, NEW bytes \in Seq(Byte), Len(bytes) = WordSize * n
  PROVE  Whole(bytes) /\ Words(bytes) = n
<1>1. PICK m : m = WordSize * n
  OBVIOUS
<1>2. m \in Nat /\ m \div WordSize \in Nat /\ m % WordSize \in 0..(WordSize - 1)
      /\ m = WordSize * (m \div WordSize) + (m % WordSize)
  <2>1. m \in Nat
    BY <1>1, Sizes
  <2> QED
    BY <2>1, Sizes, Division
<1>3. m = WordSize * n + 0
  BY <1>1, Sizes
<1>4. m \div WordSize = n
  BY <1>2, <1>3, Sizes, OneQuotient
<1> QED
  BY <1>1, <1>4 DEF Whole, Words

\* Whole words are bytes, their number a number.
LEMMA WholeIs ==
  ASSUME NEW bytes, Whole(bytes)
  PROVE  bytes \in Seq(Byte) /\ Words(bytes) \in Nat /\ Len(bytes) = WordSize * Words(bytes)
<1>1. Len(bytes) \in Nat
  BY DEF Whole
<1>2. Words(bytes) \in Nat
  BY <1>1, Sizes, Division DEF Words
<1> QED
  BY <1>2 DEF Whole

\* Two sequences of whole words, one behind the other.
LEMMA WholeJoined ==
  ASSUME NEW a, Whole(a), NEW b, Whole(b)
  PROVE  Whole(a \o b) /\ Words(a \o b) = Words(a) + Words(b)
<1>1. /\ a \in Seq(Byte) /\ Words(a) \in Nat /\ Len(a) = WordSize * Words(a)
      /\ b \in Seq(Byte) /\ Words(b) \in Nat /\ Len(b) = WordSize * Words(b)
  BY WholeIs
<1>2. PICK m, n : m = Words(a) /\ n = Words(b)
  OBVIOUS
<1>3. a \o b \in Seq(Byte) /\ Len(a \o b) = Len(a) + Len(b)
  BY <1>1
<1>4. Len(a \o b) = WordSize * (m + n) /\ m + n \in Nat
  <2>1. m \in Nat /\ n \in Nat /\ (WordSize * m) + (WordSize * n) = WordSize * (m + n)
    BY <1>1, <1>2, Sizes
  <2> QED
    BY <1>1, <1>2, <1>3, <2>1
<1> QED
  BY <1>2, <1>3, <1>4, WholeWords

\* What stands in the memory stands there piece by piece.
LEMMA StoredJoined ==
  ASSUME NEW a, Whole(a), NEW b, Whole(b), NEW mem, NEW p, Stored(mem, p, a \o b), mem \in Seq(Byte)
  PROVE  Stored(mem, p, a) /\ Stored(mem, p + Words(a), b)
<1>1. /\ a \in Seq(Byte) /\ Words(a) \in Nat /\ Len(a) = WordSize * Words(a)
      /\ b \in Seq(Byte) /\ Words(b) \in Nat /\ Len(b) = WordSize * Words(b)
  BY WholeIs
<1>2. PICK m, n, l : m = Words(a) /\ n = Words(b) /\ l = Len(mem)
  OBVIOUS
<1>3. p \in Nat /\ m \in Nat /\ n \in Nat /\ l \in Nat /\ Words(a \o b) = m + n
  BY <1>1, <1>2, WholeJoined DEF Stored
<1>4. (p + (m + n)) * WordSize <= l
  BY <1>2, <1>3 DEF Stored
<1>5. (p + m) * WordSize <= l /\ ((p + m) + n) * WordSize <= l /\ (p + m) * WordSize = p * WordSize + WordSize * m
  <2>1. (p + (m + n)) * WordSize = (p + m) * WordSize + n * WordSize
    BY <1>3, Sizes
  <2>2. n * WordSize >= 0
    BY <1>3, Sizes
  <2>3. (p + m) + n = p + (m + n) /\ (p + m) * WordSize \in Int /\ n * WordSize \in Int
    BY <1>3, Sizes
  <2>4. (p + m) * WordSize = p * WordSize + WordSize * m
    BY <1>3, Sizes
  <2> QED
    BY <1>3, <1>4, <2>1, <2>2, <2>3, <2>4
<1>6. PICK x, y : x = Len(a) /\ y = Len(b)
  OBVIOUS
<1>7. x \in Nat /\ y \in Nat /\ x = WordSize * m
  BY <1>1, <1>2, <1>6
<1>8. /\ Len(a \o b) = x + y
      /\ \A i \in 1..(x + y) : (a \o b)[i] = IF i <= x THEN a[i] ELSE b[i - x]
  <2>1. a \in Seq(Byte) /\ b \in Seq(Byte)
    BY <1>1
  <2> QED
    BY <1>6, <2>1, Joined
<1>9. \A i \in 1..(x + y) : mem[(p * WordSize) + i] = (a \o b)[i]
  BY <1>8 DEF Stored
<1>10. \A i \in 1..x : mem[(p * WordSize) + i] = a[i]
  <2> TAKE i \in 1..x
  <2>1. i \in 1..(x + y) /\ i <= x
    BY <1>7
  <2> QED
    BY <1>8, <1>9, <2>1
<1>11. \A i \in 1..y : mem[((p + m) * WordSize) + i] = b[i]
  <2> TAKE i \in 1..y
  <2>1. PICK j, q : j = x + i /\ q = p * WordSize
    OBVIOUS
  <2>2. j \in 1..(x + y) /\ ~(j <= x) /\ j - x = i
    BY <1>7, <2>1
  <2>3. mem[q + j] = b[i]
    BY <1>8, <1>9, <2>1, <2>2
  <2>4. q \in Nat
    BY <1>3, <2>1, Sizes
  <2>5. ((p + m) * WordSize) + i = q + j
    BY <1>5, <1>7, <2>1, <2>4
  <2> QED
    BY <2>3, <2>5
<1> QED
  BY <1>2, <1>3, <1>5, <1>6, <1>10, <1>11 DEF Stored

---------------------------------------------------------------------------
(* Strings. *)

\* A length rounded up to words.
LEMMA Rounded ==
  ASSUME NEW n \in Nat
  PROVE  WordsFor(n) \in Nat /\ WordSize * WordsFor(n) >= n
<1>1. PICK m : m = n + WordSize - 1
  OBVIOUS
<1>2. m \in Nat
  BY <1>1, Sizes
<1>3. PICK q, y : q = m \div WordSize /\ y = m % WordSize
  OBVIOUS
<1>4. q \in Nat /\ y \in 0..(WordSize - 1) /\ m = WordSize * q + y
  BY <1>2, <1>3, Sizes, Division
<1>5. WordsFor(n) = q
  BY <1>1, <1>3 DEF WordsFor
<1>6. WordSize * q \in Int
  BY <1>4, Sizes
<1> QED
  BY <1>1, <1>4, <1>5, <1>6, Sizes

\* A short string takes one word more than whole words of it.
LEMMA ShortWords ==
  ASSUME NEW n \in Nat
  PROVE  WordsFor(1 + n) = 1 + (n \div WordSize)
<1>1. PICK q, y : q = n \div WordSize /\ y = n % WordSize
  OBVIOUS
<1>2. q \in Nat /\ y \in 0..(WordSize - 1) /\ n = WordSize * q + y
  BY <1>1, Sizes, Division
<1>3. PICK m : m = n + WordSize
  OBVIOUS
<1>4. m = WordSize * (q + 1) + y /\ m \in Nat
  BY <1>2, <1>3, Sizes
<1>5. PICK t, s : t = m \div WordSize /\ s = m % WordSize
  OBVIOUS
<1>6. t \in Nat /\ s \in 0..(WordSize - 1) /\ m = WordSize * t + s
  BY <1>4, <1>5, Sizes, Division
<1>7. q + 1 = t
  <2>1. q + 1 \in Int /\ t \in Int /\ WordSize * (q + 1) + y = WordSize * t + s
    BY <1>2, <1>4, <1>6
  <2> QED
    BY <1>2, <1>6, <2>1, Sizes, OneQuotient
<1>8. (1 + n) + WordSize - 1 = m
  BY <1>3, Sizes
<1> QED
  BY <1>1, <1>2, <1>5, <1>7, <1>8 DEF WordsFor

\* The word in front of a long string.
LEMMA LongHead ==
  ASSUME NEW n \in Nat
  PROVE  /\ (Base * n) + Long \in Nat
         /\ ((Base * n) + Long) % Base = Long /\ ((Base * n) + Long) \div Base = n
         /\ \A i \in 1..WordSize :
              AppendInt((Base * n) + Long)[i] = IF i = 1 THEN Long ELSE Shifted(n)[i - 2] % Base
<1>1. PICK v : v = (Base * n) + Long
  OBVIOUS
<1>2. v \in Nat
  BY <1>1, Sizes
<1>3. PICK q, y : q = v \div Base /\ y = v % Base
  OBVIOUS
<1>4. q \in Nat /\ y \in 0..(Base - 1) /\ v = Base * q + y
  BY <1>2, <1>3, Sizes, Division
<1>5. Long \in 0..(Base - 1) /\ v = Base * n + Long
  BY <1>1, Sizes
<1>6. n = q
  BY <1>4, <1>5, Sizes, OneQuotient
<1>7. y = Long
  BY <1>4, <1>5, <1>6, Sizes
<1>8. PICK f, g : f = Shifted(v) /\ g = Shifted(n)
  OBVIOUS
<1>9. /\ f[0] = v /\ g[0] = n
      /\ \A i \in 1..WordSize : f[i] = f[i - 1] \div Base
      /\ \A i \in 1..WordSize : g[i] = g[i - 1] \div Base
  BY <1>2, <1>8, ShiftedIs
<1>10. \A i \in 0..(WordSize - 1) : f[i + 1] = g[i]
  <2> DEFINE P == {i \in 0..(WordSize - 1) : f[i + 1] = g[i]}
  <2>1. 0 \in P
    BY <1>3, <1>6, <1>9, Sizes
  <2>2. ASSUME NEW i \in 1..(WordSize - 1), i - 1 \in P PROVE i \in P
    <3>1. PICK j : j = i + 1
      OBVIOUS
    <3>2. j \in 1..WordSize /\ j - 1 = i /\ i \in 1..WordSize /\ (i - 1) + 1 = i
      BY <3>1, Sizes
    <3>3. f[j] = f[i] \div Base /\ g[i] = g[i - 1] \div Base /\ f[i] = g[i - 1]
      BY <1>9, <2>2, <3>2
    <3> QED
      BY <3>1, <3>3
  <2>3. WordSize - 1 \in Nat
    BY Sizes
  <2>4. \A i \in 0..(WordSize - 1) : i \in P
    <3> HIDE DEF P
    <3> QED
      BY <2>1, <2>2, <2>3, Counting
  <2> QED
    BY <2>4
<1>11. ASSUME NEW i \in 1..WordSize
       PROVE  AppendInt(v)[i] = IF i = 1 THEN Long ELSE g[i - 2] % Base
  <2>1. AppendInt(v)[i] = f[i - 1] % Base
    BY <1>2, <1>8, IntWritten
  <2>2. CASE i = 1
    BY <1>3, <1>7, <1>9, <2>1, <2>2
  <2>3. CASE i # 1
    <3>1. PICK j : j = i - 2
      OBVIOUS
    <3>2. j \in 0..(WordSize - 1) /\ j + 1 = i - 1
      BY <2>3, <3>1, Sizes
    <3>3. f[i - 1] = g[j]
      BY <1>10, <3>2
    <3> QED
      BY <2>1, <2>3, <3>1, <3>3
  <2> QED
    BY <2>2, <2>3
<1> QED
  BY <1>1, <1>2, <1>3, <1>6, <1>7, <1>8, <1>11

\* A string of TL: its head, its bytes and zeros up to whole words.
HeadOf(s) == IF Len(s) < Long THEN 1 ELSE WordSize

\* The i-th byte of that head.
HeadByte(s, i) ==
  IF Len(s) < Long THEN Len(s) ELSE IF i = 1 THEN Long ELSE Shifted(Len(s))[i - 2] % Base

\* What appendString writes of a string, byte by byte.
LEMMA StringWritten ==
  ASSUME NEW s \in Seq(Byte)
  PROVE  /\ HeadOf(s) \in Nat /\ HeadOf(s) > 0
         /\ WordSize * WordsFor(HeadOf(s) + Len(s)) >= HeadOf(s) + Len(s)
         /\ Whole(TLString(s)) /\ Words(TLString(s)) = WordsFor(HeadOf(s) + Len(s))
         /\ \A i \in 1..Len(TLString(s)) :
              TLString(s)[i] = IF i > HeadOf(s) + Len(s) THEN 0
                               ELSE IF i > HeadOf(s) THEN s[i - HeadOf(s)] ELSE HeadByte(s, i)
<1>1. PICK n, h, u : n = Len(s) /\ h = HeadOf(s) /\ u = h + n
  OBVIOUS
<1>2. n \in Nat /\ h \in Nat /\ h > 0 /\ u \in Nat
  BY <1>1, Sizes DEF HeadOf
<1>3. PICK w : w = WordsFor(u)
  OBVIOUS
<1>4. w \in Nat /\ WordSize * w >= u
  BY <1>2, <1>3, Rounded
<1>5. WordSize * w \in Nat
  BY <1>4, Sizes
<1>6. PICK m : m = WordSize * w
  OBVIOUS
<1>7. TLString(s) = [i \in 1..m |-> IF i > u THEN 0 ELSE IF i > h THEN s[i - h] ELSE HeadByte(s, i)]
  BY <1>1, <1>3, <1>6 DEF TLString, HeadOf, HeadByte
<1>8. \A i \in 1..m : (IF i > u THEN 0 ELSE IF i > h THEN s[i - h] ELSE HeadByte(s, i)) \in Byte
  <2> TAKE i \in 1..m
  <2>1. 0 \in Byte
    BY Sizes
  <2>2. ASSUME ~(i > u), i > h PROVE s[i - h] \in Byte
    <3>1. i - h \in 1..n
      BY <1>1, <1>2, <1>5, <1>6, <2>2
    <3> QED
      BY <1>1, <3>1
  <2>3. ASSUME ~(i > h) PROVE HeadByte(s, i) \in Byte
    <3>1. CASE n < Long
      BY <1>1, <1>2, <3>1, Sizes DEF HeadByte
    <3>2. CASE ~(n < Long) /\ i = 1
      BY <1>1, <3>2, Sizes DEF HeadByte
    <3>3. CASE ~(n < Long) /\ i # 1
      <4>1. h = WordSize
        BY <1>1, <3>3 DEF HeadOf
      <4>2. i - 2 \in 0..WordSize
        BY <1>2, <1>5, <1>6, <2>3, <3>3, <4>1, Sizes
      <4>3. Shifted(n)[i - 2] \in Nat
        BY <1>2, <4>2, ShiftedIs
      <4>4. Shifted(n)[i - 2] % Base \in 0..(Base - 1)
        BY <4>3, Sizes, Division
      <4> QED
        BY <1>1, <3>3, <4>4, Sizes DEF HeadByte
    <3> QED
      BY <3>1, <3>2, <3>3
  <2> QED
    BY <2>1, <2>2, <2>3
<1>9. TLString(s) \in Seq(Byte) /\ Len(TLString(s)) = m
  <2> DEFINE B(i) == IF i > u THEN 0 ELSE IF i > h THEN s[i - h] ELSE HeadByte(s, i)
  <2>1. TLString(s) = [i \in 1..m |-> B(i)] /\ \A i \in 1..m : B(i) \in Byte
    BY <1>7, <1>8
  <2>2. m \in Nat
    BY <1>5, <1>6
  <2> HIDE DEF B
  <2>3. TLString(s) \in [1..m -> Byte] /\ DOMAIN TLString(s) = 1..m
    BY <2>1
  <2> QED
    BY <2>2, <2>3
<1>10. Whole(TLString(s)) /\ Words(TLString(s)) = w
  BY <1>4, <1>6, <1>9, WholeWords
<1>11. \A i \in 1..Len(TLString(s)) :
         TLString(s)[i] = IF i > u THEN 0 ELSE IF i > h THEN s[i - h] ELSE HeadByte(s, i)
  BY <1>7, <1>9
<1> QED
  BY <1>1, <1>2, <1>3, <1>4, <1>10, <1>11

\* A head, the string and zeros up to a length m.
Padded(a, s, u, m) ==
  [i \in 1..m |-> IF i > u THEN 0 ELSE IF i > Len(a) THEN s[i - Len(a)] ELSE a[i]]

\* Two strings of bytes filled up with zeros, byte by byte.
LEMMA Filled ==
  ASSUME NEW a \in Seq(Byte), NEW s \in Seq(Byte), NEW u, u = Len(a) + Len(s), NEW m \in Nat, m >= u
  PROVE  a \o s \o Repeat(0, m - u) = Padded(a, s, u, m)
<1>1. PICK h, n, k, z : h = Len(a) /\ n = Len(s) /\ k = m - u /\ z = Repeat(0, k)
  OBVIOUS
<1>2. h \in Nat /\ n \in Nat /\ u = h + n /\ k \in Nat /\ m = u + k
  BY <1>1
<1>3. z \in Seq(Byte) /\ Len(z) = k /\ \A i \in 1..k : z[i] = 0
  <2>1. z = [i \in 1..k |-> 0] /\ 0 \in Byte
    BY <1>1, Sizes DEF Repeat
  <2>2. z \in [1..k -> Byte]
    BY <2>1
  <2> QED
    BY <1>2, <2>1, <2>2
<1>4. PICK t : t = a \o s
  OBVIOUS
<1>5. /\ t \in Seq(Byte) /\ Len(t) = u
      /\ \A i \in 1..u : t[i] = IF i <= h THEN a[i] ELSE s[i - h]
  BY <1>1, <1>2, <1>4, Joined
<1>6. /\ t \o z \in Seq(Byte) /\ Len(t \o z) = m
      /\ \A i \in 1..m : (t \o z)[i] = IF i <= u THEN t[i] ELSE z[i - u]
  BY <1>2, <1>3, <1>5, Joined
<1>7. PICK r : r = t \o z
  OBVIOUS
<1>8. ASSUME NEW i \in 1..m
      PROVE  r[i] = IF i > u THEN 0 ELSE IF i > h THEN s[i - h] ELSE a[i]
  <2>1. CASE i > u
    <3>1. i - u \in 1..k /\ ~(i <= u)
      BY <1>2, <2>1
    <3>2. z[i - u] = 0
      BY <1>3, <3>1
    <3> QED
      BY <1>6, <1>7, <2>1, <3>1, <3>2
  <2>2. CASE ~(i > u)
    <3>1. i \in 1..u /\ i <= u /\ (i > h <=> ~(i <= h))
      BY <1>2, <2>2
    <3> QED
      BY <1>5, <1>6, <1>7, <2>2, <3>1
  <2> QED
    BY <2>1, <2>2
<1>9. r = [i \in 1..m |-> r[i]]
  <2>1. r \in Seq(Byte) /\ Len(r) = m
    BY <1>6, <1>7
  <2>2. r \in [1..m -> Byte]
    BY <2>1
  <2> QED
    BY <2>2
<1>10. r = a \o s \o Repeat(0, m - u)
  BY <1>1, <1>4, <1>7
<1> QED
  BY <1>1, <1>8, <1>9, <1>10 DEF Padded

\* What appendCString and serializeBignum write is a string of TL.
LEMMA StringsAgree ==
  ASSUME NEW s \in Seq(Byte)
  PROVE  AppendCString(s) = TLString(s) /\ SerializeBignum(s) = TLString(s)
<1>1. PICK n : n = Len(s)
  OBVIOUS
<1>2. n \in Nat
  BY <1>1
<1>3. PICK a : a = IF n < Long THEN <<n>> ELSE AppendInt((Base * n) + Long)
  OBVIOUS
<1>4. PICK h : h = HeadOf(s)
  OBVIOUS
<1>5. a \in Seq(Byte) /\ Len(a) = h /\ \A i \in 1..h : a[i] = HeadByte(s, i)
  <2>1. CASE n < Long
    <3>1. n \in Byte /\ h = 1
      BY <1>1, <1>2, <1>4, <2>1, Sizes DEF HeadOf
    <3>2. a = <<n>>
      BY <1>3, <2>1
    <3>3. \A i \in 1..h : HeadByte(s, i) = n
      BY <1>1, <2>1 DEF HeadByte
    <3> QED
      BY <3>1, <3>2, <3>3
  <2>2. CASE ~(n < Long)
    <3>1. h = WordSize /\ a = AppendInt((Base * n) + Long)
      BY <1>1, <1>3, <1>4, <2>2 DEF HeadOf
    <3>2. (Base * n) + Long \in Nat
      BY <1>2, LongHead
    <3>3. a \in Seq(Byte) /\ Len(a) = h
      BY <3>1, <3>2, IntWritten
    <3>4. \A i \in 1..h : a[i] = IF i = 1 THEN Long ELSE Shifted(n)[i - 2] % Base
      BY <1>2, <3>1, LongHead
    <3>5. \A i \in 1..h : HeadByte(s, i) = IF i = 1 THEN Long ELSE Shifted(n)[i - 2] % Base
      BY <1>1, <2>2 DEF HeadByte
    <3> QED
      BY <3>3, <3>4, <3>5
  <2> QED
    BY <2>1, <2>2
<1>6. PICK u, m : u = h + n /\ m = WordSize * WordsFor(u)
  OBVIOUS
<1>7. m \in Nat /\ m >= u /\ h \in Nat
  BY <1>1, <1>2, <1>4, <1>6, StringWritten, WholeIs, Sizes
<1>8. TLString(s) = [i \in 1..m |-> IF i > u THEN 0 ELSE IF i > h THEN s[i - h] ELSE HeadByte(s, i)]
  BY <1>1, <1>4, <1>6 DEF TLString, HeadOf, HeadByte
<1>9. a \o s \o Repeat(0, m - u) = [i \in 1..m |-> IF i > u THEN 0 ELSE IF i > h THEN s[i - h] ELSE a[i]]
  <2>1. h = Len(a) /\ u = Len(a) + Len(s) /\ a \in Seq(Byte)
    BY <1>1, <1>5, <1>6
  <2>2. m \in Nat /\ m >= u
    BY <1>7
  <2>3. a \o s \o Repeat(0, m - u) = Padded(a, s, u, m)
    BY <2>1, <2>2, Filled
  <2> QED
    BY <2>1, <2>3 DEF Padded
<1>10. \A i \in 1..m : (IF i > u THEN 0 ELSE IF i > h THEN s[i - h] ELSE a[i])
                     = IF i > u THEN 0 ELSE IF i > h THEN s[i - h] ELSE HeadByte(s, i)
  <2> TAKE i \in 1..m
  <2>1. CASE i > h
    BY <2>1
  <2>2. CASE ~(i > h)
    <3>1. i \in 1..h
      BY <1>7, <2>2
    <3> QED
      BY <1>5, <3>1
  <2> QED
    BY <2>1, <2>2
<1>11. a \o s \o Repeat(0, m - u) = TLString(s)
  BY <1>8, <1>9, <1>10
<1>12. AppendCString(s) = a \o s \o Repeat(0, m - u)
  BY <1>1, <1>3, <1>5, <1>6 DEF AppendCString
<1>13. SerializeBignum(s) = a \o s \o Repeat(0, m - u)
  <2>1. (IF n < Long THEN n + 1 ELSE n + WordSize) = u
    BY <1>1, <1>2, <1>4, <1>6, Sizes DEF HeadOf
  <2> QED
    BY <1>1, <1>3, <1>6, <2>1 DEF SerializeBignum
<1> QED
  BY <1>11, <1>12, <1>13

\* A piece of the memory that is known.
LEMMA Piece ==
  ASSUME NEW mem \in Seq(Byte), NEW s \in Seq(Byte), NEW from \in Nat, from + Len(s) <= Len(mem),
         \A i \in 1..Len(s) : mem[from + i] = s[i]
  PROVE  SubSeq(mem, from + 1, from + Len(s)) = s
<1>1. PICK n, l : n = Len(s) /\ l = Len(mem)
  OBVIOUS
<1>2. n \in Nat /\ l \in Nat /\ from + n <= l
  BY <1>1
<1>3. \A j \in (from + 1)..(from + n) : mem[j] \in Byte
  BY <1>1, <1>2
<1>4. PICK t : t = SubSeq(mem, from + 1, from + n)
  OBVIOUS
<1>5. Len(t) = IF from + 1 <= from + n THEN (from + n) - (from + 1) + 1 ELSE 0
  BY <1>2, <1>3, <1>4, SubSeqProperties
<1>6. t \in Seq(Byte) /\ \A j \in 1..((from + n) - (from + 1) + 1) : t[j] = mem[(from + 1) + j - 1]
  BY <1>2, <1>3, <1>4, SubSeqProperties
<1>7. Len(t) = n
  BY <1>2, <1>5
<1>8. \A j \in 1..n : t[j] = s[j]
  <2> TAKE j \in 1..n
  <2>1. (from + n) - (from + 1) + 1 = n /\ (from + 1) + j - 1 = from + j
    BY <1>2
  <2>2. t[j] = mem[from + j]
    BY <1>6, <2>1
  <2> QED
    BY <1>1, <2>2
<1> QED
  BY <1>1, <1>4, <1>6, <1>7, <1>8

---------------------------------------------------------------------------
(* Readers. *)

\* The values that are fetched, and what the program is told.
Value == Nat \cup Seq(Nat)
Telling == [op : Nat, id : Nat, got : Seq(Value)]

\* The type of a reader.
IsReader(r) ==
  /\ DOMAIN r = {"mem", "ptr", "end", "ok", "got", "told", "pending", "inEnd"}
  /\ r.mem \in Seq(Byte) /\ r.ptr \in Nat /\ r.end \in Nat /\ r.ok \in BOOLEAN
  /\ r.got \in Seq(Value) /\ r.told \in Seq(Telling) /\ r.pending \subseteq DOMAIN Queries
  /\ r.inEnd \in BOOLEAN
\* s is r with other fields got, the position behind them and perhaps astray.
Onward(r, s) ==
  /\ IsReader(s) /\ s.mem = r.mem /\ s.end = r.end /\ s.told = r.told
  /\ s.pending = r.pending /\ s.inEnd = r.inEnd
\* In particular, nothing is wrong and these are they.
After(r, s, p, got) == Onward(r, s) /\ s.ok = r.ok /\ s.ptr = p /\ s.got = got

\* Numbers and strings of bytes are values.
LEMMA Values ==
  /\ \A n \in Nat : n \in Value
  /\ \A s \in Seq(Byte) : s \in Value
  /\ \A s \in Seq(Nat) : s \in Value
  /\ SomeString \in Value /\ SomeString \notin Seq(Byte)
<1>1. \A s \in Seq(Byte) : s \in Seq(Nat)
  BY Sizes
<1>2. SomeString \in Seq(Nat)
  BY Sizes DEF SomeString
<1>3. SomeString \notin Seq(Byte)
  <2>1. SomeString[1] = Base /\ Len(SomeString) = 1
    BY DEF SomeString
  <2>2. Base \notin Byte
    BY Sizes
  <2> QED
    BY <2>1, <2>2
<1> QED
  BY <1>1, <1>2, <1>3 DEF Value

\* A reader that goes astray is one still.
LEMMA GoingAstray ==
  ASSUME NEW r, IsReader(r)
  PROVE  Onward(r, Astray(r)) /\ ~Astray(r).ok
<1>1. PICK s : s = [r EXCEPT !.ok = FALSE]
  OBVIOUS
<1>2. /\ DOMAIN s = DOMAIN r /\ s.mem = r.mem /\ s.ptr = r.ptr /\ s.end = r.end /\ s.got = r.got
      /\ s.told = r.told /\ s.pending = r.pending /\ s.inEnd = r.inEnd
  BY <1>1 DEF IsReader
<1>3. s.ok = FALSE
  BY <1>1 DEF IsReader
<1> QED
  BY <1>1, <1>2, <1>3 DEF IsReader, Astray, Onward

\* The reader at another place, with these fields.
LEMMA Moving ==
  ASSUME NEW r, IsReader(r), NEW p \in Nat, NEW got \in Seq(Value)
  PROVE  After(r, [r EXCEPT !.ptr = p, !.got = got], p, got)
<1>1. PICK s : s = [r EXCEPT !.ptr = p, !.got = got]
  OBVIOUS
<1>2. /\ DOMAIN s = DOMAIN r /\ s.mem = r.mem /\ s.ptr = p /\ s.end = r.end /\ s.got = got
      /\ s.told = r.told /\ s.pending = r.pending /\ s.inEnd = r.inEnd
  BY <1>1 DEF IsReader
<1>3. s.ok = r.ok
  BY <1>1 DEF IsReader
<1> QED
  BY <1>1, <1>2, <1>3 DEF IsReader, After, Onward

\* A reader that takes a value over n words.
LEMMA Getting ==
  ASSUME NEW r, IsReader(r), NEW n \in Nat, NEW v \in Value
  PROVE  After(r, Got([r EXCEPT !.ptr = @ + n], v), r.ptr + n, Append(r.got, v))
<1>1. PICK p, g : p = r.ptr + n /\ g = Append(r.got, v)
  OBVIOUS
<1>2. p \in Nat /\ g \in Seq(Value)
  <2>1. r.ptr \in Nat /\ r.got \in Seq(Value)
    BY DEF IsReader
  <2> QED
    BY <1>1, <2>1
<1>3. Got([r EXCEPT !.ptr = @ + n], v) = [r EXCEPT !.ptr = p, !.got = g]
  BY <1>1 DEF IsReader, Got
<1>4. After(r, [r EXCEPT !.ptr = p, !.got = g], p, g)
  BY <1>2, Moving
<1> QED
  BY <1>1, <1>3, <1>4, Zenon

\* Words in memory are bytes.
LEMMA InMemoryBytes ==
  ASSUME NEW mem \in Seq(Byte), NEW p \in Nat, NEW n \in Nat, (p + n) * WordSize <= Len(mem), NEW k \in 0..(n - 1)
  PROVE  /\ \A i \in 1..WordSize : mem[((p + k) * WordSize) + i] \in Byte
         /\ WordAt(mem, p + k) \in Nat
         /\ WordAt(mem, p + k) % Base = mem[((p + k) * WordSize) + 1]
<1>1. PICK q, l, t : q = (p + k) * WordSize /\ l = Len(mem) /\ t = (p + n) * WordSize
  OBVIOUS
<1>2. q \in Nat /\ l \in Nat /\ q + WordSize <= l
  <2>1. q \in Nat /\ t \in Nat /\ l \in Nat /\ t <= l
    BY <1>1, Sizes
  <2>2. PICK d : d = n - 1 - k
    OBVIOUS
  <2>3. d \in Nat
    BY <2>2
  <2>4. t = (p + k + 1 + d) * WordSize
    BY <1>1, <2>2
  <2>5. t = q + WordSize + (d * WordSize)
    BY <1>1, <2>3, <2>4, Sizes
  <2>6. d * WordSize >= 0 /\ d * WordSize \in Int
    BY <2>3, Sizes
  <2> QED
    BY <2>1, <2>5, <2>6, Sizes
<1>3. \A i \in 1..WordSize : mem[q + i] \in Byte
  <2> TAKE i \in 1..WordSize
  <2>1. q + i \in 1..l
    BY <1>2, Sizes
  <2> QED
    BY <1>1, <2>1
<1>4. p + k \in Nat
  OBVIOUS
<1> QED
  BY <1>1, <1>3, <1>4, WordRead

\* fetchInt, whatever is there.
LEMMA AnyInt ==
  ASSUME NEW r, IsReader(r)
  PROVE  /\ Onward(r, FetchInt(r)) /\ (FetchInt(r).ok => r.ok)
         /\ FetchInt(r).ok => \E v \in Nat : FetchInt(r).got = Append(r.got, v)
<1>1. CASE ~InMemory(r, 1)
  BY <1>1, GoingAstray DEF FetchInt
<1>2. CASE InMemory(r, 1)
  <2>1. r.mem \in Seq(Byte) /\ r.ptr \in Nat /\ (r.ptr + 1) * WordSize <= Len(r.mem)
    BY <1>2 DEF IsReader, InMemory
  <2>2. PICK v : v = WordAt(r.mem, r.ptr)
    OBVIOUS
  <2>3. v \in Nat
    <3>1. 0 \in 0..(1 - 1) /\ 1 \in Nat /\ r.ptr + 0 = r.ptr
      BY <2>1
    <3>2. WordAt(r.mem, r.ptr + 0) \in Nat
      BY <2>1, <3>1, InMemoryBytes
    <3> QED
      BY <2>2, <3>1, <3>2
  <2>4. FetchInt(r) = Got([r EXCEPT !.ptr = @ + 1], v)
    BY <1>2, <2>2 DEF FetchInt
  <2>5. After(r, FetchInt(r), r.ptr + 1, Append(r.got, v))
    BY <2>3, <2>4, Getting, Values
  <2> QED
    BY <2>3, <2>5 DEF After
<1> QED
  BY <1>1, <1>2

---------------------------------------------------------------------------
(* Fetching numbers and strings. *)

\* fetchInt of an int.
LEMMA TheInt ==
  ASSUME NEW r, IsReader(r), NEW v, IsWord(v), Stored(r.mem, r.ptr, AppendInt(v))
  PROVE  After(r, FetchInt(r), r.ptr + 1, Append(r.got, v)) /\ WordAt(r.mem, r.ptr) = v /\ InMemory(r, 1)
<1>1. v \in Nat
  BY DEF IsWord
<1>2. AppendInt(v) \in Seq(Byte) /\ Len(AppendInt(v)) = WordSize * 1
  BY <1>1, IntWritten, Sizes
<1>3. Words(AppendInt(v)) = 1
  BY <1>2, WholeWords
<1>4. r.ptr \in Nat /\ (r.ptr + 1) * WordSize <= Len(r.mem)
      /\ \A i \in 1..Len(AppendInt(v)) : r.mem[(r.ptr * WordSize) + i] = AppendInt(v)[i]
  BY <1>3 DEF Stored
<1>5. \A i \in 1..WordSize : r.mem[(r.ptr * WordSize) + i] = AppendInt(v)[i]
  BY <1>2, <1>4, Sizes
<1>6. WordAt(r.mem, r.ptr) = v
  BY <1>4, <1>5, ReadBack
<1>7. InMemory(r, 1)
  BY <1>4 DEF InMemory
<1>8. FetchInt(r) = Got([r EXCEPT !.ptr = @ + 1], v)
  BY <1>6, <1>7 DEF FetchInt
<1>9. After(r, Got([r EXCEPT !.ptr = @ + 1], v), r.ptr + 1, Append(r.got, v))
  BY <1>1, Values, Getting
<1> QED
  BY <1>6, <1>7, <1>8, <1>9

\* An int is a whole word.
LEMMA IntWords ==
  ASSUME NEW v \in Nat
  PROVE  Whole(AppendInt(v)) /\ Words(AppendInt(v)) = 1
<1>1. AppendInt(v) \in Seq(Byte) /\ Len(AppendInt(v)) = WordSize
  BY IntWritten
<1>2. WordSize = WordSize * 1
  BY Sizes
<1>3. AppendInt(v) \in Seq(Byte) /\ Len(AppendInt(v)) = WordSize * 1
  BY <1>1, <1>2
<1> QED
  BY <1>3, WholeWords

\* The words of a string.
LEMMA StrWords ==
  ASSUME NEW n \in Nat
  PROVE  /\ FetchStrWords(n) = WordsFor((IF n < Long THEN 1 ELSE WordSize) + n)
         /\ n < Long => FetchStrWords(n) = (n \div WordSize) + 1
         /\ FetchStrWords(n) \in Nat
<1>1. CASE n < Long
  <2>1. WordsFor(1 + n) = 1 + (n \div WordSize)
    BY ShortWords
  <2>2. n \div WordSize \in Nat
    BY Sizes, Division
  <2> QED
    BY <1>1, <2>1, <2>2 DEF FetchStrWords
<1>2. CASE ~(n < Long)
  <2>1. WordSize + n \in Nat /\ n + WordSize = WordSize + n
    BY Sizes
  <2>2. WordsFor(WordSize + n) \in Nat
    BY <2>1, Rounded
  <2> QED
    BY <1>2, <2>1, <2>2 DEF FetchStrWords
<1> QED
  BY <1>1, <1>2

\* The length of a string is found in front of it.
LEMMA TheLength ==
  ASSUME NEW r, IsReader(r), NEW s, IsString(s), Stored(r.mem, r.ptr, TLString(s)),
         r.ptr + Words(TLString(s)) <= r.end
  PROVE  /\ InMemory(r, 1) /\ PrefetchStrlen(r) = Len(s)
         /\ Words(TLString(s)) = FetchStrWords(Len(s)) /\ Words(TLString(s)) \in Nat
<1>1. PICK n, h, w, t, p : /\ n = Len(s) /\ h = HeadOf(s) /\ t = TLString(s) /\ w = Words(TLString(s)) /\ p = r.ptr
  OBVIOUS
<1>2. s \in Seq(Byte) /\ n \in Nat /\ (n < Long \/ IsWord((Base * n) + Long))
  BY <1>1 DEF IsString
<1>3. /\ h \in Nat /\ h > 0 /\ WordSize * w >= h + n /\ w = WordsFor(h + n) /\ Whole(t)
      /\ \A i \in 1..Len(t) : t[i] = IF i > h + n THEN 0 ELSE IF i > h THEN s[i - h] ELSE HeadByte(s, i)
  BY <1>1, <1>2, StringWritten
<1>4. w \in Nat /\ t \in Seq(Byte) /\ Len(t) = WordSize * w
  BY <1>1, <1>3, WholeIs
<1>5. w > 0
  <2>1. CASE w = 0
    BY <1>2, <1>3, <2>1, Sizes
  <2> QED
    BY <1>4, <2>1
<1>6. w = FetchStrWords(n)
  BY <1>1, <1>2, <1>3, StrWords DEF HeadOf
<1>7. /\ r.mem \in Seq(Byte) /\ p \in Nat /\ r.end \in Nat /\ (p + w) * WordSize <= Len(r.mem) /\ p + w <= r.end
      /\ \A i \in 1..Len(t) : r.mem[(p * WordSize) + i] = t[i]
  BY <1>1 DEF IsReader, Stored
<1>8. WordSize <= Len(t) /\ h <= Len(t)
  <2>1. PICK d : d = w - 1
    OBVIOUS
  <2>2. d \in Nat /\ w = 1 + d
    BY <1>4, <1>5, <2>1
  <2>3. WordSize * w = WordSize + (WordSize * d)
    BY <2>2, Sizes
  <2>4. WordSize * d >= 0 /\ WordSize * d \in Int
    BY <2>2, Sizes
  <2>5. WordSize <= Len(t)
    BY <1>4, <2>3, <2>4, Sizes
  <2>6. h <= Len(t)
    BY <1>2, <1>3, <1>4, Sizes
  <2> QED
    BY <2>5, <2>6
<1>9. (p + 1) * WordSize <= Len(r.mem) /\ InMemory(r, 1)
  <2>1. PICK d, l, b : d = w - 1 /\ l = Len(r.mem) /\ b = (p + 1) * WordSize
    OBVIOUS
  <2>2. d \in Nat /\ p + w = (p + 1) + d /\ l \in Nat /\ b \in Int
    BY <1>4, <1>5, <1>7, <2>1, Sizes
  <2>3. (p + w) * WordSize = b + (d * WordSize)
    BY <1>7, <2>1, <2>2, Sizes
  <2>4. d * WordSize >= 0 /\ d * WordSize \in Int
    BY <2>2, Sizes
  <2>5. b <= l
    BY <1>7, <2>1, <2>2, <2>3, <2>4
  <2> QED
    BY <1>1, <2>1, <2>5 DEF InMemory
<1>10. WordAt(r.mem, p) \in Nat /\ WordAt(r.mem, p) % Base = r.mem[(p * WordSize) + 1]
  <2>1. 0 \in 0..(1 - 1) /\ 1 \in Nat /\ p + 0 = p
    BY <1>7
  <2>2. WordAt(r.mem, p + 0) \in Nat /\ WordAt(r.mem, p + 0) % Base = r.mem[((p + 0) * WordSize) + 1]
    BY <1>7, <1>9, <2>1, InMemoryBytes
  <2> QED
    BY <2>1, <2>2
<1>11. PICK l : l = WordAt(r.mem, p)
  OBVIOUS
<1>12. PrefetchStrlen(r) = Strlen(r, l % Base, l \div Base)
  <2>1. ~(p >= r.end)
    BY <1>4, <1>5, <1>7
  <2> QED
    BY <1>1, <1>11, <2>1 DEF PrefetchStrlen
<1>13. Strlen(r, l % Base, l \div Base) = n
  <2>1. CASE n < Long
    <3>1. h = 1
      BY <1>1, <2>1 DEF HeadOf
    <3>2. 1 \in 1..Len(t) /\ ~(1 > h + n) /\ ~(1 > h)
      BY <1>2, <1>8, <3>1, <1>4, Sizes
    <3>3. t[1] = HeadByte(s, 1)
      BY <1>3, <3>2
    <3>4. HeadByte(s, 1) = n
      BY <1>1, <2>1 DEF HeadByte
    <3>5. l % Base = n
      BY <1>7, <1>10, <1>11, <3>2, <3>3, <3>4
    <3>6. w = (n \div WordSize) + 1
      BY <1>2, <1>6, <2>1, StrWords
    <3>7. r.end >= r.ptr + (n \div WordSize) + 1
      <4>1. n \div WordSize \in Nat
        BY <1>2, Sizes, Division
      <4> QED
        BY <1>1, <1>7, <3>6, <4>1
    <3> QED
      BY <1>2, <2>1, <3>5, <3>7, Sizes DEF Strlen
  <2>2. CASE ~(n < Long)
    <3>1. PICK v : v = (Base * n) + Long
      OBVIOUS
    <3>2. h = WordSize
      BY <1>1, <2>2 DEF HeadOf
    <3>3. IsWord(v) /\ v % Base = Long /\ v \div Base = n
      BY <1>2, <2>2, <3>1, LongHead
    <3>4. ASSUME NEW i \in 1..WordSize PROVE r.mem[(p * WordSize) + i] = AppendInt(v)[i]
      <4>1. i \in 1..Len(t) /\ ~(i > h + n) /\ ~(i > h)
        BY <1>2, <1>4, <1>8, <3>2, Sizes
      <4>2. t[i] = HeadByte(s, i)
        BY <1>3, <4>1
      <4>3. HeadByte(s, i) = IF i = 1 THEN Long ELSE Shifted(n)[i - 2] % Base
        BY <1>1, <2>2 DEF HeadByte
      <4>4. AppendInt(v)[i] = IF i = 1 THEN Long ELSE Shifted(n)[i - 2] % Base
        BY <1>2, <3>1, LongHead
      <4> QED
        BY <1>7, <4>1, <4>2, <4>3, <4>4
    <3>5. l = v
      BY <1>7, <1>11, <3>3, <3>4, ReadBack
    <3>6. n + WordSize = WordSize + n /\ n >= Long
      BY <1>2, <2>2, Sizes
    <3>7. r.end >= r.ptr + WordsFor(n + WordSize)
      BY <1>1, <1>3, <1>7, <3>2, <3>6
    <3> QED
      BY <3>3, <3>5, <3>6, <3>7, Sizes DEF Strlen
  <2> QED
    BY <2>1, <2>2
<1> QED
  BY <1>1, <1>4, <1>6, <1>9, <1>12, <1>13

\* fetchQString of a string.
LEMMA TheString ==
  ASSUME NEW r, IsReader(r), NEW s, IsString(s), Stored(r.mem, r.ptr, TLString(s)),
         r.ptr + Words(TLString(s)) <= r.end
  PROVE  After(r, FetchQString(r), r.ptr + Words(TLString(s)), Append(r.got, s))
<1>1. PICK n, h, w, t, p : /\ n = Len(s) /\ h = HeadOf(s) /\ t = TLString(s) /\ w = Words(TLString(s)) /\ p = r.ptr
  OBVIOUS
<1>2. InMemory(r, 1) /\ PrefetchStrlen(r) = n /\ w = FetchStrWords(n) /\ w \in Nat
  BY <1>1, TheLength
<1>3. s \in Seq(Byte) /\ n \in Nat /\ s \in Value
  BY <1>1, Values DEF IsString
<1>4. /\ h \in Nat /\ h > 0 /\ WordSize * w >= h + n /\ Whole(t)
      /\ \A i \in 1..Len(t) : t[i] = IF i > h + n THEN 0 ELSE IF i > h THEN s[i - h] ELSE HeadByte(s, i)
  BY <1>1, <1>3, StringWritten
<1>5. Len(t) = WordSize * w /\ t \in Seq(Byte)
  BY <1>1, <1>4, WholeIs
<1>6. /\ r.mem \in Seq(Byte) /\ p \in Nat /\ (p + w) * WordSize <= Len(r.mem)
      /\ \A i \in 1..Len(t) : r.mem[(p * WordSize) + i] = t[i]
  BY <1>1 DEF IsReader, Stored
<1>7. PICK from : from = FetchStrFrom(p, n)
  OBVIOUS
<1>8. PICK q : q = p * WordSize
  OBVIOUS
<1>9. q \in Nat
  BY <1>6, <1>8, Sizes
<1>10. from = q + h
  <2>1. CASE n < Long
    BY <1>1, <1>7, <1>8, <2>1 DEF HeadOf, FetchStrFrom
  <2>2. CASE ~(n < Long)
    <3>1. (p + 1) * WordSize = q + WordSize
      BY <1>6, <1>8, Sizes
    <3> QED
      BY <1>1, <1>7, <2>2, <3>1 DEF HeadOf, FetchStrFrom
  <2> QED
    BY <2>1, <2>2
<1>11. from \in Nat /\ from + n <= Len(r.mem)
  <2>1. PICK l, b : l = Len(r.mem) /\ b = WordSize * w
    OBVIOUS
  <2>2. (p + w) * WordSize = q + b /\ b \in Int /\ l \in Nat
    BY <1>2, <1>6, <1>8, <2>1, Sizes
  <2>3. q + b <= l /\ b >= h + n
    BY <1>4, <1>6, <2>1, <2>2
  <2>4. from + n <= l
    BY <1>3, <1>4, <1>9, <1>10, <2>2, <2>3
  <2> QED
    BY <1>4, <1>9, <1>10, <2>1, <2>4
<1>12. \A i \in 1..n : r.mem[from + i] = s[i]
  <2> TAKE i \in 1..n
  <2>1. PICK j : j = h + i
    OBVIOUS
  <2>2. j \in 1..Len(t) /\ ~(j > h + n) /\ j > h /\ j - h = i /\ from + i = q + j
    <3>1. Len(t) \in Nat /\ Len(t) >= h + n
      BY <1>4, <1>5
    <3> QED
      BY <1>3, <1>4, <1>9, <1>10, <2>1, <3>1
  <2>3. t[j] = s[i]
    BY <1>4, <2>2
  <2> QED
    BY <1>6, <1>8, <2>2, <2>3
<1>13. SubSeq(r.mem, from + 1, from + n) = s
  BY <1>1, <1>3, <1>6, <1>11, <1>12, Piece
<1>14. FetchQString(r) = FetchStr(r, n, from)
  BY <1>1, <1>2, <1>7 DEF FetchQString
<1>15. FetchStr(r, n, from) = Got([r EXCEPT !.ptr = @ + w], s)
  <2>1. n # -1 /\ ~(from + n > Len(r.mem))
    BY <1>3, <1>6, <1>11
  <2> QED
    BY <1>2, <1>13, <2>1 DEF FetchStr
<1>16. After(r, Got([r EXCEPT !.ptr = @ + w], s), r.ptr + w, Append(r.got, s))
  BY <1>2, <1>3, Getting
<1> QED
  BY <1>1, <1>14, <1>15, <1>16

\* fetchQString, whatever is there.
LEMMA AnyString ==
  ASSUME NEW r, IsReader(r)
  PROVE  /\ Onward(r, FetchQString(r)) /\ (FetchQString(r).ok => r.ok)
         /\ FetchQString(r).ok =>
              \E v \in Seq(Byte) \cup {SomeString} : FetchQString(r).got = Append(r.got, v)
<1>1. CASE r.ptr < r.end /\ ~InMemory(r, 1)
  BY <1>1, GoingAstray DEF FetchQString
<1>2. CASE ~(r.ptr < r.end /\ ~InMemory(r, 1))
  <2>1. r.mem \in Seq(Byte) /\ r.ptr \in Nat /\ r.end \in Nat
    BY DEF IsReader
  <2>2. PICK n : n = PrefetchStrlen(r)
    OBVIOUS
  <2>3. n = -1 \/ n \in Nat
    <3>1. CASE r.ptr >= r.end
      BY <2>2, <3>1 DEF PrefetchStrlen
    <3>2. CASE ~(r.ptr >= r.end)
      <4>1. InMemory(r, 1)
        BY <1>2, <2>1, <3>2
      <4>2. PICK l : l = WordAt(r.mem, r.ptr)
        OBVIOUS
      <4>3. l \in Nat
        <5>1. 0 \in 0..(1 - 1) /\ 1 \in Nat /\ r.ptr + 0 = r.ptr
          BY <2>1
        <5>2. WordAt(r.mem, r.ptr + 0) \in Nat
          BY <2>1, <4>1, <5>1, InMemoryBytes DEF InMemory
        <5> QED
          BY <4>2, <5>1, <5>2
      <4>4. PICK a, b : a = l % Base /\ b = l \div Base
        OBVIOUS
      <4>5. a \in Nat /\ b \in Nat
        BY <4>3, <4>4, Sizes, Division
      <4>6. n = Strlen(r, a, b)
        BY <2>2, <3>2, <4>2, <4>4 DEF PrefetchStrlen
      <4>7. Strlen(r, a, b) \in {a, b, -1}
        <5>1. CASE a < Long /\ r.end >= r.ptr + (a \div WordSize) + 1
          <6>1. a # Long
            BY <4>5, <5>1, Sizes
          <6> QED
            BY <5>1, <6>1 DEF Strlen
        <5>2. CASE ~(a < Long /\ r.end >= r.ptr + (a \div WordSize) + 1)
          BY <5>2 DEF Strlen
        <5> QED
          BY <5>1, <5>2
      <4> QED
        BY <4>5, <4>6, <4>7
    <3> QED
      BY <3>1, <3>2
  <2>4. PICK from : from = FetchStrFrom(r.ptr, n)
    OBVIOUS
  <2>5. FetchQString(r) = FetchStr(r, n, from)
    BY <1>2, <2>2, <2>4 DEF FetchQString
  <2>6. PICK w : w = FetchStrWords(n)
    OBVIOUS
  <2>7. CASE n = -1
    <3>1. (-1) \div WordSize = -1
      BY Sizes
    <3>2. w = 0
      BY <2>6, <2>7, <3>1, Sizes DEF FetchStrWords
    <3>3. FetchStr(r, n, from) = Got([r EXCEPT !.ptr = @ + w], SomeString)
      BY <2>6, <2>7 DEF FetchStr
    <3>4. After(r, Got([r EXCEPT !.ptr = @ + w], SomeString), r.ptr + w, Append(r.got, SomeString))
      BY <3>2, Values, Getting
    <3> QED
      BY <2>5, <3>3, <3>4 DEF After
  <2>8. CASE n \in Nat /\ from + n > Len(r.mem)
    <3>1. FetchStr(r, n, from) = Astray(r)
      BY <2>8 DEF FetchStr
    <3> QED
      BY <2>5, <3>1, GoingAstray
  <2>9. CASE n \in Nat /\ ~(from + n > Len(r.mem))
    <3>1. w \in Nat
      BY <2>6, <2>9, StrWords
    <3>2. PICK s : s = SubSeq(r.mem, from + 1, from + n)
      OBVIOUS
    <3>3. from \in Nat
      <4>1. r.ptr * WordSize \in Nat /\ (r.ptr + 1) * WordSize \in Nat
        BY <2>1, Sizes
      <4> QED
        BY <2>4, <4>1 DEF FetchStrFrom
    <3>4. s \in Seq(Byte)
      <4>1. \A i \in (from + 1)..(from + n) : r.mem[i] \in Byte
        BY <2>1, <2>9, <3>3
      <4> QED
        BY <2>9, <3>2, <3>3, <4>1, SubSeqProperties
    <3>5. FetchStr(r, n, from) = Got([r EXCEPT !.ptr = @ + w], s)
      BY <2>6, <2>9, <3>2 DEF FetchStr
    <3>6. After(r, Got([r EXCEPT !.ptr = @ + w], s), r.ptr + w, Append(r.got, s))
      BY <3>1, <3>4, Values, Getting
    <3> QED
      BY <2>5, <3>4, <3>5, <3>6 DEF After
  <2> QED
    BY <2>3, <2>7, <2>8, <2>9
<1> QED
  BY <1>1, <1>2

---------------------------------------------------------------------------
(* One behind the other. *)

\* f[i] is the first i of n pieces ss put together.
Pieced(n, ss, f) ==
  /\ f \in [0..n -> Seq(Byte)] /\ f[0] = <<>>
  /\ \A i \in 1..n : f[i] = f[i - 1] \o ss[i]

\* ss are n pieces of whole words.
IsPieces(n, ss) == ss = [i \in 1..n |-> ss[i]] /\ \A i \in 1..n : Whole(ss[i])

\* FlattenSeq puts the pieces together one by one.
LEMMA Flattened ==
  ASSUME NEW n \in Nat, NEW ss, IsPieces(n, ss)
  PROVE  \E f : Pieced(n, ss, f) /\ FlattenSeq(ss) = f[n]
<1>1. PICK D : D = Seq(Byte)
  OBVIOUS
<1>2. \A i \in 1..n : ss[i] \in D
  BY <1>1, WholeIs DEF IsPieces
<1>3. PICK F : F = [i \in 1..n |-> [x \in D |-> x \o ss[i]]]
  OBVIOUS
<1>4. F \in [1..n -> [D -> D]]
  <2>1. \A i \in 1..n : \A x \in D : x \o ss[i] \in D
    BY <1>1, <1>2
  <2> QED
    BY <1>3, <2>1
<1>5. PICK f : Iterated(n, D, <<>>, F, f)
  <2>1. <<>> \in D
    BY <1>1
  <2> QED
    BY <1>4, <2>1, Iterates
<1>6. /\ f \in [0..n -> D] /\ f[0] = <<>>
      /\ \A i \in 1..n : f[i] = F[i][f[i - 1]]
  BY <1>5 DEF Iterated
<1>7. \A i \in 1..n : f[i] = f[i - 1] \o ss[i]
  <2> TAKE i \in 1..n
  <2>1. i - 1 \in 0..n
    OBVIOUS
  <2>2. f[i - 1] \in D
    BY <1>6, <2>1
  <2>3. F[i][f[i - 1]] = f[i - 1] \o ss[i]
    BY <1>3, <2>2
  <2> QED
    BY <1>6, <2>3
<1>8. Pieced(n, ss, f)
  BY <1>1, <1>6, <1>7 DEF Pieced
<1>9. Len(ss) = n
  BY <1>1, <1>2 DEF IsPieces
<1>10. CASE n = 0
  <2>1. ss = <<>>
    BY <1>10 DEF IsPieces
  <2>2. FlattenSeq(ss) = ss
    BY <1>9, <1>10 DEF FlattenSeq
  <2> QED
    BY <1>6, <1>8, <1>10, <2>1, <2>2
<1>11. CASE n # 0
  <2> DEFINE Next1(g) == [i \in 1..n |-> IF i = 1 THEN ss[i] ELSE g[i - 1] \o ss[i]]
  <2>1. FlattenSeq(ss) = (CHOOSE g : g = Next1(g))[n]
    BY <1>9, <1>11 DEF FlattenSeq
  <2>2. f[1] = ss[1]
    <3>1. 1 \in 1..n /\ ss[1] \in Seq(Byte)
      BY <1>1, <1>2, <1>11
    <3>2. <<>> \o ss[1] = ss[1]
      BY <3>1
    <3>3. f[1] = f[0] \o ss[1]
      <4>1. 1 - 1 = 0
        OBVIOUS
      <4>2. f[1] = f[1 - 1] \o ss[1]
        BY <1>7, <3>1
      <4> QED
        BY <4>1, <4>2
    <3> QED
      BY <1>6, <3>2, <3>3
  <2>3. PICK e : e = [i \in 1..n |-> f[i]]
    OBVIOUS
  <2>4. \A i \in 1..n : e[i] = Next1(e)[i]
    <3> TAKE i \in 1..n
    <3>1. CASE i = 1
      BY <2>2, <2>3, <3>1
    <3>2. CASE i # 1
      <4>1. i - 1 \in 1..n
        BY <3>2
      <4>2. e[i - 1] = f[i - 1] /\ e[i] = f[i]
        BY <2>3, <4>1
      <4> QED
        BY <1>7, <3>2, <4>2
    <3> QED
      BY <3>1, <3>2
  <2>5. e = Next1(e)
    BY <2>3, <2>4
  <2>6. PICK h : h = (CHOOSE g : g = Next1(g)) /\ h = Next1(h)
    <3> HIDE DEF Next1
    <3>1. \E g : g = Next1(g)
      BY <2>5
    <3> QED
      BY <3>1
  <2>7. h[1] = ss[1] /\ \A i \in 2..n : h[i] = h[i - 1] \o ss[i]
    <3>1. 1 \in 1..n /\ Next1(h)[1] = ss[1]
      BY <1>11
    <3>2. ASSUME NEW i \in 2..n PROVE Next1(h)[i] = h[i - 1] \o ss[i]
      <4>1. i \in 1..n /\ i # 1
        OBVIOUS
      <4> QED
        BY <4>1
    <3> HIDE DEF Next1
    <3> QED
      BY <2>6, <3>1, <3>2
  <2>8. \A i \in 0..n : i = 0 \/ h[i] = f[i]
    <3> DEFINE P == {i \in 0..n : i = 0 \/ h[i] = f[i]}
    <3>1. 0 \in P
      OBVIOUS
    <3>2. ASSUME NEW i \in 1..n, i - 1 \in P PROVE i \in P
      <4>1. CASE i = 1
        BY <2>2, <2>7, <4>1
      <4>2. CASE i # 1
        <5>1. h[i - 1] = f[i - 1] /\ i \in 2..n
          BY <3>2, <4>2
        <5>2. h[i] = f[i]
          BY <1>7, <2>7, <5>1
        <5> QED
          BY <5>2
      <4> QED
        BY <4>1, <4>2
    <3>3. \A i \in 0..n : i \in P
      <4> HIDE DEF P
      <4> QED
        BY <3>1, <3>2, Counting
    <3> QED
      BY <3>3
  <2>9. h[n] = f[n]
    BY <1>11, <2>8
  <2> HIDE DEF Next1
  <2> QED
    BY <1>8, <2>1, <2>6, <2>9
<1> QED
  BY <1>10, <1>11

\* The pieces of a memory: where each begins, in words.
Laid(mem, p, n, ss, pos) ==
  /\ pos \in [0..n -> Nat] /\ pos[0] = p
  /\ \A i \in 1..n : Stored(mem, pos[i - 1], ss[i]) /\ pos[i] = pos[i - 1] + Words(ss[i])

\* The first pieces put together are whole words.
LEMMA PiecesWhole ==
  ASSUME NEW n \in Nat, NEW ss, IsPieces(n, ss), NEW f, Pieced(n, ss, f)
  PROVE  \A i \in 0..n : Whole(f[i]) /\ (i # 0 => Words(f[i]) = Words(f[i - 1]) + Words(ss[i]))
<1> DEFINE P == {i \in 0..n : Whole(f[i]) /\ (i # 0 => Words(f[i]) = Words(f[i - 1]) + Words(ss[i]))}
<1>1. 0 \in P
  <2>1. <<>> \in Seq(Byte) /\ Len(<<>>) = WordSize * 0
    BY Sizes
  <2>2. Whole(<<>>)
    BY <2>1, WholeWords
  <2> QED
    BY <2>2 DEF Pieced
<1>2. ASSUME NEW i \in 1..n, i - 1 \in P PROVE i \in P
  <2>1. Whole(f[i - 1]) /\ Whole(ss[i]) /\ f[i] = f[i - 1] \o ss[i]
    BY <1>2 DEF IsPieces, Pieced
  <2>2. Whole(f[i]) /\ Words(f[i]) = Words(f[i - 1]) + Words(ss[i])
    BY <2>1, WholeJoined
  <2> QED
    BY <2>2
<1>3. \A i \in 0..n : i \in P
  <2> HIDE DEF P
  <2> QED
    BY <1>1, <1>2, Counting
<1> QED
  BY <1>3

\* So are all of them.
LEMMA FlatWhole ==
  ASSUME NEW n \in Nat, NEW ss, IsPieces(n, ss)
  PROVE  Whole(FlattenSeq(ss))
<1>1. PICK f : Pieced(n, ss, f) /\ FlattenSeq(ss) = f[n]
  BY Flattened
<1>2. Whole(f[n])
  BY <1>1, PiecesWhole
<1> QED
  BY <1>1, <1>2

\* In a memory that holds all of them each piece stands behind the ones before it.
LEMMA LaidOut ==
  ASSUME NEW n \in Nat, NEW ss, IsPieces(n, ss), NEW mem \in Seq(Byte), NEW p,
         Stored(mem, p, FlattenSeq(ss))
  PROVE  \E pos : Laid(mem, p, n, ss, pos) /\ pos[n] = p + Words(FlattenSeq(ss))
<1>1. PICK f : Pieced(n, ss, f) /\ FlattenSeq(ss) = f[n]
  BY Flattened
<1>2. \A i \in 0..n : Whole(f[i]) /\ (i # 0 => Words(f[i]) = Words(f[i - 1]) + Words(ss[i]))
  BY <1>1, PiecesWhole
<1>3. \A i \in 0..n : Words(f[i]) \in Nat
  BY <1>2, WholeIs
<1>4. \A i \in 0..n : Stored(mem, p, f[n - i])
  <2> DEFINE P == {i \in 0..n : Stored(mem, p, f[n - i])}
  <2>1. 0 \in P
    BY <1>1
  <2>2. ASSUME NEW i \in 1..n, i - 1 \in P PROVE i \in P
    <3>1. PICK k : k = n - (i - 1)
      OBVIOUS
    <3>2. k \in 1..n /\ n - i = k - 1 /\ k - 1 \in 0..n
      BY <3>1
    <3>3. Stored(mem, p, f[k]) /\ f[k] = f[k - 1] \o ss[k]
      BY <1>1, <2>2, <3>1, <3>2 DEF Pieced
    <3>4. Whole(f[k - 1]) /\ Whole(ss[k])
      BY <1>2, <3>2 DEF IsPieces
    <3>5. Stored(mem, p, f[k - 1])
      BY <3>3, <3>4, StoredJoined
    <3> QED
      BY <3>2, <3>5
  <2>3. \A i \in 0..n : i \in P
    <3> HIDE DEF P
    <3> QED
      BY <2>1, <2>2, Counting
  <2> QED
    BY <2>3
<1>5. PICK pos : pos = [i \in 0..n |-> p + Words(f[i])]
  OBVIOUS
<1>6. p \in Nat
  BY DEF Stored
<1>7. pos \in [0..n -> Nat] /\ pos[0] = p
  <2>1. Words(f[0]) = 0
    <3>1. <<>> \in Seq(Byte) /\ Len(<<>>) = WordSize * 0
      BY Sizes
    <3>2. Words(<<>>) = 0
      BY <3>1, WholeWords
    <3> QED
      BY <1>1, <3>2 DEF Pieced
  <2>2. \A i \in 0..n : p + Words(f[i]) \in Nat
    BY <1>3, <1>6
  <2>3. pos \in [0..n -> Nat]
    BY <1>5, <2>2
  <2>4. pos[0] = p
    BY <1>5, <1>6, <2>1
  <2> QED
    BY <2>3, <2>4
<1>8. ASSUME NEW i \in 1..n PROVE Stored(mem, pos[i - 1], ss[i]) /\ pos[i] = pos[i - 1] + Words(ss[i])
  <2>1. i - 1 \in 0..n /\ i \in 0..n /\ i # 0 /\ n - (n - i) = i /\ n - i \in 0..n
    OBVIOUS
  <2>2. Stored(mem, p, f[i]) /\ f[i] = f[i - 1] \o ss[i]
    BY <1>1, <1>4, <2>1 DEF Pieced
  <2>3. Whole(f[i - 1]) /\ Whole(ss[i])
    BY <1>2, <2>1 DEF IsPieces
  <2>4. Stored(mem, p + Words(f[i - 1]), ss[i])
    BY <2>2, <2>3, StoredJoined
  <2>5. pos[i - 1] = p + Words(f[i - 1]) /\ pos[i] = p + Words(f[i])
    BY <1>5, <2>1
  <2>6. Words(ss[i]) \in Nat /\ Words(f[i - 1]) \in Nat /\ Words(f[i]) = Words(f[i - 1]) + Words(ss[i])
    BY <1>2, <1>3, <2>1, <2>3, WholeIs
  <2> QED
    BY <1>6, <2>4, <2>5, <2>6
<1>9. Laid(mem, p, n, ss, pos)
  BY <1>7, <1>8 DEF Laid
<1>10. pos[n] = p + Words(f[n])
  BY <1>5
<1> QED
  BY <1>1, <1>9, <1>10

---------------------------------------------------------------------------
(* Vectors. *)

\* The constructors are different words.
LEMMA Known ==
  /\ IsWord(TL_MsgContainer) /\ IsWord(TL_RpcResult) /\ IsWord(TL_GZipPacked) /\ IsWord(TL_RpcError)
  /\ IsWord(TL_Vector) /\ \A c \in Constructors : IsWord(c) /\ c \in Nat
BY PacketsAssumption DEF IsWord

\* The elements of a vector as they are written.
ElementsOf(v) == [i \in DOMAIN v |-> AppendInt(v[i])]

\* The elements of a vector, as they are written, take a word each.
LEMMA Elements ==
  ASSUME NEW v \in Seq(Constructors), NEW n, n = Len(v)
  PROVE  /\ n \in Nat /\ v \in Seq(Nat) /\ v \in [1..n -> Constructors]
         /\ IsPieces(n, ElementsOf(v))
         /\ \A i \in 1..n : /\ ElementsOf(v)[i] = AppendInt(v[i]) /\ v[i] \in Nat
                            /\ Words(ElementsOf(v)[i]) = 1
<1>1. n \in Nat /\ DOMAIN v = 1..n /\ v \in [1..n -> Constructors]
  OBVIOUS
<1>2. \A i \in 1..n : v[i] \in Nat
  BY <1>1, Known
<1>3. \A i \in 1..n : ElementsOf(v)[i] = AppendInt(v[i])
  BY <1>1 DEF ElementsOf
<1>4. \A i \in 1..n : Whole(ElementsOf(v)[i]) /\ Words(ElementsOf(v)[i]) = 1
  BY <1>2, <1>3, IntWords
<1>5. ElementsOf(v) = [i \in 1..n |-> ElementsOf(v)[i]]
  BY <1>1 DEF ElementsOf
<1>6. v \in Seq(Nat)
  BY <1>1, <1>2
<1> QED
  BY <1>1, <1>2, <1>3, <1>4, <1>5, <1>6 DEF IsPieces

\* The vector as it is written.
VectorOf(v) == AppendInt(TL_Vector) \o AppendInt(Len(v)) \o FlattenSeq(ElementsOf(v))

\* It is whole words: its constructor, its length and its elements.
LEMMA VectorWritten ==
  ASSUME NEW v \in Seq(Constructors)
  PROVE  /\ Whole(AppendInt(TL_Vector)) /\ Words(AppendInt(TL_Vector)) = 1
         /\ Whole(AppendInt(Len(v))) /\ Words(AppendInt(Len(v))) = 1
         /\ Whole(AppendInt(TL_Vector) \o AppendInt(Len(v)))
         /\ Words(AppendInt(TL_Vector) \o AppendInt(Len(v))) = 2
         /\ Whole(FlattenSeq(ElementsOf(v)))
         /\ Whole(VectorOf(v)) /\ Words(VectorOf(v)) = 2 + Words(FlattenSeq(ElementsOf(v)))
<1>1. TL_Vector \in Nat /\ Len(v) \in Nat
  BY Known DEF IsWord
<1>2. PICK a, b, c : a = AppendInt(TL_Vector) /\ b = AppendInt(Len(v)) /\ c = FlattenSeq(ElementsOf(v))
  OBVIOUS
<1>3. Whole(a) /\ Words(a) = 1 /\ Whole(b) /\ Words(b) = 1
  BY <1>1, <1>2, IntWords
<1>4. Whole(c)
  BY <1>2, Elements, FlatWhole
<1>5. Whole(a \o b) /\ Words(a \o b) = 2
  BY <1>3, WholeJoined
<1>6. Whole((a \o b) \o c) /\ Words((a \o b) \o c) = 2 + Words(c)
  BY <1>4, <1>5, WholeJoined
<1> QED
  BY <1>2, <1>3, <1>4, <1>5, <1>6 DEF VectorOf

\* A vector that stands where the reader is is fetched as it was written.
LEMMA TheVector ==
  ASSUME NEW r, IsReader(r), NEW v \in Seq(Constructors), IsWord(Len(v)), Stored(r.mem, r.ptr, VectorOf(v))
  PROVE  After(r, FetchVector(r, Constructors), r.ptr + Words(VectorOf(v)), Append(r.got, v))
<1>1. PICK n, p, mem : n = Len(v) /\ p = r.ptr /\ mem = r.mem
  OBVIOUS
<1>2. n \in Nat /\ p \in Nat /\ mem \in Seq(Byte)
  BY <1>1 DEF IsReader
<1>3. PICK a, b, c : a = AppendInt(TL_Vector) /\ b = AppendInt(n) /\ c = FlattenSeq(ElementsOf(v))
  OBVIOUS
<1>4. /\ Whole(a) /\ Words(a) = 1 /\ Whole(b) /\ Words(b) = 1 /\ Whole(a \o b) /\ Words(a \o b) = 2
      /\ Whole(c) /\ Words(VectorOf(v)) = 2 + Words(c) /\ VectorOf(v) = (a \o b) \o c
  BY <1>1, <1>3, VectorWritten DEF VectorOf
<1>5. Stored(mem, p, a \o b) /\ Stored(mem, p + 2, c)
  BY <1>1, <1>2, <1>4, StoredJoined
<1>6. Stored(mem, p + 1, b)
  BY <1>2, <1>4, <1>5, StoredJoined
<1>7. WordAt(mem, p + 1) = n
  <2>1. p + 1 \in Nat /\ \A i \in 1..Len(b) : mem[((p + 1) * WordSize) + i] = b[i]
    BY <1>6 DEF Stored
  <2>2. Len(b) = WordSize
    BY <1>2, <1>3, IntWritten
  <2>3. IsWord(n)
    BY <1>1
  <2> QED
    BY <1>3, <2>1, <2>2, <2>3, ReadBack
<1>8. IsPieces(n, ElementsOf(v)) /\ \A i \in 1..n : ElementsOf(v)[i] = AppendInt(v[i]) /\ Words(ElementsOf(v)[i]) = 1
  BY <1>1, Elements
<1>9. PICK pos : Laid(mem, p + 2, n, ElementsOf(v), pos) /\ pos[n] = p + 2 + Words(c)
  BY <1>2, <1>3, <1>5, <1>8, LaidOut
<1>10. \A i \in 0..n : pos[i] = p + 2 + i
  <2> DEFINE P == {i \in 0..n : pos[i] = p + 2 + i}
  <2>1. 0 \in P
    BY <1>2, <1>9 DEF Laid
  <2>2. ASSUME NEW i \in 1..n, i - 1 \in P PROVE i \in P
    <3>1. pos[i] = pos[i - 1] + 1
      BY <1>8, <1>9 DEF Laid
    <3> QED
      BY <1>2, <2>2, <3>1
  <2>3. \A i \in 0..n : i \in P
    <3> HIDE DEF P
    <3> QED
      BY <1>2, <2>1, <2>2, Counting
  <2> QED
    BY <2>3
<1>11. Words(c) = n
  <2>1. Words(c) \in Nat
    BY <1>4, WholeIs
  <2> QED
    BY <1>2, <1>9, <1>10, <2>1
<1>12. (p + (2 + n)) * WordSize <= Len(mem)
  BY <1>1, <1>4, <1>11 DEF Stored
<1>13. InMemory(r, 2) /\ InMemory(r, 2 + n)
  <2>1. PICK x, y, l : x = (p + 2) * WordSize /\ y = n * WordSize /\ l = Len(mem)
    OBVIOUS
  <2>2. x \in Nat /\ y \in Nat /\ l \in Nat
    BY <1>2, <2>1, Sizes
  <2>3. (p + (2 + n)) * WordSize = x + y
    BY <1>2, <2>1, Sizes
  <2>4. x <= l
    BY <1>12, <2>1, <2>2, <2>3
  <2> QED
    BY <1>1, <1>12, <2>1, <2>4 DEF InMemory
<1>14. \A i \in 1..n : WordAt(mem, p + 1 + i) = v[i]
  <2> TAKE i \in 1..n
  <2>1. i - 1 \in 0..n /\ pos[i - 1] = p + 1 + i
    BY <1>2, <1>10
  <2>2. PICK q : q = p + 1 + i
    OBVIOUS
  <2>3. Stored(mem, q, AppendInt(v[i]))
    BY <1>8, <1>9, <2>1, <2>2 DEF Laid
  <2>4. v[i] \in Constructors
    BY <1>1
  <2>5. IsWord(v[i]) /\ v[i] \in Nat
    BY <2>4, Known
  <2>6. Len(AppendInt(v[i])) = WordSize
    BY <2>5, IntWritten
  <2>7. \A k \in 1..WordSize : mem[(q * WordSize) + k] = AppendInt(v[i])[k]
    BY <2>3, <2>6 DEF Stored
  <2>8. q \in Nat
    BY <1>2, <2>2
  <2> QED
    BY <2>2, <2>5, <2>7, <2>8, ReadBack
<1>15. FetchVector(r, Constructors) = Got([r EXCEPT !.ptr = @ + 2 + n], [i \in 1..n |-> WordAt(mem, p + 1 + i)])
  <2>1. \A i \in 1..n : WordAt(mem, p + 1 + i) \in Constructors
    BY <1>1, <1>14
  <2> QED
    BY <1>1, <1>7, <1>13, <2>1 DEF FetchVector
<1>16. [i \in 1..n |-> WordAt(mem, p + 1 + i)] = v
  <2>1. v = [i \in 1..n |-> v[i]]
    BY <1>1
  <2> QED
    BY <1>14, <2>1
<1>17. PICK k : k = 2 + n
  OBVIOUS
<1>18. k \in Nat /\ r.ptr + 2 + n = r.ptr + k
  BY <1>1, <1>2, <1>17
<1>19. [r EXCEPT !.ptr = @ + 2 + n] = [r EXCEPT !.ptr = @ + k]
  BY <1>18
<1>20. After(r, Got([r EXCEPT !.ptr = @ + k], v), r.ptr + k, Append(r.got, v))
  <2>1. v \in Value
    BY Elements, Values
  <2> QED
    BY <1>18, <2>1, Getting
<1>21. Words(VectorOf(v)) = k
  BY <1>4, <1>11, <1>17
<1> QED
  BY <1>15, <1>16, <1>19, <1>20, <1>21

\* Whatever stands there, fetchVector only goes on.
LEMMA AnyVector ==
  ASSUME NEW r, IsReader(r)
  PROVE  /\ Onward(r, FetchVector(r, Constructors)) /\ (FetchVector(r, Constructors).ok => r.ok)
         /\ FetchVector(r, Constructors).ok =>
              \E v \in Seq(Nat) : FetchVector(r, Constructors).got = Append(r.got, v)
<1>1. PICK n, s : n = WordAt(r.mem, r.ptr + 1) /\ s = FetchVector(r, Constructors)
  OBVIOUS
<1>2. CASE ~InMemory(r, 2)
  BY <1>2, GoingAstray DEF FetchVector
<1>3. CASE InMemory(r, 2) /\ (~InMemory(r, 2 + n) \/ \E i \in 1..n : WordAt(r.mem, r.ptr + 1 + i) \notin Constructors)
  <2>1. s = Astray(r)
    BY <1>1, <1>3 DEF FetchVector
  <2> QED
    BY <1>1, <2>1, GoingAstray
<1>4. CASE InMemory(r, 2) /\ InMemory(r, 2 + n) /\ \A i \in 1..n : WordAt(r.mem, r.ptr + 1 + i) \in Constructors
  <2>1. r.mem \in Seq(Byte) /\ r.ptr \in Nat
    BY DEF IsReader
  <2>2. n \in Nat
    <3>1. 1 \in 0..(2 - 1) /\ 2 \in Nat
      OBVIOUS
    <3> QED
      BY <1>1, <1>4, <2>1, <3>1, InMemoryBytes DEF InMemory
  <2>3. PICK v : v = [i \in 1..n |-> WordAt(r.mem, r.ptr + 1 + i)]
    OBVIOUS
  <2>4. \A i \in 1..n : WordAt(r.mem, r.ptr + 1 + i) \in Nat
    BY <1>4, Known
  <2>5. v \in Seq(Nat)
    BY <2>2, <2>3, <2>4
  <2>6. s = Got([r EXCEPT !.ptr = @ + 2 + n], v)
    BY <1>1, <1>4, <2>3 DEF FetchVector
  <2>7. PICK k : k = 2 + n
    OBVIOUS
  <2>8. k \in Nat /\ r.ptr + 2 + n = r.ptr + k
    BY <2>1, <2>2, <2>7
  <2>9. [r EXCEPT !.ptr = @ + 2 + n] = [r EXCEPT !.ptr = @ + k]
    BY <2>8
  <2>10. After(r, Got([r EXCEPT !.ptr = @ + k], v), r.ptr + k, Append(r.got, v))
    BY <2>5, <2>8, Values, Getting
  <2>11. After(r, s, r.ptr + k, Append(r.got, v))
    BY <2>6, <2>9, <2>10
  <2> QED
    BY <1>1, <2>5, <2>11 DEF After
<1> QED
  BY <1>2, <1>3, <1>4

---------------------------------------------------------------------------
(* Fields. *)

\* The types of fields.
IsType(type) == type = "int" \/ type = "string" \/ type = "vector"
\* What may be fetched as a field of a type, whatever is there.
OfType(type) ==
  IF type = "int" THEN Nat ELSE IF type = "string" THEN Seq(Byte) \cup {SomeString} ELSE Seq(Nat)

\* Each is fetched by its own fetch.
LEMMA FieldIs ==
  /\ \A v : Field("int", v) = AppendInt(v) /\ Field("string", v) = TLString(v) /\ Field("vector", v) = VectorOf(v)
  /\ \A v : IsValue("int", v) => IsWord(v)
  /\ \A v : IsValue("string", v) => IsString(v)
  /\ \A v : IsValue("vector", v) => v \in Seq(Constructors) /\ IsWord(Len(v))
BY DEF Field, VectorOf, ElementsOf, IsValue

\* A field as it is written is whole words.
LEMMA FieldWritten ==
  ASSUME NEW type, IsType(type), NEW v, IsValue(type, v)
  PROVE  Whole(Field(type, v)) /\ v \in Value
<1>1. CASE type = "int"
  <2>1. IsWord(v) /\ v \in Nat
    BY <1>1, FieldIs DEF IsWord
  <2> QED
    BY <1>1, <2>1, FieldIs, IntWords, Values
<1>2. CASE type = "string"
  <2>1. v \in Seq(Byte)
    BY <1>2, FieldIs DEF IsString
  <2> QED
    BY <1>2, <2>1, FieldIs, StringWritten, Values
<1>3. CASE type = "vector"
  <2>1. v \in Seq(Constructors)
    BY <1>3, FieldIs
  <2>2. v \in Seq(Nat) /\ Whole(VectorOf(v))
    BY <2>1, Elements, VectorWritten
  <2> QED
    BY <1>3, <2>2, FieldIs, Values
<1> QED
  BY <1>1, <1>2, <1>3 DEF IsType

\* A field that stands where the reader is is fetched as it was written.
LEMMA TheField ==
  ASSUME NEW r, IsReader(r), r.ok, NEW type, IsType(type), NEW v, IsValue(type, v),
         Stored(r.mem, r.ptr, Field(type, v)), r.ptr + Words(Field(type, v)) <= r.end
  PROVE  After(r, FetchField(r, type), r.ptr + Words(Field(type, v)), Append(r.got, v))
<1>1. CASE type = "int"
  <2>1. IsWord(v) /\ v \in Nat /\ Field(type, v) = AppendInt(v)
    BY <1>1, FieldIs DEF IsWord
  <2>2. FetchField(r, type) = FetchInt(r)
    BY <1>1 DEF FetchField
  <2>3. Words(AppendInt(v)) = 1
    BY <2>1, IntWords
  <2>4. After(r, FetchInt(r), r.ptr + 1, Append(r.got, v))
    BY <2>1, TheInt
  <2> QED
    BY <2>1, <2>2, <2>3, <2>4
<1>2. CASE type = "string"
  <2>1. IsString(v) /\ Field(type, v) = TLString(v)
    BY <1>2, FieldIs
  <2>2. FetchField(r, type) = FetchQString(r)
    BY <1>2 DEF FetchField
  <2> QED
    BY <2>1, <2>2, TheString
<1>3. CASE type = "vector"
  <2>1. v \in Seq(Constructors) /\ IsWord(Len(v)) /\ Field(type, v) = VectorOf(v)
    BY <1>3, FieldIs
  <2>2. FetchField(r, type) = FetchVector(r, Constructors)
    BY <1>3 DEF FetchField
  <2> QED
    BY <2>1, <2>2, TheVector
<1> QED
  BY <1>1, <1>2, <1>3 DEF IsType

\* Whatever stands there, fetching a field only goes on.
LEMMA AnyField ==
  ASSUME NEW r, IsReader(r), NEW type, IsType(type)
  PROVE  /\ Onward(r, FetchField(r, type)) /\ (FetchField(r, type).ok => r.ok)
         /\ FetchField(r, type).ok => \E v \in OfType(type) : FetchField(r, type).got = Append(r.got, v)
<1>1. CASE ~r.ok
  BY <1>1 DEF FetchField, Onward
<1>2. CASE r.ok /\ type = "int"
  BY <1>2, AnyInt DEF FetchField, OfType
<1>3. CASE r.ok /\ type = "string"
  BY <1>3, AnyString DEF FetchField, OfType
<1>4. CASE r.ok /\ type = "vector"
  BY <1>4, AnyVector DEF FetchField, OfType
<1> QED
  BY <1>1, <1>2, <1>3, <1>4 DEF IsType

---------------------------------------------------------------------------
(* Fetching several fields. *)

\* read[n] is the reader after the first n fields.
Fetching(r, types, read) ==
  /\ read[0] = [r EXCEPT !.got = <<>>]
  /\ \A i \in 1..Len(types) : read[i] = FetchField(read[i - 1], types[i])
  /\ Fetch(r, types) = read[Len(types)]

\* Fetch reads one field after the other.
LEMMA FetchIs ==
  ASSUME NEW r, NEW types, Len(types) \in Nat
  PROVE  \E read : Fetching(r, types, read)
<1>1. PICK n, v : n = Len(types) /\ v = [r EXCEPT !.got = <<>>]
  OBVIOUS
<1> DEFINE Next1(g) == [i \in 0..n |-> IF i = 0 THEN v ELSE FetchField(g[i - 1], types[i])]
           Runs(g, m) == g = [i \in 0..m |-> g[i]] /\ g[0] = v
                         /\ \A i \in 1..m : g[i] = FetchField(g[i - 1], types[i])
           P == {m \in 0..n : \E g : Runs(g, m)}
<1>2. 0 \in P
  <2>1. PICK g : g = [i \in 0..0 |-> v]
    OBVIOUS
  <2>2. Runs(g, 0)
    BY <2>1
  <2>3. \E f : Runs(f, 0)
    BY <2>2
  <2>4. 0 \in 0..n
    BY <1>1
  <2> HIDE DEF Runs
  <2> QED
    BY <2>3, <2>4
<1>3. ASSUME NEW m \in 1..n, m - 1 \in P PROVE m \in P
  <2>1. PICK g : Runs(g, m - 1)
    <3> HIDE DEF Runs
    <3> QED
      BY <1>3
  <2>2. PICK h : h = [i \in 0..m |-> IF i = m THEN FetchField(g[m - 1], types[m]) ELSE g[i]]
    OBVIOUS
  <2>3. h = [i \in 0..m |-> h[i]] /\ h[0] = v
    BY <1>1, <2>1, <2>2
  <2>4. ASSUME NEW i \in 1..m PROVE h[i] = FetchField(h[i - 1], types[i])
    <3>1. h[i - 1] = g[i - 1]
      BY <1>1, <2>2
    <3>2. CASE i = m
      BY <1>1, <2>2, <3>1, <3>2
    <3>3. CASE i # m
      <4>1. i \in 1..(m - 1) /\ h[i] = g[i]
        BY <1>1, <2>2, <3>3
      <4>2. g[i] = FetchField(g[i - 1], types[i])
        BY <2>1, <4>1
      <4> QED
        BY <3>1, <4>1, <4>2
    <3> QED
      BY <3>2, <3>3
  <2>5. \E f : Runs(f, m)
    BY <2>3, <2>4
  <2>6. m \in 0..n
    BY <1>1
  <2> HIDE DEF Runs
  <2> QED
    BY <2>5, <2>6
<1>4. n \in P
  <2>1. \A i \in 0..n : i \in P
    <3> HIDE DEF P
    <3> QED
      BY <1>1, <1>2, <1>3, Counting
  <2> QED
    BY <1>1, <2>1
<1>5. PICK g : Runs(g, n)
  <2> HIDE DEF Runs
  <2> QED
    BY <1>4
<1>6. g = Next1(g)
  <2>1. \A i \in 0..n : g[i] = Next1(g)[i]
    <3> TAKE i \in 0..n
    <3>1. CASE i = 0
      BY <1>1, <1>5, <3>1
    <3>2. CASE i # 0
      <4>1. i \in 1..n
        BY <1>1, <3>2
      <4> QED
        BY <1>5, <3>2, <4>1
    <3> QED
      BY <3>1, <3>2
  <2> QED
    BY <1>5, <2>1
<1>7. Fetch(r, types) = (CHOOSE f : f = Next1(f))[n]
  BY <1>1 DEF Fetch
<1>8. PICK read : read = (CHOOSE f : f = Next1(f)) /\ read = Next1(read)
  <2> HIDE DEF Next1
  <2>1. \E f : f = Next1(f)
    BY <1>6
  <2> QED
    BY <2>1
<1>9. read[0] = v /\ \A i \in 1..n : read[i] = FetchField(read[i - 1], types[i])
  <2>1. 0 \in 0..n /\ Next1(read)[0] = v
    BY <1>1
  <2>2. ASSUME NEW i \in 1..n PROVE Next1(read)[i] = FetchField(read[i - 1], types[i])
    <3>1. i \in 0..n /\ i # 0
      BY <1>1
    <3> QED
      BY <3>1
  <2> HIDE DEF Next1
  <2> QED
    BY <1>8, <2>1, <2>2
<1> HIDE DEF Next1
<1> QED
  BY <1>1, <1>7, <1>8, <1>9 DEF Fetching

\* A type for each field.
AreTypes(types) == Len(types) \in Nat /\ \A i \in 1..Len(types) : IsType(types[i])
\* What any fetching of fields leaves.
Fetched(r, types, s) ==
  /\ Onward(r, s) /\ (s.ok => r.ok)
  /\ s.ok => Len(s.got) = Len(types) /\ \A i \in 1..Len(types) : s.got[i] \in OfType(types[i])

\* To forget what was fetched changes nothing else.
LEMMA EmptyHanded ==
  ASSUME NEW r, IsReader(r)
  PROVE  After(r, [r EXCEPT !.got = <<>>], r.ptr, <<>>)
<1>1. PICK s : s = [r EXCEPT !.got = <<>>]
  OBVIOUS
<1>2. /\ DOMAIN s = DOMAIN r /\ s.mem = r.mem /\ s.ptr = r.ptr /\ s.end = r.end /\ s.got = <<>>
      /\ s.told = r.told /\ s.pending = r.pending /\ s.inEnd = r.inEnd
  BY <1>1 DEF IsReader
<1>3. s.ok = r.ok
  BY <1>1 DEF IsReader
<1>4. <<>> \in Seq(Value)
  OBVIOUS
<1> QED
  BY <1>1, <1>2, <1>3, <1>4 DEF IsReader, After, Onward

\* To go on twice is to go on.
LEMMA OnwardAgain ==
  ASSUME NEW r, NEW s, NEW t, Onward(r, s), Onward(s, t)
  PROVE  Onward(r, t)
BY DEF Onward

\* Whatever stands there, fetching fields only goes on.
LEMMA AnyFetch ==
  ASSUME NEW r, IsReader(r), NEW types, AreTypes(types)
  PROVE  Fetched(r, types, Fetch(r, types))
<1>1. PICK n : n = Len(types)
  OBVIOUS
<1>2. n \in Nat /\ \A i \in 1..n : IsType(types[i])
  BY <1>1 DEF AreTypes
<1>3. PICK read : Fetching(r, types, read)
  BY <1>1, <1>2, FetchIs
<1>4. read[0] = [r EXCEPT !.got = <<>>] /\ \A i \in 1..n : read[i] = FetchField(read[i - 1], types[i])
  BY <1>1, <1>3 DEF Fetching
<1> DEFINE Sofar(i, s) == /\ Onward(r, s) /\ (s.ok => r.ok)
                          /\ s.ok => Len(s.got) = i /\ \A j \in 1..i : s.got[j] \in OfType(types[j])
           P == {i \in 0..n : Sofar(i, read[i])}
<1>5. 0 \in P
  <2>1. After(r, read[0], r.ptr, <<>>)
    BY <1>4, EmptyHanded
  <2>2. Sofar(0, read[0])
    BY <2>1 DEF After
  <2>3. 0 \in 0..n
    BY <1>2
  <2> HIDE DEF Sofar
  <2> QED
    BY <2>2, <2>3
<1>6. ASSUME NEW i \in 1..n, i - 1 \in P PROVE i \in P
  <2>1. PICK s, t : s = read[i - 1] /\ t = read[i]
    OBVIOUS
  <2>2. Sofar(i - 1, s)
    <3> HIDE DEF Sofar
    <3> QED
      BY <1>6, <2>1
  <2>3. t = FetchField(s, types[i]) /\ IsType(types[i])
    BY <1>2, <1>4, <2>1
  <2>4. IsReader(s)
    BY <2>2 DEF Onward
  <2>5. Onward(s, t) /\ (t.ok => s.ok) /\ (t.ok => \E v \in OfType(types[i]) : t.got = Append(s.got, v))
    BY <2>3, <2>4, AnyField
  <2>6. Onward(r, t) /\ (t.ok => r.ok)
    BY <2>2, <2>5, OnwardAgain
  <2>7. ASSUME t.ok PROVE Len(t.got) = i /\ \A j \in 1..i : t.got[j] \in OfType(types[j])
    <3>1. PICK v \in OfType(types[i]) : t.got = Append(s.got, v)
      BY <2>5, <2>7
    <3>2. /\ s.got \in Seq(Value) /\ Len(s.got) = i - 1
          /\ \A j \in 1..(i - 1) : s.got[j] \in OfType(types[j])
      BY <2>2, <2>4, <2>5, <2>7 DEF IsReader
    <3>3. Len(t.got) = i /\ t.got[i] = v /\ \A j \in 1..(i - 1) : t.got[j] = s.got[j]
      BY <1>2, <3>1, <3>2
    <3>4. ASSUME NEW j \in 1..i PROVE t.got[j] \in OfType(types[j])
      <4>1. CASE j = i
        BY <3>3, <4>1
      <4>2. CASE j # i
        <5>1. j \in 1..(i - 1)
          BY <1>2, <4>2
        <5> QED
          BY <3>2, <3>3, <5>1
      <4> QED
        BY <4>1, <4>2
    <3> QED
      BY <3>3, <3>4
  <2>8. Sofar(i, t) /\ i \in 0..n
    BY <1>2, <2>6, <2>7
  <2> HIDE DEF Sofar
  <2> QED
    BY <2>1, <2>8
<1>7. \A i \in 0..n : i \in P
  <2> HIDE DEF P
  <2> QED
    BY <1>2, <1>5, <1>6, Counting
<1>8. Sofar(n, read[n])
  <2>1. n \in P
    BY <1>2, <1>7
  <2> HIDE DEF Sofar
  <2> QED
    BY <2>1
<1> QED
  BY <1>1, <1>3, <1>8 DEF Fetched, Fetching

\* The places rise.
LEMMA PlacesRise ==
  ASSUME NEW n \in Nat, NEW mem, NEW p, NEW ss, NEW pos, Laid(mem, p, n, ss, pos), NEW k \in 0..n
  PROVE  pos[k] \in Nat /\ pos[k] <= pos[n] /\ p <= pos[k]
<1>1. pos \in [0..n -> Nat] /\ pos[0] = p /\ \A i \in 1..n : pos[i] >= pos[i - 1]
  <2>1. ASSUME NEW i \in 1..n PROVE pos[i] >= pos[i - 1]
    <3>1. pos[i] = pos[i - 1] + Words(ss[i]) /\ Whole(ss[i]) /\ pos[i - 1] \in Nat
      BY DEF Laid, Stored
    <3>2. Words(ss[i]) \in Nat
      BY <3>1, WholeIs
    <3> QED
      BY <3>1, <3>2
  <2> QED
    BY <2>1 DEF Laid
<1>2. \A i \in 0..n : pos[i] \in Nat
  BY <1>1
<1>3. \A i \in 0..n : p <= pos[i]
  <2> DEFINE P == {i \in 0..n : p <= pos[i]}
  <2>1. 0 \in P
    BY <1>1, <1>2
  <2>2. ASSUME NEW i \in 1..n, i - 1 \in P PROVE i \in P
    <3>1. p \in Nat /\ pos[i] \in Nat /\ pos[i - 1] \in Nat /\ pos[i] >= pos[i - 1] /\ p <= pos[i - 1]
      BY <1>1, <1>2, <2>2
    <3> QED
      BY <3>1
  <2>3. \A i \in 0..n : i \in P
    <3> HIDE DEF P
    <3> QED
      BY <2>1, <2>2, Counting
  <2> QED
    BY <2>3
<1>4. \A i \in 0..n : pos[n - i] <= pos[n]
  <2> DEFINE P == {i \in 0..n : pos[n - i] <= pos[n]}
  <2>1. 0 \in P
    BY <1>2
  <2>2. ASSUME NEW i \in 1..n, i - 1 \in P PROVE i \in P
    <3>1. PICK j : j = n - (i - 1)
      OBVIOUS
    <3>2. j \in 1..n /\ n - i = j - 1 /\ j - 1 \in 0..n
      BY <3>1
    <3>3. pos[j] <= pos[n] /\ pos[j] >= pos[j - 1]
      BY <1>1, <2>2, <3>1, <3>2
    <3>4. pos[j - 1] \in Nat /\ pos[j] \in Nat /\ pos[n] \in Nat
      BY <1>2, <3>2
    <3>5. pos[j - 1] <= pos[n]
      BY <3>3, <3>4
    <3> QED
      BY <3>2, <3>5
  <2>3. \A i \in 0..n : i \in P
    <3> HIDE DEF P
    <3> QED
      BY <2>1, <2>2, Counting
  <2> QED
    BY <2>3
<1>5. n - k \in 0..n /\ n - (n - k) = k
  OBVIOUS
<1>6. pos[n - (n - k)] <= pos[n]
  BY <1>4, <1>5
<1> QED
  BY <1>2, <1>3, <1>5, <1>6

\* The first k of n fields are fetched as they were written.
AreFields(n, types, values, ss) ==
  \A i \in 1..n : IsType(types[i]) /\ IsValue(types[i], values[i]) /\ ss[i] = Field(types[i], values[i])

\* The first k of the values.
Firsts(values, k) == [i \in 1..k |-> values[i]]

\* Fields that stand where the reader is are fetched as they were written.
LEMMA TheFetch ==
  ASSUME NEW r, IsReader(r), r.ok, NEW n \in Nat, NEW types, NEW values, NEW ss, AreFields(n, types, values, ss),
         NEW pos, Laid(r.mem, r.ptr, n, ss, pos), NEW k \in 0..n, pos[k] <= r.end,
         NEW first, Len(first) = k, \A i \in 1..k : first[i] = types[i]
  PROVE  After(r, Fetch(r, first), pos[k], Firsts(values, k))
<1>1. PICK read : Fetching(r, first, read)
  BY FetchIs
<1>2. /\ read[0] = [r EXCEPT !.got = <<>>] /\ \A i \in 1..k : read[i] = FetchField(read[i - 1], first[i])
      /\ Fetch(r, first) = read[k]
  BY <1>1 DEF Fetching
<1>3. \A i \in 0..k : pos[i] \in Nat /\ pos[i] <= r.end
  <2>1. Laid(r.mem, r.ptr, k, ss, [i \in 0..k |-> pos[i]])
    <3>1. PICK q : q = [i \in 0..k |-> pos[i]]
      OBVIOUS
    <3>2. pos \in [0..n -> Nat] /\ pos[0] = r.ptr
          /\ \A i \in 1..n : Stored(r.mem, pos[i - 1], ss[i]) /\ pos[i] = pos[i - 1] + Words(ss[i])
      BY DEF Laid
    <3>3. q \in [0..k -> Nat] /\ q[0] = r.ptr
      BY <3>1, <3>2
    <3>4. ASSUME NEW i \in 1..k PROVE Stored(r.mem, q[i - 1], ss[i]) /\ q[i] = q[i - 1] + Words(ss[i])
      <4>1. i \in 1..n /\ q[i - 1] = pos[i - 1] /\ q[i] = pos[i]
        BY <3>1
      <4> QED
        BY <3>2, <4>1
    <3> QED
      BY <3>1, <3>3, <3>4 DEF Laid
  <2>2. PICK q : q = [i \in 0..k |-> pos[i]]
    OBVIOUS
  <2>3. \A i \in 0..k : q[i] \in Nat /\ q[i] <= q[k]
    BY <2>1, <2>2, PlacesRise
  <2>4. r.end \in Nat
    BY DEF IsReader
  <2>5. \A i \in 0..k : q[i] = pos[i]
    BY <2>2
  <2> TAKE i \in 0..k
  <2>6. pos[i] \in Nat /\ pos[i] <= pos[k] /\ pos[k] \in Nat
    BY <2>3, <2>5
  <2> QED
    BY <2>4, <2>6
<1> DEFINE First(i) == [j \in 1..i |-> values[j]]
           P == {i \in 0..k : After(r, read[i], pos[i], First(i))}
<1>4. 0 \in P
  <2>1. After(r, read[0], r.ptr, <<>>)
    BY <1>2, EmptyHanded
  <2>2. First(0) = <<>> /\ pos[0] = r.ptr
    BY DEF Laid
  <2>3. After(r, read[0], pos[0], First(0))
    BY <2>1, <2>2, Zenon
  <2> HIDE DEF First
  <2> QED
    BY <2>3
<1>5. ASSUME NEW i \in 1..k, i - 1 \in P PROVE i \in P
  <2>1. PICK s, t, g : s = read[i - 1] /\ t = read[i] /\ g = First(i - 1)
    OBVIOUS
  <2>2. After(r, s, pos[i - 1], g)
    <3> HIDE DEF First
    <3> QED
      BY <1>5, <2>1
  <2>3. i \in 1..n /\ i - 1 \in 0..k /\ i \in 0..k
    OBVIOUS
  <2>4. t = FetchField(s, types[i])
    BY <1>2, <2>1
  <2>5. IsType(types[i]) /\ IsValue(types[i], values[i]) /\ ss[i] = Field(types[i], values[i])
    BY <2>3 DEF AreFields
  <2>6. Stored(r.mem, pos[i - 1], ss[i]) /\ pos[i] = pos[i - 1] + Words(ss[i])
    BY <2>3 DEF Laid
  <2>7. IsReader(s) /\ s.ok /\ s.mem = r.mem /\ s.ptr = pos[i - 1] /\ s.end = r.end /\ s.got = g
    BY <2>2 DEF After, Onward
  <2>8. s.ptr + Words(Field(types[i], values[i])) <= s.end
    BY <1>3, <2>3, <2>5, <2>6, <2>7
  <2>9. After(s, t, pos[i], Append(g, values[i]))
    BY <2>4, <2>5, <2>6, <2>7, <2>8, TheField
  <2>10. Append(g, values[i]) = First(i)
    <3>1. g = [j \in 1..(i - 1) |-> values[j]]
      BY <2>1
    <3>2. g \in Seq(Value)
      BY <2>7 DEF IsReader
    <3>3. Len(g) = i - 1
      BY <3>1, <3>2
    <3>4. PICK a : a = Append(g, values[i])
      OBVIOUS
    <3>5. values[i] \in Value
      BY <2>5, FieldWritten
    <3>6. a \in Seq(Value) /\ Len(a) = i /\ a[i] = values[i] /\ \A j \in 1..(i - 1) : a[j] = g[j]
      BY <3>2, <3>3, <3>4, <3>5
    <3>7. \A j \in 1..i : a[j] = values[j]
      <4> TAKE j \in 1..i
      <4>1. CASE j = i
        BY <3>6, <4>1
      <4>2. CASE j # i
        <5>1. j \in 1..(i - 1)
          BY <4>2
        <5> QED
          BY <3>1, <3>6, <5>1
      <4> QED
        BY <4>1, <4>2
    <3>8. a = [j \in 1..i |-> a[j]]
      <4>1. a \in [1..i -> Value]
        BY <3>6
      <4> QED
        BY <4>1
    <3> QED
      BY <3>4, <3>7, <3>8
  <2>11. After(s, t, pos[i], First(i))
    <3> HIDE DEF First
    <3> QED
      BY <2>9, <2>10
  <2>12. After(r, t, pos[i], First(i))
    <3> HIDE DEF First
    <3> QED
      BY <2>2, <2>11 DEF After, Onward
  <2> HIDE DEF First
  <2> QED
    BY <2>1, <2>3, <2>12
<1>6. k \in Nat /\ k \in 0..k
  OBVIOUS
<1>7. k \in P
  <2> HIDE DEF P, First
  <2>1. \A i \in 0..k : i \in P
    BY <1>4, <1>5, <1>6, Counting
  <2> QED
    BY <1>6, <2>1
<1>8. After(r, read[k], pos[k], First(k))
  <2> HIDE DEF First
  <2> QED
    BY <1>7
<1>9. First(k) = Firsts(values, k)
  BY DEF Firsts
<1> HIDE DEF First
<1> QED
  BY <1>2, <1>8, <1>9

---------------------------------------------------------------------------
(* What any handler does, whatever it reads. *)

\* What is told is told after what was, and is what is no longer pending.
Handled(r, s) ==
  /\ IsReader(s) /\ s.mem = r.mem /\ s.end = r.end /\ (s.ok => r.ok)
  /\ Len(s.told) >= Len(r.told) /\ \A i \in 1..Len(r.told) : s.told[i] = r.told[i]
  /\ s.ok => \A id : id \in s.pending <=>
       id \in r.pending /\ \A i \in (Len(r.told) + 1)..Len(s.told) : s.told[i].id # id

\* To handle twice is to handle.
LEMMA HandledAgain ==
  ASSUME NEW r, IsReader(r), NEW s, NEW t, Handled(r, s), Handled(s, t)
  PROVE  Handled(r, t)
<1>1. PICK l, m, n : l = Len(r.told) /\ m = Len(s.told) /\ n = Len(t.told)
  OBVIOUS
<1>2. l \in Nat /\ m \in Nat /\ n \in Nat /\ l <= m /\ m <= n
  <2>1. r.told \in Seq(Telling) /\ s.told \in Seq(Telling) /\ t.told \in Seq(Telling)
    BY DEF Handled, IsReader
  <2>2. m >= l /\ n >= m
    BY <1>1 DEF Handled
  <2> QED
    BY <1>1, <2>1, <2>2
<1>3. \A i \in 1..l : t.told[i] = r.told[i]
  <2> TAKE i \in 1..l
  <2>1. i \in 1..m
    BY <1>2
  <2>2. t.told[i] = s.told[i] /\ s.told[i] = r.told[i]
    BY <1>1, <2>1 DEF Handled
  <2> QED
    BY <2>2
<1>4. ASSUME t.ok PROVE \A id : id \in t.pending <=>
        id \in r.pending /\ \A i \in (l + 1)..n : t.told[i].id # id
  <2>1. s.ok
    BY <1>4 DEF Handled
  <2> TAKE id
  <2>2. id \in t.pending <=> id \in s.pending /\ \A i \in (m + 1)..n : t.told[i].id # id
    BY <1>1, <1>4 DEF Handled
  <2>3. id \in s.pending <=> id \in r.pending /\ \A i \in (l + 1)..m : s.told[i].id # id
    BY <1>1, <2>1 DEF Handled
  <2>4. \A i \in (l + 1)..m : t.told[i] = s.told[i]
    <3> TAKE i \in (l + 1)..m
    <3>1. i \in 1..m
      BY <1>2
    <3> QED
      BY <1>1, <3>1 DEF Handled
  <2>5. \A i : i \in (l + 1)..n <=> i \in (l + 1)..m \/ i \in (m + 1)..n
    BY <1>2
  <2>6. (\A i \in (l + 1)..n : t.told[i].id # id) <=>
          (\A i \in (l + 1)..m : s.told[i].id # id) /\ (\A i \in (m + 1)..n : t.told[i].id # id)
    <3>1. ASSUME \A i \in (l + 1)..n : t.told[i].id # id
          PROVE  (\A i \in (l + 1)..m : s.told[i].id # id) /\ (\A i \in (m + 1)..n : t.told[i].id # id)
      BY <2>4, <2>5, <3>1
    <3>2. ASSUME \A i \in (l + 1)..m : s.told[i].id # id, \A i \in (m + 1)..n : t.told[i].id # id
          PROVE  \A i \in (l + 1)..n : t.told[i].id # id
      BY <2>4, <2>5, <3>2
    <3> QED
      BY <3>1, <3>2
  <2> QED
    BY <2>2, <2>3, <2>6
<1> QED
  BY <1>1, <1>2, <1>3, <1>4 DEF Handled

\* To go on is to handle, the program being told nothing.
LEMMA OnwardHandled ==
  ASSUME NEW r, IsReader(r), NEW s, Onward(r, s), s.ok => r.ok
  PROVE  Handled(r, s)
<1>1. s.told = r.told /\ s.pending = r.pending /\ IsReader(s) /\ s.mem = r.mem /\ s.end = r.end
  BY DEF Onward
<1>2. Len(r.told) \in Nat
  BY DEF IsReader
<1>3. Len(s.told) >= Len(r.told)
  BY <1>1, <1>2
<1>4. \A i \in (Len(r.told) + 1)..Len(s.told) : FALSE
  BY <1>1, <1>2
<1> QED
  BY <1>1, <1>3, <1>4 DEF Handled

\* What is behind a reader is a reader.
LEMMA OnwardReader ==
  ASSUME NEW r, NEW s, Onward(r, s)
  PROVE  IsReader(s)
BY DEF Onward

\* What has handled is a reader.
LEMMA HandledReader ==
  ASSUME NEW r, NEW s, Handled(r, s)
  PROVE  IsReader(s)
BY DEF Handled

\* No query has the id that stands for none.
LEMMA NoQueryIs == NoQuery \in Nat /\ NoQuery \notin DOMAIN Queries
BY PacketsAssumption DEF NoQuery

\* Telling keeps all else.
Tale(op, id, got) == [op |-> op, id |-> id, got |-> got]

\* What Told does to a reader.
LEMMA Telled ==
  ASSUME NEW r, IsReader(r), NEW op \in Nat, NEW id \in Nat
  PROVE  /\ IsReader(Told(r, op, id)) /\ Told(r, op, id).mem = r.mem /\ Told(r, op, id).ptr = r.ptr
         /\ Told(r, op, id).end = r.end /\ Told(r, op, id).ok = r.ok /\ Told(r, op, id).got = r.got
         /\ Told(r, op, id).pending = r.pending /\ Told(r, op, id).inEnd = r.inEnd
         /\ r.ok => Told(r, op, id).told = Append(r.told, Tale(op, id, r.got))
         /\ ~r.ok => Told(r, op, id) = r
<1>1. CASE ~r.ok
  BY <1>1 DEF Told
<1>2. CASE r.ok
  <2>1. PICK s : s = [r EXCEPT !.told = Append(@, [op |-> op, id |-> id, got |-> r.got])]
    OBVIOUS
  <2>2. Told(r, op, id) = s
    BY <1>2, <2>1 DEF Told
  <2>3. /\ DOMAIN s = DOMAIN r /\ s.mem = r.mem /\ s.ptr = r.ptr /\ s.end = r.end /\ s.got = r.got
        /\ s.pending = r.pending /\ s.told = Append(r.told, Tale(op, id, r.got))
    BY <2>1 DEF IsReader, Tale
  <2>4. s.ok = r.ok
    BY <2>1 DEF IsReader
  <2>5. s.inEnd = r.inEnd
    BY <2>1 DEF IsReader
  <2>6. Tale(op, id, r.got) \in Telling
    BY DEF IsReader, Telling, Tale
  <2>7. s.told \in Seq(Telling)
    BY <2>3, <2>6 DEF IsReader
  <2> QED
    BY <1>2, <2>2, <2>3, <2>4, <2>5, <2>7 DEF IsReader
<1> QED
  BY <1>1, <1>2

\* Telling of the answer to a query no longer pending, or of none.
LEMMA ToldHandled ==
  ASSUME NEW r, IsReader(r), NEW s, IsReader(s), NEW op \in Nat, NEW id \in Nat,
         s.mem = r.mem, s.end = r.end, s.ok => r.ok, s.told = r.told,
         s.pending = r.pending \ {id}
  PROVE  Handled(r, Told(s, op, id)) /\ (s.ok => Len(Told(s, op, id).told) = Len(r.told) + 1
                                           /\ Told(s, op, id).told[Len(r.told) + 1] = Tale(op, id, s.got))
<1>1. PICK t, n : t = Told(s, op, id) /\ n = Len(r.told)
  OBVIOUS
<1>2. n \in Nat
  BY <1>1 DEF IsReader
<1>3. /\ IsReader(t) /\ t.mem = s.mem /\ t.end = s.end /\ t.ok = s.ok /\ t.pending = s.pending
      /\ (s.ok => t.told = Append(s.told, Tale(op, id, s.got))) /\ (~s.ok => t = s)
  BY <1>1, Telled
<1>4. CASE ~s.ok
  <2>1. t = s /\ Len(t.told) = n
    BY <1>1, <1>3, <1>4
  <2> QED
    BY <1>1, <1>2, <1>3, <1>4, <2>1 DEF Handled
<1>5. CASE s.ok
  <2>1. Tale(op, id, s.got) \in Telling
    BY DEF IsReader, Telling, Tale
  <2>2. PICK tale : tale = Tale(op, id, s.got)
    OBVIOUS
  <2>3. tale.id = id
    BY <2>2 DEF Tale
  <2>4. r.told \in Seq(Telling)
    BY DEF IsReader
  <2>5. t.told = Append(r.told, tale)
    BY <1>3, <1>5, <2>2
  <2>6. Len(t.told) = n + 1 /\ t.told[n + 1] = tale /\ \A i \in 1..n : t.told[i] = r.told[i]
    BY <1>1, <1>2, <2>1, <2>2, <2>4, <2>5
  <2>7. \A x : x \in t.pending <=> x \in r.pending /\ \A i \in (n + 1)..Len(t.told) : t.told[i].id # x
    <3>1. \A i : i \in (n + 1)..Len(t.told) <=> i = n + 1
      BY <1>2, <2>6
    <3> QED
      BY <1>3, <2>3, <2>6, <3>1
  <2>8. Len(t.told) >= n
    BY <1>2, <2>6
  <2> QED
    BY <1>1, <1>3, <1>5, <2>2, <2>6, <2>7, <2>8 DEF Handled
<1> QED
  BY <1>4, <1>5

\* To tell the program of an update is to handle.
LEMMA ToldNone ==
  ASSUME NEW r, IsReader(r), NEW s, Onward(r, s), s.ok => r.ok, NEW op \in Nat
  PROVE  Handled(r, Told(s, op, NoQuery)) /\ (s.ok => Len(Told(s, op, NoQuery).told) = Len(r.told) + 1
                                           /\ Told(s, op, NoQuery).told[Len(r.told) + 1] = Tale(op, NoQuery, s.got))
<1>1. s.pending = r.pending \ {NoQuery}
  BY NoQueryIs DEF Onward, IsReader
<1>2. IsReader(s) /\ s.mem = r.mem /\ s.end = r.end /\ s.told = r.told /\ NoQuery \in Nat
  BY NoQueryIs DEF Onward
<1> QED
  BY <1>1, <1>2, ToldHandled

---------------------------------------------------------------------------
(* The handlers, whatever stands in the memory. *)

\* The constructors are numbers, and differ where the handlers tell them apart.
LEMMA Operations ==
  /\ \A op \in DirectOps : op \in Nat
  /\ TL_RpcError \in Nat /\ TL_Updates \in Nat /\ TL_UpdatesCombined \in Nat
  /\ TL_RpcError # TL_GZipPacked /\ TL_RpcResult # TL_GZipPacked /\ TL_RpcResult # TL_MsgContainer
  /\ TL_GZipPacked # TL_MsgContainer
<1>1. /\ \A op \in DirectOps : op \in Nat
      /\ TL_RpcError \in Nat
  BY PacketsAssumption DEF IsWord
<1>2. TL_Updates \in DirectOps /\ TL_UpdatesCombined \in DirectOps
  BY DEF DirectOps
<1>3. /\ TL_RpcError # TL_GZipPacked /\ TL_RpcResult # TL_GZipPacked /\ TL_RpcResult # TL_MsgContainer
      /\ TL_GZipPacked # TL_MsgContainer
  BY PacketsAssumption DEF Distinct
<1> QED
  BY <1>1, <1>2, <1>3

\* The types of fields that the code and the queries name are types.
LEMMA AsSent ==
  /\ \A types : IsFields(types) => AreTypes(types)
  /\ \A op : AreTypes(Types(op))
  /\ \A id \in DOMAIN Queries : id \in Nat /\ Queries[id].op \in Nat /\ IsWord(id) /\ IsQuery(Queries[id])
                                /\ AreTypes(Queries[id].fields) /\ AreTypes(Queries[id].reads)
<1>1. ASSUME NEW types, IsFields(types) PROVE AreTypes(types)
  <2>1. types \in Seq({"int", "string", "vector"})
    BY <1>1 DEF IsFields
  <2>2. Len(types) \in Nat /\ \A i \in 1..Len(types) : types[i] \in {"int", "string", "vector"}
    BY <2>1
  <2> QED
    BY <2>2 DEF AreTypes, IsType
<1>2. ASSUME NEW op PROVE AreTypes(Types(op))
  <2>1. \/ Types(op) = <<"int", "int", "int">>
        \/ Types(op) = <<"int", "int", "string", "int", "int", "int">>
        \/ Types(op) = <<"vector", "int", "int">>
        \/ Types(op) = <<"vector", "int", "int", "int">>
        \/ Types(op) = <<"int", "string">>
        \/ Types(op) = <<"int">>
    BY DEF Types
  <2> QED
    BY <2>1 DEF AreTypes, IsType
<1>3. ASSUME NEW id \in DOMAIN Queries
      PROVE  id \in Nat /\ Queries[id].op \in Nat /\ IsWord(id) /\ IsQuery(Queries[id])
             /\ AreTypes(Queries[id].fields) /\ AreTypes(Queries[id].reads)
  <2>1. IsWord(id) /\ IsQuery(Queries[id])
    BY PacketsAssumption
  <2> QED
    BY <1>1, <2>1 DEF IsQuery, IsWord
<1> QED
  BY <1>1, <1>2, <1>3

\* The types of fields in the code of the handlers are types.
LEMMA ShortTypes ==
  /\ AreTypes(<<"int", "vector", "int", "int">>) /\ AreTypes(<<"string">>)
  /\ AreTypes(<<"int", "int">>) /\ AreTypes(<<"int", "int", "int">>)
BY DEF AreTypes, IsType

\* To skip what is not handled is to handle.
LEMMA Skipping ==
  ASSUME NEW r, IsReader(r)
  PROVE  After(r, ToEnd(r), r.end, r.got) /\ Handled(r, ToEnd(r))
<1>1. PICK s : s = [r EXCEPT !.ptr = r.end]
  OBVIOUS
<1>2. /\ DOMAIN s = DOMAIN r /\ s.mem = r.mem /\ s.ptr = r.end /\ s.end = r.end /\ s.got = r.got
      /\ s.told = r.told /\ s.pending = r.pending
  BY <1>1 DEF IsReader
<1>3. s.ok = r.ok
  BY <1>1 DEF IsReader
<1>4. s.inEnd = r.inEnd
  BY <1>1 DEF IsReader
<1>5. After(r, s, r.end, r.got)
  BY <1>2, <1>3, <1>4 DEF IsReader, After, Onward
<1>6. Handled(r, s)
  BY <1>5, OnwardHandled DEF After
<1> QED
  BY <1>1, <1>5, <1>6 DEF ToEnd

\* To go astray is to handle.
LEMMA Strayed ==
  ASSUME NEW r, IsReader(r)
  PROVE  Handled(r, Astray(r))
BY GoingAstray, OnwardHandled

\* To fetch the constructor and then fields only goes on.
LEMMA HeadFetched ==
  ASSUME NEW r, IsReader(r), NEW types, AreTypes(types)
  PROVE  Fetched(r, types, Fetch(FetchInt(r), types))
<1>1. PICK s, t : s = FetchInt(r) /\ t = Fetch(s, types)
  OBVIOUS
<1>2. Onward(r, s) /\ (s.ok => r.ok)
  BY <1>1, AnyInt
<1>3. IsReader(s)
  BY <1>2, OnwardReader
<1>4. Fetched(s, types, t)
  BY <1>1, <1>3, AnyFetch
<1>5. Onward(r, t)
  BY <1>2, <1>4, OnwardAgain DEF Fetched
<1> QED
  BY <1>1, <1>2, <1>4, <1>5 DEF Fetched

\* Whatever stands there, to work an update is to handle.
LEMMA AnyWork ==
  ASSUME NEW r, IsReader(r), NEW op \in Nat
  PROVE  Handled(r, Work(r, op))
<1>1. Fetched(r, Types(op), Fetch(FetchInt(r), Types(op)))
  BY AsSent, HeadFetched
<1> QED
  BY <1>1, ToldNone DEF Work, Fetched

\* So is what the case of updatesCombined falls into.
LEMMA AnyWorkUpdates ==
  ASSUME NEW r, IsReader(r)
  PROVE  Handled(r, WorkUpdates(r))
<1>1. CASE r.ok
  <2>1. PICK s : s = Fetch(r, <<"int", "vector", "int", "int">>)
    OBVIOUS
  <2>2. Onward(r, s) /\ (s.ok => r.ok)
    BY <2>1, AnyFetch, ShortTypes DEF Fetched
  <2>3. Handled(r, Told(s, TL_Updates, NoQuery))
    BY <2>2, Operations, ToldNone
  <2> QED
    BY <1>1, <2>1, <2>3 DEF WorkUpdates
<1>2. CASE ~r.ok
  <2>1. WorkUpdates(r) = r
    BY <1>2 DEF WorkUpdates
  <2>2. Onward(r, r)
    BY DEF Onward
  <2> QED
    BY <2>1, <2>2, OnwardHandled
<1> QED
  BY <1>1, <1>2

\* So is workUpdate.
LEMMA AnyUpdate ==
  ASSUME NEW r, IsReader(r)
  PROVE  Handled(r, WorkUpdate(r))
<1>1. PICK op : op = WordAt(r.mem, r.ptr)
  OBVIOUS
<1>2. CASE op = TL_UpdatesCombined
  <2>1. WorkUpdate(r) = WorkUpdates(Work(r, op))
    BY <1>1, <1>2 DEF WorkUpdate
  <2>2. Handled(r, Work(r, op))
    BY <1>2, AnyWork, Operations
  <2>3. Handled(Work(r, op), WorkUpdates(Work(r, op)))
    BY <2>2, AnyWorkUpdates, HandledReader
  <2> QED
    BY <2>1, <2>2, <2>3, HandledAgain
<1>3. CASE op \in DirectOps \ {TL_UpdatesCombined}
  <2>1. WorkUpdate(r) = Work(r, op)
    BY <1>1, <1>3 DEF WorkUpdate
  <2>2. op \in Nat
    BY <1>3, Operations
  <2> QED
    BY <2>1, <2>2, AnyWork
<1>4. CASE op # TL_UpdatesCombined /\ op \notin DirectOps \ {TL_UpdatesCombined}
  <2>1. WorkUpdate(r) = ToEnd(r)
    BY <1>1, <1>4 DEF WorkUpdate
  <2> QED
    BY <2>1, Skipping
<1> QED
  BY <1>2, <1>3, <1>4

\* A query is pending no more.
Without(r, id) == [r EXCEPT !.pending = @ \ {id}]

\* What taking a query out of the table does to a reader.
LEMMA Taking ==
  ASSUME NEW r, IsReader(r), NEW id
  PROVE  /\ IsReader(Without(r, id)) /\ Without(r, id).mem = r.mem /\ Without(r, id).ptr = r.ptr
         /\ Without(r, id).end = r.end /\ Without(r, id).ok = r.ok /\ Without(r, id).got = r.got
         /\ Without(r, id).told = r.told /\ Without(r, id).inEnd = r.inEnd
         /\ Without(r, id).pending = r.pending \ {id}
<1>1. PICK s : s = Without(r, id)
  OBVIOUS
<1>2. /\ DOMAIN s = DOMAIN r /\ s.mem = r.mem /\ s.ptr = r.ptr /\ s.end = r.end /\ s.got = r.got
      /\ s.told = r.told /\ s.pending = r.pending \ {id}
  BY <1>1 DEF IsReader, Without
<1>3. s.ok = r.ok
  BY <1>1 DEF IsReader, Without
<1>4. s.inEnd = r.inEnd
  BY <1>1 DEF IsReader, Without
<1> QED
  BY <1>1, <1>2, <1>3, <1>4 DEF IsReader

\* The three cases of an answer.
LEMMA AnswerIs ==
  ASSUME NEW r, NEW id, NEW op, op = WordAt(r.mem, r.ptr)
  PROVE  /\ id \notin r.pending => Answer(r, id) = ToEnd(r)
         /\ id \in r.pending /\ op # Queries[id].op => Answer(r, id) = Astray(Without(r, id))
         /\ id \in r.pending /\ op = Queries[id].op =>
              Answer(r, id) = Told(Fetch(FetchInt(Without(r, id)), Queries[id].reads), op, id)
BY DEF Answer, Without

\* Whatever stands there, queryOnResult handles.
LEMMA AnyAnswer ==
  ASSUME NEW r, IsReader(r), NEW id \in Nat
  PROVE  Handled(r, Answer(r, id))
<1>1. PICK op, t : op = WordAt(r.mem, r.ptr) /\ t = Without(r, id)
  OBVIOUS
<1>2. /\ IsReader(t) /\ t.mem = r.mem /\ t.end = r.end /\ t.ok = r.ok
      /\ t.told = r.told /\ t.pending = r.pending \ {id}
  BY <1>1, Taking
<1>3. CASE id \notin r.pending
  BY <1>1, <1>3, AnswerIs, Skipping
<1>4. CASE id \in r.pending /\ op # Queries[id].op
  <2>1. Answer(r, id) = Astray(t)
    BY <1>1, <1>4, AnswerIs
  <2>2. Onward(t, Astray(t)) /\ ~Astray(t).ok
    BY <1>2, GoingAstray
  <2>3. PICK s : s = Astray(t)
    OBVIOUS
  <2>4. IsReader(s) /\ s.mem = r.mem /\ s.end = r.end /\ ~s.ok /\ s.told = r.told
    BY <1>2, <2>2, <2>3 DEF Onward
  <2>5. Len(s.told) >= Len(r.told)
    BY <2>4 DEF IsReader
  <2> QED
    BY <2>1, <2>3, <2>4, <2>5 DEF Handled
<1>5. CASE id \in r.pending /\ op = Queries[id].op
  <2>1. PICK s : s = Fetch(FetchInt(t), Queries[id].reads)
    OBVIOUS
  <2>2. Answer(r, id) = Told(s, op, id)
    BY <1>1, <1>5, <2>1, AnswerIs
  <2>3. id \in DOMAIN Queries
    BY <1>5 DEF IsReader
  <2>4. op \in Nat /\ AreTypes(Queries[id].reads)
    BY <1>5, <2>3, AsSent
  <2>5. Onward(t, s) /\ (s.ok => t.ok)
    BY <1>2, <2>1, <2>4, HeadFetched DEF Fetched
  <2>6. /\ IsReader(s) /\ s.mem = r.mem /\ s.end = r.end /\ (s.ok => r.ok) /\ s.told = r.told
        /\ s.pending = r.pending \ {id}
    BY <1>2, <2>5 DEF Onward
  <2>7. Handled(r, Told(s, op, id))
    BY <2>4, <2>6, ToldHandled
  <2> QED
    BY <2>2, <2>7
<1> QED
  BY <1>3, <1>4, <1>5

\* The two cases of an error.
LEMMA ErrorIs ==
  ASSUME NEW r, NEW id, NEW read, read = Fetch(FetchInt(r), Types(TL_RpcError))
  PROVE  /\ id \notin r.pending => QueryOnError(r, id) = read
         /\ id \in r.pending => QueryOnError(r, id) = Told(Without(read, id), TL_RpcError, id)
BY DEF QueryOnError, Without

\* Whatever stands there, queryOnError handles.
LEMMA AnyError ==
  ASSUME NEW r, IsReader(r), NEW id \in Nat
  PROVE  Handled(r, QueryOnError(r, id))
<1>1. PICK read : read = Fetch(FetchInt(r), Types(TL_RpcError))
  OBVIOUS
<1>2. Onward(r, read) /\ (read.ok => r.ok)
  BY <1>1, AsSent, HeadFetched DEF Fetched
<1>3. CASE id \notin r.pending
  BY <1>1, <1>2, <1>3, ErrorIs, OnwardHandled
<1>4. CASE id \in r.pending
  <2>1. PICK s : s = Without(read, id)
    OBVIOUS
  <2>2. QueryOnError(r, id) = Told(s, TL_RpcError, id)
    BY <1>1, <1>4, <2>1, ErrorIs
  <2>3. /\ IsReader(s) /\ s.mem = read.mem /\ s.end = read.end /\ s.ok = read.ok
        /\ s.told = read.told /\ s.pending = read.pending \ {id}
    BY <1>2, <2>1, Taking, OnwardReader
  <2>4. /\ s.mem = r.mem /\ s.end = r.end /\ (s.ok => r.ok) /\ s.told = r.told
        /\ s.pending = r.pending \ {id}
    BY <1>2, <2>3 DEF Onward
  <2>5. Handled(r, Told(s, TL_RpcError, id))
    BY <2>3, <2>4, Operations, ToldHandled
  <2> QED
    BY <2>2, <2>5
<1> QED
  BY <1>3, <1>4

---------------------------------------------------------------------------
(* Archives and results, whatever they hold. *)

\* An archive is the text that follows.
IsArchive(r, a) ==
  /\ Onward(r, a) /\ (a.ok => r.ok)
  /\ a.ok => a.got[1] \in Seq(Byte)

\* Whatever stands there, taking an archive only goes on.
LEMMA AnyArchive ==
  ASSUME NEW r, IsReader(r)
  PROVE  IsArchive(r, Archive(r))
<1>1. PICK text, ts : ts = <<"string">> /\ text = Fetch(FetchInt(r), ts)
  OBVIOUS
<1>2. Len(ts) = 1 /\ ts[1] = "string"
  BY <1>1
<1>3. Fetched(r, ts, text)
  BY <1>1, ShortTypes, HeadFetched
<1>4. /\ Onward(r, text) /\ (text.ok => r.ok)
      /\ text.ok => Len(text.got) = 1 /\ text.got[1] \in Seq(Byte) \cup {SomeString}
  <2>1. 1 \in 1..Len(ts)
    BY <1>2
  <2>2. OfType(ts[1]) = Seq(Byte) \cup {SomeString}
    BY <1>2 DEF OfType
  <2> QED
    BY <1>2, <1>3, <2>1, <2>2 DEF Fetched
<1>5. CASE text.ok /\ text.got = <<SomeString>>
  <2>1. Archive(r) = Astray(text)
    BY <1>1, <1>5 DEF Archive
  <2>2. Onward(text, Astray(text)) /\ ~Astray(text).ok
    BY <1>4, GoingAstray, OnwardReader
  <2>3. Onward(r, Astray(text))
    BY <1>4, <2>2, OnwardAgain
  <2> QED
    BY <2>1, <2>2, <2>3 DEF IsArchive
<1>6. CASE ~(text.ok /\ text.got = <<SomeString>>)
  <2>1. Archive(r) = text
    BY <1>1, <1>6 DEF Archive
  <2>2. ASSUME text.ok PROVE text.got[1] \in Seq(Byte)
    <3>1. text.got # <<SomeString>>
      BY <1>6, <2>2
    <3>2. PICK g, v : g = text.got /\ v = SomeString
      OBVIOUS
    <3>3. g \in Seq(Value) /\ Len(g) = 1
      BY <1>4, <2>2, <3>2 DEF Onward, IsReader
    <3>4. g[1] # v
      <4>1. ASSUME g[1] = v PROVE g = <<v>>
        BY <3>3, <4>1
      <4> QED
        BY <3>1, <3>2, <4>1
    <3> QED
      BY <1>4, <2>2, <3>2, <3>4
  <2> QED
    BY <1>4, <2>1, <2>2 DEF IsArchive
<1> QED
  BY <1>5, <1>6

\* A reader in the text of an archive.
LEMMA Unpacking ==
  ASSUME NEW a, IsReader(a), a.got[1] \in Seq(Byte)
  PROVE  /\ IsReader(Unpack(a)) /\ Unpack(a).mem = a.got[1] /\ Unpack(a).ptr = 0
         /\ Unpack(a).end = Len(a.got[1]) \div WordSize /\ Unpack(a).ok = a.ok
         /\ Unpack(a).told = a.told /\ Unpack(a).pending = a.pending /\ Unpack(a).inEnd = a.inEnd
<1>1. PICK u, t : u = Unpack(a) /\ t = a.got[1]
  OBVIOUS
<1>2. t \in Seq(Byte) /\ Len(t) \div WordSize \in Nat
  <2>1. PICK n : n = Len(t)
    OBVIOUS
  <2>2. t \in Seq(Byte) /\ n \in Nat
    BY <1>1, <2>1
  <2>3. n \div WordSize \in Nat
    BY <2>2, Sizes, Division
  <2> QED
    BY <2>1, <2>2, <2>3
<1>3. u = [a EXCEPT !.mem = t, !.ptr = 0, !.end = Len(t) \div WordSize]
  BY <1>1 DEF Unpack
<1>4. /\ DOMAIN u = DOMAIN a /\ u.mem = t /\ u.ptr = 0 /\ u.end = Len(t) \div WordSize /\ u.got = a.got
      /\ u.told = a.told /\ u.pending = a.pending
  BY <1>3 DEF IsReader
<1>5. u.ok = a.ok
  BY <1>3 DEF IsReader
<1>6. u.inEnd = a.inEnd
  BY <1>3 DEF IsReader
<1> QED
  BY <1>1, <1>2, <1>4, <1>5, <1>6 DEF IsReader

\* A reader back behind the archive.
LEMMA Restoring ==
  ASSUME NEW s, IsReader(s), NEW a, IsReader(a)
  PROVE  /\ IsReader(Restored(s, a)) /\ Restored(s, a).mem = a.mem /\ Restored(s, a).ptr = a.ptr
         /\ Restored(s, a).end = a.end /\ Restored(s, a).ok = s.ok
         /\ Restored(s, a).told = s.told /\ Restored(s, a).pending = s.pending
         /\ Restored(s, a).inEnd = s.inEnd
<1>1. PICK u : u = Restored(s, a)
  OBVIOUS
<1>2. u = [s EXCEPT !.mem = a.mem, !.ptr = a.ptr, !.end = a.end]
  BY <1>1 DEF Restored
<1>3. /\ DOMAIN u = DOMAIN s /\ u.mem = a.mem /\ u.ptr = a.ptr /\ u.end = a.end /\ u.got = s.got
      /\ u.told = s.told /\ u.pending = s.pending
  BY <1>2 DEF IsReader
<1>4. u.ok = s.ok
  BY <1>2 DEF IsReader
<1>5. u.inEnd = s.inEnd
  BY <1>2 DEF IsReader
<1> QED
  BY <1>1, <1>3, <1>4, <1>5 DEF IsReader

\* What is handled in the text of an archive is handled.
LEMMA Inside ==
  ASSUME NEW r, IsReader(r), NEW a, IsArchive(r, a), a.ok, NEW s, Handled(Unpack(a), s)
  PROVE  Handled(r, Restored(s, a)) /\ Restored(s, a).told = s.told
<1>1. IsReader(a) /\ a.got[1] \in Seq(Byte) /\ r.ok
  BY DEF IsArchive, Onward
<1>2. PICK u, t : u = Unpack(a) /\ t = Restored(s, a)
  OBVIOUS
<1>3. u.told = r.told /\ u.pending = r.pending /\ u.ok
  BY <1>1, <1>2, Unpacking DEF IsArchive, Onward
<1>4. /\ IsReader(s) /\ Len(s.told) >= Len(u.told) /\ \A i \in 1..Len(u.told) : s.told[i] = u.told[i]
      /\ s.ok => \A id : id \in s.pending <=>
           id \in u.pending /\ \A i \in (Len(u.told) + 1)..Len(s.told) : s.told[i].id # id
  BY <1>2 DEF Handled
<1>5. /\ IsReader(t) /\ t.mem = r.mem /\ t.end = r.end /\ t.ok = s.ok
      /\ t.told = s.told /\ t.pending = s.pending
  BY <1>1, <1>2, <1>4, Restoring DEF IsArchive, Onward
<1> QED
  BY <1>1, <1>2, <1>3, <1>4, <1>5 DEF Handled

\* Whatever an archive holds, workPacked handles it as an update.
LEMMA AnyUpdateInside ==
  ASSUME NEW r, IsReader(r), NEW a, IsArchive(r, a)
  PROVE  Handled(r, UpdateInside(a))
<1>1. CASE a.ok
  <2>1. UpdateInside(a) = Restored(WorkUpdate(Unpack(a)), a)
    BY <1>1 DEF UpdateInside
  <2>2. IsReader(Unpack(a))
    BY <1>1, Unpacking DEF IsArchive, Onward
  <2> QED
    BY <1>1, <2>1, <2>2, AnyUpdate, Inside
<1>2. CASE ~a.ok
  <2>1. UpdateInside(a) = a
    BY <1>2 DEF UpdateInside
  <2> QED
    BY <2>1, OnwardHandled DEF IsArchive
<1> QED
  BY <1>1, <1>2

\* Whatever an archive holds, queryOnResult handles it as an answer.
LEMMA AnyAnswerInside ==
  ASSUME NEW r, IsReader(r), NEW a, IsArchive(r, a), NEW id \in Nat
  PROVE  Handled(r, AnswerInside(a, id))
<1>1. CASE a.ok
  <2>1. AnswerInside(a, id) = Restored(Answer(Unpack(a), id), a)
    BY <1>1 DEF AnswerInside
  <2>2. IsReader(Unpack(a))
    BY <1>1, Unpacking DEF IsArchive, Onward
  <2> QED
    BY <1>1, <2>1, <2>2, AnyAnswer, Inside
<1>2. CASE ~a.ok
  <2>1. AnswerInside(a, id) = a
    BY <1>2 DEF AnswerInside
  <2> QED
    BY <2>1, OnwardHandled DEF IsArchive
<1> QED
  BY <1>1, <1>2

\* The three cases of a result.
LEMMA ResultIs ==
  ASSUME NEW r, NEW id, NEW op, op = WordAt(r.mem, r.ptr)
  PROVE  /\ op = TL_RpcError => RpcResult(r, id) = QueryOnError(r, id)
         /\ op = TL_GZipPacked => RpcResult(r, id) = AnswerInside(Archive(r), id)
         /\ op # TL_RpcError /\ op # TL_GZipPacked => RpcResult(r, id) = Answer(r, id)
BY Operations DEF RpcResult

\* Whatever stands there, the end of workRpcResult handles.
LEMMA AnyResult ==
  ASSUME NEW r, IsReader(r), NEW id \in Nat
  PROVE  Handled(r, RpcResult(r, id))
<1>1. PICK op : op = WordAt(r.mem, r.ptr)
  OBVIOUS
<1>2. CASE op = TL_RpcError
  BY <1>1, <1>2, ResultIs, AnyError
<1>3. CASE op = TL_GZipPacked
  BY <1>1, <1>3, ResultIs, AnyArchive, AnyAnswerInside
<1>4. CASE op # TL_RpcError /\ op # TL_GZipPacked
  BY <1>1, <1>4, ResultIs, AnyAnswer
<1> QED
  BY <1>2, <1>3, <1>4

\* So does workRpcResult.
LEMMA AnyWorkResult ==
  ASSUME NEW r, IsReader(r)
  PROVE  Handled(r, WorkRpcResult(r))
<1>1. PICK ts, head : ts = <<"int", "int">> /\ head = Fetch(r, ts)
  OBVIOUS
<1>2. Fetched(r, ts, head)
  BY <1>1, ShortTypes, AnyFetch
<1>3. CASE head.ok /\ InMemory(head, 1)
  <2>1. WorkRpcResult(r) = RpcResult(head, head.got[2])
    BY <1>1, <1>3 DEF WorkRpcResult
  <2>2. head.got[2] \in Nat
    <3>1. Len(ts) = 2 /\ ts[2] = "int"
      BY <1>1
    <3>2. 2 \in 1..Len(ts) /\ OfType(ts[2]) = Nat
      BY <3>1 DEF OfType
    <3> QED
      BY <1>2, <1>3, <3>2 DEF Fetched
  <2>3. IsReader(head) /\ Handled(r, head)
    BY <1>2, OnwardHandled, OnwardReader DEF Fetched
  <2>4. Handled(head, RpcResult(head, head.got[2]))
    BY <2>2, <2>3, AnyResult
  <2> QED
    BY <2>1, <2>3, <2>4, HandledAgain
<1>4. CASE ~(head.ok /\ InMemory(head, 1))
  <2>1. WorkRpcResult(r) = Astray(r)
    BY <1>1, <1>4 DEF WorkRpcResult
  <2> QED
    BY <2>1, Strayed
<1> QED
  BY <1>3, <1>4

\* The cases of rpcExecuteAnswer.
LEMMA ExecuteIs ==
  ASSUME NEW r, InMemory(r, 1), NEW op, op = WordAt(r.mem, r.ptr)
  PROVE  /\ op = TL_RpcResult => RpcExecuteAnswer(r) = WorkRpcResult(r)
         /\ op = TL_GZipPacked => RpcExecuteAnswer(r) = UpdateInside(Archive(r))
         /\ op = TL_MsgContainer => RpcExecuteAnswer(r) = Astray(r)
         /\ op \notin {TL_RpcResult, TL_GZipPacked, TL_MsgContainer} => RpcExecuteAnswer(r) = WorkUpdate(r)
BY Operations DEF RpcExecuteAnswer

\* Whatever stands there, rpcExecuteAnswer handles.
LEMMA AnyExecute ==
  ASSUME NEW r, IsReader(r)
  PROVE  Handled(r, RpcExecuteAnswer(r))
<1>1. CASE ~InMemory(r, 1)
  <2>1. RpcExecuteAnswer(r) = Astray(r)
    BY <1>1 DEF RpcExecuteAnswer
  <2> QED
    BY <2>1, Strayed
<1>2. CASE InMemory(r, 1)
  <2>1. PICK op : op = WordAt(r.mem, r.ptr)
    OBVIOUS
  <2>2. CASE op = TL_RpcResult
    BY <1>2, <2>1, <2>2, ExecuteIs, AnyWorkResult
  <2>3. CASE op = TL_GZipPacked
    BY <1>2, <2>1, <2>3, ExecuteIs, AnyArchive, AnyUpdateInside
  <2>4. CASE op = TL_MsgContainer
    BY <1>2, <2>1, <2>4, ExecuteIs, Strayed
  <2>5. CASE op \notin {TL_RpcResult, TL_GZipPacked, TL_MsgContainer}
    BY <1>2, <2>1, <2>5, ExecuteIs, AnyUpdate
  <2> QED
    BY <2>2, <2>3, <2>4, <2>5
<1> QED
  BY <1>1, <1>2

\* A reader in an item of a container.
LEMMA Framing ==
  ASSUME NEW head, IsReader(head), NEW bytes \in Nat
  PROVE  LET s == Framed(head, bytes) IN
         /\ IsReader(s) /\ s.mem = head.mem /\ s.ptr = head.ptr /\ s.ok = head.ok
         /\ s.end = head.ptr + (bytes \div WordSize)
         /\ s.told = head.told /\ s.pending = head.pending /\ s.inEnd = head.inEnd
<1>1. PICK s, e : e = head.ptr + (bytes \div WordSize) /\ s = [head EXCEPT !.end = e]
  OBVIOUS
<1>2. e \in Nat
  <2>1. bytes \div WordSize \in Nat
    BY Sizes, Division
  <2> QED
    BY <1>1, <2>1 DEF IsReader
<1>3. /\ DOMAIN s = DOMAIN head /\ s.mem = head.mem /\ s.ptr = head.ptr /\ s.end = e /\ s.got = head.got
      /\ s.told = head.told /\ s.pending = head.pending
  BY <1>1 DEF IsReader
<1>4. s.ok = head.ok
  BY <1>1 DEF IsReader
<1>5. s.inEnd = head.inEnd
  BY <1>1 DEF IsReader
<1>6. s = Framed(head, bytes)
  BY <1>1 DEF Framed
<1> QED
  BY <1>1, <1>2, <1>3, <1>4, <1>5, <1>6 DEF IsReader

\* s is the reader of an item, back in its container.
Moved(item, end, s) ==
  /\ IsReader(s) /\ s.mem = item.mem /\ s.ptr = item.ptr /\ s.ok = item.ok
  /\ s.end = end /\ s.told = item.told /\ s.pending = item.pending
  /\ item.ptr = item.end => s.inEnd = item.inEnd

\* NextItem moves it there.
LEMMA Onto ==
  ASSUME NEW item, IsReader(item), NEW end \in Nat
  PROVE  Moved(item, end, NextItem(item, end))
<1>1. PICK s : s = [item EXCEPT !.end = end, !.inEnd = @ /\ item.ptr = item.end]
  OBVIOUS
<1>2. /\ DOMAIN s = DOMAIN item /\ s.mem = item.mem /\ s.ptr = item.ptr /\ s.end = end /\ s.got = item.got
      /\ s.told = item.told /\ s.pending = item.pending
  BY <1>1 DEF IsReader
<1>3. s.ok = item.ok
  BY <1>1 DEF IsReader
<1>4. s.inEnd = (item.inEnd /\ item.ptr = item.end)
  BY <1>1 DEF IsReader
<1>6. item.inEnd \in BOOLEAN /\ s.inEnd \in BOOLEAN
  BY <1>4 DEF IsReader
<1>7. ASSUME item.ptr = item.end PROVE s.inEnd = item.inEnd
  BY <1>4, <1>6, <1>7
<1>5. s = NextItem(item, end)
  BY <1>1 DEF NextItem
<1> QED
  BY <1>1, <1>2, <1>3, <1>5, <1>6, <1>7 DEF IsReader, Moved

\* Whatever stands there, one pass of workContainer handles.
LEMMA AnyItem ==
  ASSUME NEW r, IsReader(r)
  PROVE  Handled(r, ContainerItem(r))
<1>1. PICK ts, head : ts = <<"int", "int", "int">> /\ head = Fetch(r, ts)
  OBVIOUS
<1>2. Fetched(r, ts, head)
  BY <1>1, ShortTypes, AnyFetch
<1>3. CASE ~(r.ok /\ head.ok)
  <2>1. ContainerItem(r) = Astray(r)
    BY <1>1, <1>3 DEF ContainerItem
  <2> QED
    BY <2>1, Strayed
<1>4. CASE r.ok /\ head.ok
  <2>1. PICK f, s, t : f = Framed(head, head.got[3]) /\ s = RpcExecuteAnswer(f) /\ t = NextItem(s, r.end)
    OBVIOUS
  <2>2. ContainerItem(r) = t
    BY <1>1, <1>4, <2>1 DEF ContainerItem
  <2>3. head.got[3] \in Nat
    <3>1. Len(ts) = 3 /\ ts[3] = "int"
      BY <1>1
    <3>2. 3 \in 1..Len(ts) /\ OfType(ts[3]) = Nat
      BY <3>1 DEF OfType
    <3> QED
      BY <1>2, <1>4, <3>2 DEF Fetched
  <2>4. IsReader(head) /\ head.mem = r.mem /\ head.told = r.told /\ head.pending = r.pending
    BY <1>2 DEF Fetched, Onward
  <2>5. IsReader(f) /\ f.mem = r.mem /\ f.told = r.told /\ f.pending = r.pending /\ f.ok
    BY <1>4, <2>1, <2>3, <2>4, Framing
  <2>6. Handled(f, s)
    BY <2>1, <2>5, AnyExecute
  <2>7. IsReader(s) /\ r.end \in Nat
    BY <2>6, HandledReader DEF IsReader
  <2>8. IsReader(t) /\ t.mem = s.mem /\ t.end = r.end /\ t.told = s.told /\ t.pending = s.pending /\ t.ok = s.ok
    BY <2>1, <2>7, Onto DEF Moved
  <2>9. Handled(r, t)
    BY <1>4, <2>5, <2>6, <2>8 DEF Handled
  <2> QED
    BY <2>2, <2>9
<1> QED
  BY <1>3, <1>4

---------------------------------------------------------------------------
(* Containers, whatever they hold. *)

\* The items of a container are handled one after the other.
Passing(head, n, after) ==
  after[0] = head /\ \A i \in 1..n : after[i] = ContainerItem(after[i - 1])

\* workContainer makes one pass after the other.
LEMMA ContainerIs ==
  ASSUME NEW r, NEW head, head = Fetch(r, <<"int", "int">>), head.ok, NEW n \in Nat, n = head.got[2]
  PROVE  \E after : Passing(head, n, after) /\ WorkContainer(r) = after[n]
<1> DEFINE Next1(g) == [i \in 0..n |-> IF i = 0 THEN head ELSE ContainerItem(g[i - 1])]
           Runs(g, m) == g = [i \in 0..m |-> g[i]] /\ g[0] = head
                         /\ \A i \in 1..m : g[i] = ContainerItem(g[i - 1])
           P == {m \in 0..n : \E g : Runs(g, m)}
<1>2. 0 \in P
  <2>1. PICK g : g = [i \in 0..0 |-> head]
    OBVIOUS
  <2>2. Runs(g, 0)
    BY <2>1
  <2>3. \E f : Runs(f, 0)
    BY <2>2
  <2>4. 0 \in 0..n
    OBVIOUS
  <2> HIDE DEF Runs
  <2> QED
    BY <2>3, <2>4
<1>3. ASSUME NEW m \in 1..n, m - 1 \in P PROVE m \in P
  <2>1. PICK g : Runs(g, m - 1)
    <3> HIDE DEF Runs
    <3> QED
      BY <1>3
  <2>2. PICK h : h = [i \in 0..m |-> IF i = m THEN ContainerItem(g[m - 1]) ELSE g[i]]
    OBVIOUS
  <2>3. h = [i \in 0..m |-> h[i]] /\ h[0] = head
    BY <2>1, <2>2
  <2>4. ASSUME NEW i \in 1..m PROVE h[i] = ContainerItem(h[i - 1])
    <3>1. h[i - 1] = g[i - 1]
      BY <2>2
    <3>2. CASE i = m
      BY <2>2, <3>1, <3>2
    <3>3. CASE i # m
      <4>1. i \in 1..(m - 1) /\ h[i] = g[i]
        BY <2>2, <3>3
      <4>2. g[i] = ContainerItem(g[i - 1])
        BY <2>1, <4>1
      <4> QED
        BY <3>1, <4>1, <4>2
    <3> QED
      BY <3>2, <3>3
  <2>5. \E f : Runs(f, m)
    BY <2>3, <2>4
  <2>6. m \in 0..n
    OBVIOUS
  <2> HIDE DEF Runs
  <2> QED
    BY <2>5, <2>6
<1>4. n \in P
  <2>1. \A i \in 0..n : i \in P
    <3> HIDE DEF P
    <3> QED
      BY <1>2, <1>3, Counting
  <2> QED
    BY <2>1
<1>5. PICK g : Runs(g, n)
  <2> HIDE DEF Runs
  <2> QED
    BY <1>4
<1>6. g = Next1(g)
  <2>1. \A i \in 0..n : g[i] = Next1(g)[i]
    <3> TAKE i \in 0..n
    <3>1. CASE i = 0
      BY <1>5, <3>1
    <3>2. CASE i # 0
      <4>1. i \in 1..n
        BY <3>2
      <4> QED
        BY <1>5, <3>2, <4>1
    <3> QED
      BY <3>1, <3>2
  <2> QED
    BY <1>5, <2>1
<1>7. WorkContainer(r) = (CHOOSE f : f = Next1(f))[n]
  BY DEF WorkContainer
<1>8. PICK after : after = (CHOOSE f : f = Next1(f)) /\ after = Next1(after)
  <2> HIDE DEF Next1
  <2>1. \E f : f = Next1(f)
    BY <1>6
  <2> QED
    BY <2>1
<1>9. after[0] = head /\ \A i \in 1..n : after[i] = ContainerItem(after[i - 1])
  <2>1. 0 \in 0..n /\ Next1(after)[0] = head
    OBVIOUS
  <2>2. ASSUME NEW i \in 1..n PROVE Next1(after)[i] = ContainerItem(after[i - 1])
    <3>1. i \in 0..n /\ i # 0
      OBVIOUS
    <3> QED
      BY <3>1
  <2> HIDE DEF Next1
  <2> QED
    BY <1>8, <2>1, <2>2
<1> HIDE DEF Next1
<1> QED
  BY <1>7, <1>8, <1>9 DEF Passing

\* Whatever the items are, each is handled and nothing told is untold.
LEMMA AnyPass ==
  ASSUME NEW head, IsReader(head), NEW n \in Nat, NEW after, Passing(head, n, after)
  PROVE  \A k \in 0..n : /\ IsReader(after[k])
                         /\ \A j \in 0..k : Handled(after[j], after[k])
<1>1. \A i \in 0..n : IsReader(after[i])
  <2> DEFINE P == {i \in 0..n : IsReader(after[i])}
  <2>1. 0 \in P
    BY DEF Passing
  <2>2. ASSUME NEW i \in 1..n, i - 1 \in P PROVE i \in P
    <3>1. IsReader(after[i - 1]) /\ after[i] = ContainerItem(after[i - 1])
      BY <2>2 DEF Passing
    <3>2. IsReader(after[i])
      BY <3>1, AnyItem, HandledReader
    <3> QED
      BY <3>2
  <2>3. \A i \in 0..n : i \in P
    <3> HIDE DEF P
    <3> QED
      BY <2>1, <2>2, Counting
  <2> QED
    BY <2>3
<1>2. ASSUME NEW j \in 0..n PROVE \A k \in 0..n : j <= k => Handled(after[j], after[k])
  <2> DEFINE P == {k \in 0..n : j <= k => Handled(after[j], after[k])}
  <2>0. Handled(after[j], after[j])
    <3>1. Onward(after[j], after[j]) /\ IsReader(after[j])
      BY <1>1 DEF Onward
    <3> QED
      BY <3>1, OnwardHandled
  <2>1. 0 \in P
    <3>1. CASE j = 0
      BY <2>0, <3>1
    <3>2. CASE j # 0
      BY <3>2
    <3> QED
      BY <3>1, <3>2
  <2>2. ASSUME NEW k \in 1..n, k - 1 \in P PROVE k \in P
    <3>1. CASE j <= k - 1
      <4>1. Handled(after[j], after[k - 1])
        BY <2>2, <3>1
      <4>2. after[k] = ContainerItem(after[k - 1])
        BY DEF Passing
      <4>3. IsReader(after[j]) /\ IsReader(after[k - 1])
        BY <1>1
      <4>4. Handled(after[k - 1], after[k])
        BY <4>2, <4>3, AnyItem
      <4>5. Handled(after[j], after[k])
        BY <4>1, <4>3, <4>4, HandledAgain
      <4> QED
        BY <4>5
    <3>2. CASE j = k
      BY <2>0, <3>2
    <3>3. CASE ~(j <= k - 1) /\ j # k
      <4>1. ~(j <= k)
        BY <3>3
      <4> QED
        BY <4>1
    <3> QED
      BY <3>1, <3>2, <3>3
  <2>3. \A k \in 0..n : k \in P
    <3> HIDE DEF P
    <3> QED
      BY <2>1, <2>2, Counting
  <2> QED
    BY <2>3
<1>3. ASSUME NEW k \in 0..n, NEW j \in 0..k PROVE Handled(after[j], after[k])
  <2>1. j \in 0..n /\ j <= k
    OBVIOUS
  <2> QED
    BY <1>2, <2>1
<1> QED
  BY <1>1, <1>3

\* Whatever stands there, workContainer handles.
LEMMA AnyContainer ==
  ASSUME NEW r, IsReader(r)
  PROVE  Handled(r, WorkContainer(r))
<1>1. PICK ts, head : ts = <<"int", "int">> /\ head = Fetch(r, ts)
  OBVIOUS
<1>2. Fetched(r, ts, head)
  BY <1>1, ShortTypes, AnyFetch
<1>3. IsReader(head) /\ Handled(r, head)
  BY <1>2, OnwardHandled, OnwardReader DEF Fetched
<1>4. CASE ~head.ok
  <2>1. WorkContainer(r) = head
    BY <1>1, <1>4 DEF WorkContainer
  <2> QED
    BY <1>3, <2>1
<1>5. CASE head.ok
  <2>1. PICK n : n = head.got[2]
    OBVIOUS
  <2>2. n \in Nat
    <3>1. Len(ts) = 2 /\ ts[2] = "int"
      BY <1>1
    <3>2. 2 \in 1..Len(ts) /\ OfType(ts[2]) = Nat
      BY <3>1 DEF OfType
    <3> QED
      BY <1>2, <1>5, <2>1, <3>2 DEF Fetched
  <2>3. PICK after : Passing(head, n, after) /\ WorkContainer(r) = after[n]
    BY <1>1, <1>5, <2>1, <2>2, ContainerIs
  <2>4. 0 \in 0..n /\ n \in 0..n /\ after[0] = head
    BY <2>2, <2>3 DEF Passing
  <2>5. Handled(after[0], after[n])
    BY <1>3, <2>2, <2>3, <2>4, AnyPass
  <2> QED
    BY <1>3, <2>3, <2>4, <2>5, HandledAgain
<1> QED
  BY <1>4, <1>5

\* Whatever a message holds, processRpcMessage handles.
LEMMA AnyMessage ==
  ASSUME NEW r, IsReader(r)
  PROVE  Handled(r, RpcMessage(r))
BY AnyContainer, AnyExecute DEF RpcMessage

---------------------------------------------------------------------------
(* Items as they are written. *)

\* The n fields of an item, ss as they are written.
AsFields(item, n, ss) ==
  /\ n \in Nat /\ n = Len(SentTypes(item)) /\ Len(item.values) = n /\ item.values \in Seq(Value)
  /\ AreTypes(SentTypes(item))
  /\ AreFields(n, SentTypes(item), item.values, ss) /\ IsPieces(n, ss)
  /\ Plain(item) = AppendInt(item.op) \o FlattenSeq(ss)

\* The types of the fields of an item are types.
LEMMA TypesSent ==
  ASSUME NEW item, IsItem(item)
  PROVE  AreTypes(SentTypes(item)) /\ item.op \in Nat /\ IsWord(item.op)
         /\ (IsAnswer(item) => item.id \in DOMAIN Queries)
<1>1. IsWord(item.op) /\ (IsAnswer(item) => item.id \in DOMAIN Queries)
  BY DEF IsItem
<1>2. item.op \in Nat
  BY <1>1 DEF IsWord
<1>3. CASE IsAnswer(item) /\ item.op # TL_RpcError
  <2>1. SentTypes(item) = Queries[item.id].fields
    BY <1>3 DEF SentTypes
  <2>2. AreTypes(Queries[item.id].fields)
    BY <1>1, <1>3, AsSent
  <2> QED
    BY <1>1, <1>2, <2>1, <2>2
<1>4. CASE ~(IsAnswer(item) /\ item.op # TL_RpcError)
  <2>1. SentTypes(item) = Types(item.op)
    BY <1>4 DEF SentTypes
  <2>2. AreTypes(Types(item.op))
    BY AsSent
  <2> QED
    BY <1>1, <1>2, <2>1, <2>2
<1> QED
  BY <1>1, <1>2, <1>3, <1>4

\* An item is its constructor and its fields.
LEMMA PlainIs ==
  ASSUME NEW item, IsItem(item)
  PROVE  \E n, ss : AsFields(item, n, ss)
<1>1. PICK n, types, values : n = Len(SentTypes(item)) /\ types = SentTypes(item) /\ values = item.values
  OBVIOUS
<1>2. n \in Nat /\ AreTypes(types) /\ \A i \in 1..n : IsType(types[i])
  BY <1>1, TypesSent DEF AreTypes
<1>3. values = [i \in 1..n |-> values[i]] /\ \A i \in DOMAIN values : IsValue(types[i], values[i])
  BY <1>1 DEF IsItem, IsSequence
<1>4. DOMAIN values = 1..n
  BY <1>3
<1>5. PICK ss : ss = [i \in DOMAIN values |-> Field(types[i], values[i])]
  OBVIOUS
<1>6. \A i \in 1..n : Whole(ss[i]) /\ values[i] \in Value /\ ss[i] = Field(types[i], values[i])
                      /\ IsType(types[i]) /\ IsValue(types[i], values[i])
  <2> TAKE i \in 1..n
  <2>1. IsType(types[i]) /\ IsValue(types[i], values[i]) /\ ss[i] = Field(types[i], values[i])
    BY <1>2, <1>3, <1>4, <1>5
  <2>2. Whole(Field(types[i], values[i])) /\ values[i] \in Value
    BY <2>1, FieldWritten
  <2> QED
    BY <2>1, <2>2
<1>7. ss = [i \in 1..n |-> ss[i]]
  BY <1>4, <1>5
<1>8. values \in Seq(Value) /\ Len(values) = n
  <2>1. values \in [1..n -> Value]
    BY <1>3, <1>6
  <2> QED
    BY <1>2, <2>1
<1>9. Plain(item) = AppendInt(item.op) \o FlattenSeq(ss)
  BY <1>1, <1>5 DEF Plain
<1>10. IsPieces(n, ss) /\ AreFields(n, types, values, ss)
  BY <1>6, <1>7 DEF IsPieces, AreFields
<1> QED
  BY <1>1, <1>2, <1>8, <1>9, <1>10 DEF AsFields

\* It is whole words.
LEMMA PlainWritten ==
  ASSUME NEW item, IsItem(item)
  PROVE  Whole(Plain(item)) /\ Plain(item) \in Seq(Byte)
<1>1. PICK n, ss : AsFields(item, n, ss)
  BY PlainIs
<1>2. Whole(FlattenSeq(ss)) /\ Whole(AppendInt(item.op))
  BY <1>1, FlatWhole, IntWords, TypesSent DEF AsFields
<1>3. Whole(Plain(item))
  BY <1>1, <1>2, WholeJoined DEF AsFields
<1> QED
  BY <1>3 DEF Whole

\* So is what is gzipped.
LEMMA GzippedWritten ==
  ASSUME NEW s \in Seq(Byte)
  PROVE  /\ Whole(Gzipped(s)) /\ Whole(AppendInt(TL_GZipPacked)) /\ Words(AppendInt(TL_GZipPacked)) = 1
         /\ Whole(TLString(s)) /\ Words(Gzipped(s)) = 1 + Words(TLString(s))
         /\ Gzipped(s) = AppendInt(TL_GZipPacked) \o TLString(s)
<1>1. Whole(AppendInt(TL_GZipPacked)) /\ Words(AppendInt(TL_GZipPacked)) = 1
  BY Known, IntWords DEF IsWord
<1>2. Whole(TLString(s))
  BY StringWritten
<1> QED
  BY <1>1, <1>2, WholeJoined DEF Gzipped

\* The words in front of an answer.
ResultHead(id) == AppendInt(TL_RpcResult) \o AppendInt(id)

\* So is the head of a result.
LEMMA HeadWritten ==
  ASSUME NEW id \in Nat
  PROVE  /\ Whole(ResultHead(id)) /\ Words(ResultHead(id)) = 2
         /\ Whole(AppendInt(TL_RpcResult)) /\ Words(AppendInt(TL_RpcResult)) = 1
         /\ Whole(AppendInt(id)) /\ Words(AppendInt(id)) = 1
<1>1. TL_RpcResult \in Nat
  BY Known DEF IsWord
<1>2. /\ Whole(AppendInt(TL_RpcResult)) /\ Words(AppendInt(TL_RpcResult)) = 1
      /\ Whole(AppendInt(id)) /\ Words(AppendInt(id)) = 1
  BY <1>1, IntWords
<1> QED
  BY <1>2, WholeJoined DEF ResultHead

\* An item as it is written, in its four forms.
LEMMA ContentIs ==
  ASSUME NEW item
  PROVE  /\ item.form = "direct" => Content(item) = Plain(item)
         /\ item.form = "packed" => Content(item) = Gzipped(Plain(item))
         /\ item.form = "result" => Content(item) = ResultHead(item.id) \o Plain(item)
         /\ item.form = "packedResult" => Content(item) = ResultHead(item.id) \o Gzipped(Plain(item))
<1>1. item.form = "direct" => Content(item) = Plain(item)
  BY DEF Content
<1>2. item.form = "packed" => Content(item) = Gzipped(Plain(item))
  BY DEF Content
<1>3. item.form = "result" => Content(item) = ResultHead(item.id) \o Plain(item)
  BY DEF Content, ResultHead
<1>4. item.form = "packedResult" => Content(item) = ResultHead(item.id) \o Gzipped(Plain(item))
  BY DEF Content, ResultHead
<1> QED
  BY <1>1, <1>2, <1>3, <1>4

\* It is whole words.
LEMMA ContentWritten ==
  ASSUME NEW item, IsItem(item)
  PROVE  Whole(Content(item))
<1>1. Whole(Plain(item)) /\ Whole(Gzipped(Plain(item)))
  BY PlainWritten, GzippedWritten
<1>2. IsAnswer(item) => Whole(ResultHead(item.id))
  BY TypesSent, AsSent, HeadWritten
<1>3. item.form = "direct" \/ item.form = "packed" \/ item.form = "result" \/ item.form = "packedResult"
  BY DEF IsItem
<1>4. CASE item.form = "direct"
  BY <1>1, <1>4, ContentIs
<1>5. CASE item.form = "packed"
  BY <1>1, <1>5, ContentIs
<1>6. CASE item.form = "result"
  <2>1. Whole(ResultHead(item.id))
    BY <1>2, <1>6 DEF IsAnswer
  <2>2. Whole(ResultHead(item.id) \o Plain(item))
    BY <1>1, <2>1, WholeJoined
  <2> QED
    BY <1>6, <2>2, ContentIs
<1>7. CASE item.form = "packedResult"
  <2>1. Whole(ResultHead(item.id))
    BY <1>2, <1>7 DEF IsAnswer
  <2>2. Whole(ResultHead(item.id) \o Gzipped(Plain(item)))
    BY <1>1, <2>1, WholeJoined
  <2> QED
    BY <1>7, <2>2, ContentIs
<1> QED
  BY <1>3, <1>4, <1>5, <1>6, <1>7

\* The fields of an item that stands where the reader is, or the first of them.
StartOf(types, k, all) == k = Len(types) /\ k \in 0..Len(all) /\ \A i \in 1..k : types[i] = all[i]

\* s has read the first k fields of the item.
ReadOff(r, s, item, k) ==
  /\ Onward(r, s) /\ s.ok /\ s.got = Firsts(item.values, k)
  /\ k = Len(SentTypes(item)) => s.ptr = r.ptr + Words(Plain(item))

\* An item that stands where the reader is is fetched as it was written.
LEMMA ThePlain ==
  ASSUME NEW r, IsReader(r), r.ok, NEW item, IsItem(item),
         Stored(r.mem, r.ptr, Plain(item)), r.ptr + Words(Plain(item)) <= r.end,
         NEW types, NEW k, StartOf(types, k, SentTypes(item))
  PROVE  /\ ReadOff(r, Fetch(FetchInt(r), types), item, k)
         /\ WordAt(r.mem, r.ptr) = item.op /\ InMemory(r, 1)
<1>0. k = Len(types) /\ k \in 0..Len(SentTypes(item)) /\ \A i \in 1..k : types[i] = SentTypes(item)[i]
  BY DEF StartOf
<1>1. PICK n, ss : AsFields(item, n, ss)
  BY PlainIs
<1>2. PICK a, b : a = AppendInt(item.op) /\ b = FlattenSeq(ss)
  OBVIOUS
<1>3. /\ n \in Nat /\ n = Len(SentTypes(item)) /\ Plain(item) = a \o b /\ IsPieces(n, ss)
      /\ AreFields(n, SentTypes(item), item.values, ss)
  BY <1>1, <1>2 DEF AsFields
<1>4. Whole(a) /\ Words(a) = 1 /\ Whole(b) /\ IsWord(item.op) /\ item.op \in Nat
  BY <1>2, <1>3, FlatWhole, IntWords, TypesSent
<1>5. r.mem \in Seq(Byte) /\ r.ptr \in Nat /\ r.end \in Nat
  BY DEF IsReader
<1>6. Stored(r.mem, r.ptr, a) /\ Stored(r.mem, r.ptr + 1, b)
  BY <1>3, <1>4, <1>5, StoredJoined
<1>7. Words(Plain(item)) = 1 + Words(b) /\ Words(b) \in Nat
  <2>1. Words(a \o b) = Words(a) + Words(b)
    BY <1>4, WholeJoined
  <2>2. Words(b) \in Nat
    BY <1>4, WholeIs
  <2> QED
    BY <1>3, <1>4, <2>1, <2>2
<1>8. PICK s, g : s = FetchInt(r) /\ g = Append(r.got, item.op)
  OBVIOUS
<1>9. After(r, s, r.ptr + 1, g) /\ WordAt(r.mem, r.ptr) = item.op /\ InMemory(r, 1)
  BY <1>2, <1>4, <1>6, <1>8, TheInt
<1>10. IsReader(s) /\ s.ok /\ s.mem = r.mem /\ s.ptr = r.ptr + 1 /\ s.end = r.end
  BY <1>9 DEF After, Onward
<1>11. PICK pos : Laid(r.mem, r.ptr + 1, n, ss, pos) /\ pos[n] = (r.ptr + 1) + Words(b)
  BY <1>2, <1>3, <1>5, <1>6, LaidOut
<1>12. pos[k] \in Nat /\ pos[k] <= pos[n]
  BY <1>0, <1>3, <1>11, PlacesRise
<1>13. pos[n] = r.ptr + Words(Plain(item)) /\ pos[k] <= r.end
  <2>1. PICK p, w, z, e, x, y : p = r.ptr /\ w = Words(b) /\ z = Words(Plain(item)) /\ e = r.end
                                /\ x = pos[n] /\ y = pos[k]
    OBVIOUS
  <2>2. p \in Nat /\ w \in Nat /\ z = 1 + w /\ x = (p + 1) + w /\ y \in Nat /\ y <= x /\ p + z <= e /\ e \in Nat
    BY <1>5, <1>7, <1>11, <1>12, <2>1
  <2>3. x = p + z /\ y <= e
    BY <2>2
  <2> QED
    BY <2>1, <2>3
<1>14. PICK t : t = Fetch(s, types)
  OBVIOUS
<1>15. After(s, t, pos[k], Firsts(item.values, k))
  <2>1. Laid(s.mem, s.ptr, n, ss, pos) /\ pos[k] <= s.end
    BY <1>10, <1>11, <1>13
  <2>2. AreFields(n, SentTypes(item), item.values, ss)
    BY <1>3
  <2>3. k \in 0..n /\ Len(types) = k /\ \A i \in 1..k : types[i] = SentTypes(item)[i]
    BY <1>0, <1>3
  <2> QED
    BY <1>3, <1>10, <1>14, <2>1, <2>2, <2>3, TheFetch
<1>16. Onward(s, t) /\ t.ok /\ t.ptr = pos[k] /\ t.got = Firsts(item.values, k)
  BY <1>10, <1>15 DEF After
<1>17. Onward(r, t)
  BY <1>9, <1>16, OnwardAgain DEF After
<1>18. k = Len(SentTypes(item)) => t.ptr = r.ptr + Words(Plain(item))
  BY <1>3, <1>13, <1>16
<1> QED
  BY <1>8, <1>9, <1>14, <1>16, <1>17, <1>18 DEF ReadOff

\* The first values are a piece of the values.
LEMMA FirstValues ==
  ASSUME NEW values \in Seq(Value), NEW k \in 0..Len(values)
  PROVE  /\ Firsts(values, k) \in Seq(Value) /\ Len(Firsts(values, k)) = k
         /\ Firsts(values, k) = SubSeq(values, 1, Len(Firsts(values, k)))
<1>1. k \in Nat /\ \A i \in 1..k : values[i] \in Value
  OBVIOUS
<1>2. PICK f : f = Firsts(values, k)
  OBVIOUS
<1>3. f \in [1..k -> Value] /\ f = [i \in 1..k |-> values[i]]
  BY <1>1, <1>2 DEF Firsts
<1>4. f \in Seq(Value) /\ Len(f) = k
  BY <1>1, <1>3
<1>5. SubSeq(values, 1, k) = f
  BY <1>1, <1>3
<1> QED
  BY <1>2, <1>4, <1>5

---------------------------------------------------------------------------
(* What the handlers do with an item that stands where the reader is. *)

\* Is the program to be told the item.
Wanted(asked, item) == IF IsAnswer(item) THEN item.id \in asked ELSE item.op \in DirectOps
\* The program is told the item, if at all, before anything else.
Reported(r, s, item) ==
  /\ Handled(r, s)
  /\ Wanted(r.pending, item) => Len(s.told) > Len(r.told) /\ Tells(s.told[Len(r.told) + 1], item)
\* It is told nothing more.
Alone(r, s, item) ==
  /\ s.ok /\ s.inEnd = r.inEnd
  /\ Len(s.told) = Len(r.told) + (IF Wanted(r.pending, item) THEN 1 ELSE 0)

\* What a handler should do with an item.
Did(r, s, item) ==
  Reported(r, s, item) /\ (~Misread(item) => Alone(r, s, item) /\ s.ptr = r.end)

\* Its fields, as told, tell the item.
LEMMA Recorded ==
  ASSUME NEW item, IsItem(item), NEW k \in 0..Len(SentTypes(item)), NEW id,
         IF IsAnswer(item)
           THEN id = item.id /\ (item.op # TL_RpcError => k = Len(Queries[item.id].reads))
           ELSE id = NoQuery /\ k = Len(SentTypes(item))
  PROVE  Tells(Tale(item.op, id, Firsts(item.values, k)), item)
<1>1. item.values \in Seq(Value) /\ Len(item.values) = Len(SentTypes(item))
  BY PlainIs DEF AsFields
<1>2. PICK f : f = Firsts(item.values, k)
  OBVIOUS
<1>3. Len(f) = k /\ f = SubSeq(item.values, 1, Len(f))
  BY <1>1, <1>2, FirstValues
<1>4. PICK tale : tale = Tale(item.op, id, f)
  OBVIOUS
<1>5. tale.op = item.op /\ tale.id = id /\ tale.got = f
  BY <1>4 DEF Tale
<1>6. Tells(tale, item)
  BY <1>1, <1>3, <1>5 DEF Tells
<1> QED
  BY <1>2, <1>4, <1>6

\* An update that stands where the reader is is told.
LEMMA TheWork ==
  ASSUME NEW r, IsReader(r), r.ok, NEW item, IsItem(item), ~IsAnswer(item),
         Stored(r.mem, r.ptr, Plain(item)), r.ptr + Words(Plain(item)) = r.end
  PROVE  LET s == Work(r, item.op) IN
         /\ Handled(r, s) /\ s.ok /\ s.ptr = r.end /\ s.inEnd = r.inEnd
         /\ Len(s.told) = Len(r.told) + 1
         /\ Tells(s.told[Len(r.told) + 1], item)
<1>1. PICK types, k : types = Types(item.op) /\ k = Len(types)
  OBVIOUS
<1>2. types = SentTypes(item) /\ k \in Nat /\ item.op \in Nat
  BY <1>1, TypesSent DEF SentTypes, AreTypes
<1>3. k \in 0..Len(SentTypes(item)) /\ \A i \in 1..k : types[i] = SentTypes(item)[i]
  BY <1>1, <1>2
<1>4. PICK s : s = Fetch(FetchInt(r), types)
  OBVIOUS
<1>5. r.ptr + Words(Plain(item)) <= r.end
  BY DEF IsReader
<1>6. Onward(r, s) /\ s.ok /\ s.got = Firsts(item.values, k) /\ s.ptr = r.ptr + Words(Plain(item))
  <2>1. StartOf(types, k, SentTypes(item))
    BY <1>1, <1>3 DEF StartOf
  <2>2. ReadOff(r, s, item, k)
    BY <1>4, <1>5, <2>1, ThePlain
  <2> QED
    BY <1>1, <1>2, <2>2 DEF ReadOff
<1>7. PICK t : t = Told(s, item.op, NoQuery)
  OBVIOUS
<1>8. /\ Handled(r, t) /\ Len(t.told) = Len(r.told) + 1
      /\ t.told[Len(r.told) + 1] = Tale(item.op, NoQuery, s.got)
  BY <1>2, <1>6, <1>7, ToldNone
<1>9. t.ok /\ t.ptr = s.ptr /\ t.inEnd = r.inEnd
  BY <1>2, <1>6, <1>7, Telled, NoQueryIs DEF Onward
<1>10. Tells(Tale(item.op, NoQuery, Firsts(item.values, k)), item)
  BY <1>1, <1>2, <1>3, Recorded
<1>11. t = Work(r, item.op)
  BY <1>1, <1>4, <1>7 DEF Work
<1>12. t.ok /\ t.ptr = r.end /\ t.inEnd = r.inEnd
  BY <1>6, <1>9
<1>13. Tells(t.told[Len(r.told) + 1], item)
  BY <1>6, <1>8, <1>10
<1> QED
  BY <1>8, <1>11, <1>12, <1>13

\* The constructor stands in front of an item.
LEMMA HeadOp ==
  ASSUME NEW r, IsReader(r), r.ok, NEW item, IsItem(item),
         Stored(r.mem, r.ptr, Plain(item)), r.ptr + Words(Plain(item)) <= r.end
  PROVE  WordAt(r.mem, r.ptr) = item.op /\ InMemory(r, 1)
<1>1. PICK types : types = SentTypes(item)
  OBVIOUS
<1>2. Len(types) \in Nat
  BY <1>1, TypesSent DEF AreTypes
<1>3. StartOf(types, Len(types), SentTypes(item))
  BY <1>1, <1>2 DEF StartOf
<1> QED
  BY <1>3, ThePlain

\* An item nobody wants is skipped.
LEMMA NothingMore ==
  ASSUME NEW r, IsReader(r), NEW item, ~Wanted(r.pending, item), r.ok
  PROVE  Reported(r, ToEnd(r), item) /\ Alone(r, ToEnd(r), item) /\ ToEnd(r).ptr = r.end
<1>1. PICK s : s = ToEnd(r)
  OBVIOUS
<1>2. After(r, s, r.end, r.got) /\ Handled(r, s)
  BY <1>1, Skipping
<1>3. s.ok /\ s.told = r.told /\ s.ptr = r.end /\ s.inEnd = r.inEnd
  BY <1>2 DEF After, Onward
<1>4. Len(s.told) = Len(r.told) + 0
  BY <1>3 DEF IsReader
<1> QED
  BY <1>1, <1>2, <1>3, <1>4 DEF Reported, Alone

\* workUpdate does what it should.
LEMMA TheUpdate ==
  ASSUME NEW r, IsReader(r), r.ok, NEW item, IsItem(item), ~IsAnswer(item),
         Stored(r.mem, r.ptr, Plain(item)), r.ptr + Words(Plain(item)) = r.end
  PROVE  Did(r, WorkUpdate(r), item)
<1>1. PICK op, w : op = item.op /\ w = Work(r, op)
  OBVIOUS
<1>2. r.ptr + Words(Plain(item)) <= r.end
  BY DEF IsReader
<1>3. WordAt(r.mem, r.ptr) = op
  BY <1>1, <1>2, HeadOp
<1>4. /\ Handled(r, w) /\ w.ok /\ w.ptr = r.end /\ w.inEnd = r.inEnd /\ Len(w.told) = Len(r.told) + 1
      /\ Tells(w.told[Len(r.told) + 1], item)
  BY <1>1, TheWork
<1>5. Len(r.told) \in Nat
  BY DEF IsReader
<1>6. CASE op = TL_UpdatesCombined
  <2>1. PICK s : s = WorkUpdates(w)
    OBVIOUS
  <2>2. WorkUpdate(r) = s
    BY <1>1, <1>3, <1>6, <2>1 DEF WorkUpdate
  <2>3. Handled(w, s)
    BY <1>4, <2>1, AnyWorkUpdates, HandledReader
  <2>4. Handled(r, s)
    BY <1>4, <2>3, HandledAgain
  <2>5. PICK n : n = Len(r.told)
    OBVIOUS
  <2>6. Len(s.told) >= Len(w.told) /\ Len(s.told) \in Nat
    BY <2>3 DEF Handled, IsReader
  <2>7. Len(s.told) > n
    BY <1>4, <1>5, <2>5, <2>6
  <2>8. n + 1 \in 1..Len(w.told)
    BY <1>4, <1>5, <2>5
  <2>9. s.told[n + 1] = w.told[n + 1]
    BY <2>3, <2>8 DEF Handled
  <2>10. Misread(item)
    BY <1>1, <1>6 DEF Misread
  <2> QED
    BY <1>4, <2>2, <2>4, <2>5, <2>7, <2>9, <2>10 DEF Did, Reported
<1>7. CASE op \in DirectOps \ {TL_UpdatesCombined}
  <2>1. WorkUpdate(r) = w
    BY <1>1, <1>3, <1>7 DEF WorkUpdate
  <2>2. Wanted(r.pending, item)
    BY <1>1, <1>7 DEF Wanted
  <2>3. Len(w.told) > Len(r.told)
    BY <1>4, <1>5
  <2> QED
    BY <1>4, <2>1, <2>2, <2>3 DEF Did, Reported, Alone
<1>8. CASE op # TL_UpdatesCombined /\ op \notin DirectOps \ {TL_UpdatesCombined}
  <2>1. WorkUpdate(r) = ToEnd(r)
    BY <1>1, <1>3, <1>8 DEF WorkUpdate
  <2>2. ~Wanted(r.pending, item)
    BY <1>1, <1>8 DEF Wanted
  <2> QED
    BY <2>1, <2>2, NothingMore DEF Did
<1> QED
  BY <1>6, <1>7, <1>8

\* queryOnResult does what it should.
LEMMA TheAnswer ==
  ASSUME NEW r, IsReader(r), r.ok, NEW item, IsItem(item), IsAnswer(item), item.op # TL_RpcError,
         Stored(r.mem, r.ptr, Plain(item)), r.ptr + Words(Plain(item)) = r.end
  PROVE  LET s == Answer(r, item.id) IN
         /\ Reported(r, s, item) /\ Alone(r, s, item)
         /\ Queries[item.id].reads = Queries[item.id].fields => s.ptr = r.end
<1>1. PICK op, id : op = item.op /\ id = item.id
  OBVIOUS
<1>2. r.ptr + Words(Plain(item)) <= r.end
  BY DEF IsReader
<1>3. WordAt(r.mem, r.ptr) = op
  BY <1>1, <1>2, HeadOp
<1>4. id \in DOMAIN Queries /\ op = Queries[id].op /\ op \in Nat /\ id \in Nat
  <2>1. id \in DOMAIN Queries /\ op = Queries[id].op
    BY <1>1 DEF IsItem
  <2> QED
    BY <2>1, AsSent
<1>5. CASE id \notin r.pending
  <2>1. Answer(r, id) = ToEnd(r)
    BY <1>5, AnswerIs
  <2>2. ~Wanted(r.pending, item)
    BY <1>1, <1>5 DEF Wanted
  <2> QED
    BY <1>1, <2>1, <2>2, NothingMore
<1>6. CASE id \in r.pending
  <2>1. PICK t, types, k : t = Without(r, id) /\ types = Queries[id].reads /\ k = Len(types)
    OBVIOUS
  <2>2. /\ IsReader(t) /\ t.mem = r.mem /\ t.ptr = r.ptr /\ t.end = r.end /\ t.ok = r.ok
        /\ t.told = r.told /\ t.pending = r.pending \ {id} /\ t.inEnd = r.inEnd
    BY <2>1, Taking
  <2>3. SentTypes(item) = Queries[id].fields
    BY <1>1 DEF SentTypes
  <2>4. IsPrefixOf(types, SentTypes(item)) /\ AreTypes(types) /\ AreTypes(SentTypes(item))
    BY <1>4, <2>1, <2>3, AsSent DEF IsQuery
  <2>5. k \in 0..Len(SentTypes(item)) /\ \A i \in 1..k : types[i] = SentTypes(item)[i]
    <3>1. k \in Nat /\ Len(SentTypes(item)) \in Nat
      BY <2>1, <2>4 DEF AreTypes
    <3> QED
      BY <2>1, <2>4, <3>1 DEF IsPrefixOf
  <2>6. PICK s : s = Fetch(FetchInt(t), types)
    OBVIOUS
  <2>7. Stored(t.mem, t.ptr, Plain(item)) /\ t.ptr + Words(Plain(item)) <= t.end
    BY <1>2, <2>2
  <2>8. /\ Onward(t, s) /\ s.ok /\ s.got = Firsts(item.values, k)
        /\ k = Len(SentTypes(item)) => s.ptr = t.ptr + Words(Plain(item))
    <3>1. StartOf(types, k, SentTypes(item))
      BY <2>1, <2>5 DEF StartOf
    <3>2. ReadOff(t, s, item, k)
      BY <2>2, <2>6, <2>7, <3>1, ThePlain
    <3> QED
      BY <3>2 DEF ReadOff
  <2>9. PICK u : u = Told(s, op, id)
    OBVIOUS
  <2>10. Answer(r, id) = u
    BY <1>3, <1>4, <1>6, <2>1, <2>6, <2>9, AnswerIs
  <2>11. /\ IsReader(s) /\ s.mem = r.mem /\ s.end = r.end /\ s.told = r.told
         /\ s.pending = r.pending \ {id} /\ s.inEnd = r.inEnd
    BY <2>2, <2>8 DEF Onward
  <2>12. /\ Handled(r, u) /\ Len(u.told) = Len(r.told) + 1
         /\ u.told[Len(r.told) + 1] = Tale(op, id, s.got)
    BY <1>4, <2>8, <2>9, <2>11, ToldHandled
  <2>13. u.ok /\ u.ptr = s.ptr /\ u.inEnd = r.inEnd
    BY <1>4, <2>8, <2>9, <2>11, Telled
  <2>14. Tells(Tale(op, id, Firsts(item.values, k)), item)
    BY <1>1, <2>1, <2>5, Recorded
  <2>15. Wanted(r.pending, item)
    BY <1>1, <1>6 DEF Wanted
  <2>16. Len(u.told) > Len(r.told)
    BY <2>12 DEF IsReader
  <2>17. Queries[id].reads = Queries[id].fields => u.ptr = r.end
    BY <2>1, <2>2, <2>3, <2>8, <2>13
  <2> QED
    BY <1>1, <2>8, <2>10, <2>12, <2>13, <2>14, <2>15, <2>16, <2>17 DEF Reported, Alone
<1> QED
  BY <1>5, <1>6

\* queryOnError does what it should.
LEMMA TheError ==
  ASSUME NEW r, IsReader(r), r.ok, NEW item, IsItem(item), IsAnswer(item), item.op = TL_RpcError,
         Stored(r.mem, r.ptr, Plain(item)), r.ptr + Words(Plain(item)) = r.end
  PROVE  LET s == QueryOnError(r, item.id) IN
         Reported(r, s, item) /\ Alone(r, s, item) /\ s.ptr = r.end
<1>1. PICK op, id, types, k : op = TL_RpcError /\ id = item.id /\ types = Types(op) /\ k = Len(types)
  OBVIOUS
<1>2. r.ptr + Words(Plain(item)) <= r.end
  BY DEF IsReader
<1>3. id \in DOMAIN Queries /\ id \in Nat /\ op \in Nat
  BY <1>1, TypesSent, AsSent
<1>4. SentTypes(item) = types
  BY <1>1 DEF SentTypes
<1>5. k \in Nat
  BY <1>1, AsSent DEF AreTypes
<1>6. k \in 0..Len(SentTypes(item)) /\ \A i \in 1..k : types[i] = SentTypes(item)[i]
  BY <1>1, <1>4, <1>5
<1>7. PICK read : read = Fetch(FetchInt(r), types)
  OBVIOUS
<1>8. Onward(r, read) /\ read.inEnd = r.inEnd /\ read.ok /\ read.got = Firsts(item.values, k) /\ read.ptr = r.end
  <2>1. StartOf(types, k, SentTypes(item))
    BY <1>1, <1>6 DEF StartOf
  <2>2. ReadOff(r, read, item, k)
    BY <1>2, <1>7, <2>1, ThePlain
  <2> QED
    BY <1>1, <1>4, <2>2 DEF ReadOff, Onward
<1>9. CASE id \notin r.pending
  <2>1. QueryOnError(r, id) = read
    BY <1>1, <1>7, <1>9, ErrorIs
  <2>2. ~Wanted(r.pending, item)
    BY <1>1, <1>9 DEF Wanted
  <2>3. Handled(r, read)
    BY <1>8, OnwardHandled
  <2>4. Len(read.told) = Len(r.told) + 0
    BY <1>8 DEF Onward, IsReader
  <2> QED
    BY <1>1, <1>8, <2>1, <2>2, <2>3, <2>4 DEF Reported, Alone
<1>10. CASE id \in r.pending
  <2>1. PICK s, u : s = Without(read, id) /\ u = Told(s, op, id)
    OBVIOUS
  <2>2. QueryOnError(r, id) = u
    BY <1>1, <1>7, <1>10, <2>1, ErrorIs
  <2>3. /\ IsReader(s) /\ s.mem = read.mem /\ s.end = read.end /\ s.ok = read.ok /\ s.ptr = read.ptr
        /\ s.told = read.told /\ s.pending = read.pending \ {id} /\ s.got = read.got /\ s.inEnd = read.inEnd
    BY <1>8, <2>1, Taking, OnwardReader
  <2>4. /\ s.mem = r.mem /\ s.end = r.end /\ s.ok /\ r.ok /\ s.told = r.told
        /\ s.pending = r.pending \ {id}
    BY <1>8, <2>3 DEF Onward
  <2>5. /\ Handled(r, u) /\ Len(u.told) = Len(r.told) + 1
        /\ u.told[Len(r.told) + 1] = Tale(op, id, s.got)
    BY <1>3, <2>1, <2>3, <2>4, ToldHandled
  <2>6. u.ok /\ u.ptr = s.ptr /\ u.inEnd = s.inEnd
    BY <1>3, <2>1, <2>3, <2>4, Telled
  <2>7. Tells(Tale(op, id, Firsts(item.values, k)), item)
    BY <1>1, <1>6, Recorded
  <2>8. Wanted(r.pending, item)
    BY <1>1, <1>10 DEF Wanted
  <2>9. Len(u.told) > Len(r.told)
    BY <2>5 DEF IsReader
  <2> QED
    BY <1>1, <1>8, <2>2, <2>3, <2>5, <2>6, <2>7, <2>8, <2>9 DEF Reported, Alone
<1> QED
  BY <1>9, <1>10

---------------------------------------------------------------------------
(* Results and archives that stand where the reader is. *)

\* Numbers one after the other are fetched as they were written.
AreInts(r, n, vs, types) ==
  /\ Len(types) = n /\ \A i \in 1..n : types[i] = "int" /\ IsWord(vs[i])
                                       /\ Stored(r.mem, r.ptr + (i - 1), AppendInt(vs[i]))

LEMMA TheInts ==
  ASSUME NEW r, IsReader(r), r.ok, NEW n \in Nat, NEW vs, NEW types, AreInts(r, n, vs, types), r.ptr + n <= r.end
  PROVE  After(r, Fetch(r, types), r.ptr + n, Firsts(vs, n))
<1>1. PICK ss, pos : ss = [i \in 1..n |-> AppendInt(vs[i])] /\ pos = [i \in 0..n |-> r.ptr + i]
  OBVIOUS
<1>2. r.ptr \in Nat /\ r.end \in Nat
  BY DEF IsReader
<1>3. \A i \in 1..n : /\ ss[i] = AppendInt(vs[i]) /\ Words(ss[i]) = 1 /\ Stored(r.mem, r.ptr + (i - 1), ss[i])
                      /\ types[i] = "int" /\ IsWord(vs[i])
  <2> TAKE i \in 1..n
  <2>1. ss[i] = AppendInt(vs[i]) /\ types[i] = "int" /\ IsWord(vs[i])
        /\ Stored(r.mem, r.ptr + (i - 1), AppendInt(vs[i]))
    BY <1>1 DEF AreInts
  <2>2. Words(AppendInt(vs[i])) = 1
    BY <2>1, IntWords DEF IsWord
  <2> QED
    BY <2>1, <2>2
<1>4. pos \in [0..n -> Nat] /\ pos[0] = r.ptr
  BY <1>1, <1>2
<1>5. ASSUME NEW i \in 1..n PROVE Stored(r.mem, pos[i - 1], ss[i]) /\ pos[i] = pos[i - 1] + Words(ss[i])
  <2>1. i - 1 \in 0..n /\ i \in 0..n
    OBVIOUS
  <2>2. pos[i - 1] = r.ptr + (i - 1) /\ pos[i] = r.ptr + i
    BY <1>1, <2>1
  <2>3. r.ptr + i = (r.ptr + (i - 1)) + 1
    BY <1>2
  <2> QED
    BY <1>3, <2>2, <2>3
<1>6. Laid(r.mem, r.ptr, n, ss, pos)
  BY <1>4, <1>5 DEF Laid
<1>7. AreFields(n, types, vs, ss)
  <2> SUFFICES ASSUME NEW i \in 1..n
               PROVE  IsType(types[i]) /\ IsValue(types[i], vs[i]) /\ ss[i] = Field(types[i], vs[i])
    BY DEF AreFields
  <2>1. types[i] = "int" /\ IsWord(vs[i]) /\ ss[i] = AppendInt(vs[i])
    BY <1>3
  <2> QED
    BY <2>1, FieldIs DEF IsType, IsValue
<1>8. n \in 0..n /\ pos[n] = r.ptr + n /\ pos[n] <= r.end
  BY <1>1
<1>9. Len(types) = n /\ \A i \in 1..n : types[i] = types[i]
  BY DEF AreInts
<1> QED
  BY <1>6, <1>7, <1>8, <1>9, TheFetch

\* The text of an archive.
LEMMA TheArchive ==
  ASSUME NEW r, IsReader(r), r.ok, NEW text, IsString(text),
         Stored(r.mem, r.ptr, Gzipped(text)), r.ptr + Words(Gzipped(text)) <= r.end
  PROVE  /\ IsArchive(r, Archive(r)) /\ Archive(r).ok /\ Archive(r).got[1] = text
         /\ Archive(r).ptr = r.ptr + Words(Gzipped(text))
         /\ WordAt(r.mem, r.ptr) = TL_GZipPacked /\ InMemory(r, 1)
<1>1. PICK a, b, ts : a = AppendInt(TL_GZipPacked) /\ b = TLString(text) /\ ts = <<"string">>
  OBVIOUS
<1>2. /\ Whole(a) /\ Words(a) = 1 /\ Whole(b) /\ Gzipped(text) = a \o b /\ Words(Gzipped(text)) = 1 + Words(b)
      /\ text \in Seq(Byte)
  BY <1>1, GzippedWritten DEF IsString
<1>3. r.mem \in Seq(Byte) /\ r.ptr \in Nat /\ r.end \in Nat /\ Words(b) \in Nat
  BY <1>2, WholeIs DEF IsReader
<1>4. Stored(r.mem, r.ptr, a) /\ Stored(r.mem, r.ptr + 1, b)
  BY <1>2, <1>3, StoredJoined
<1>5. PICK s, g : s = FetchInt(r) /\ g = Append(r.got, TL_GZipPacked)
  OBVIOUS
<1>6. After(r, s, r.ptr + 1, g) /\ WordAt(r.mem, r.ptr) = TL_GZipPacked /\ InMemory(r, 1)
  BY <1>1, <1>4, <1>5, Known, TheInt
<1>7. IsReader(s) /\ s.ok /\ s.mem = r.mem /\ s.ptr = r.ptr + 1 /\ s.end = r.end
  BY <1>6 DEF After, Onward
<1>8. Len(ts) = 1 /\ ts[1] = "string" /\ Len(ts) \in Nat
  BY <1>1
<1>9. PICK read : Fetching(s, ts, read)
  BY <1>8, FetchIs
<1>10. PICK u, t : u = read[0] /\ t = read[1]
  OBVIOUS
<1>11. u = [s EXCEPT !.got = <<>>] /\ t = FetchField(u, "string") /\ Fetch(s, ts) = t
  <2>1. 1 \in 1..Len(ts) /\ 1 - 1 = 0
    BY <1>8
  <2> QED
    BY <1>8, <1>9, <1>10, <2>1 DEF Fetching
<1>12. After(s, u, s.ptr, <<>>)
  BY <1>7, <1>11, EmptyHanded
<1>13. IsReader(u) /\ u.ok /\ u.mem = r.mem /\ u.ptr = r.ptr + 1 /\ u.end = r.end /\ u.got = <<>>
  BY <1>7, <1>12 DEF After, Onward
<1>14. Field("string", text) = b /\ IsValue("string", text) /\ IsType("string")
  BY <1>1, FieldIs DEF IsValue, IsType
<1>15. u.ptr + Words(b) <= u.end
  <2>1. PICK p, w, z, e : p = r.ptr /\ w = Words(b) /\ z = Words(Gzipped(text)) /\ e = r.end
    OBVIOUS
  <2>2. p \in Nat /\ w \in Nat /\ z = 1 + w /\ p + z <= e /\ e \in Nat
    BY <1>2, <1>3, <2>1
  <2>3. (p + 1) + w <= e
    BY <2>2
  <2> QED
    BY <1>13, <2>1, <2>3
<1>16. After(u, t, u.ptr + Words(b), Append(u.got, text))
  BY <1>4, <1>11, <1>13, <1>14, <1>15, TheField
<1>17. t.ok /\ t.got = <<text>> /\ t.ptr = (r.ptr + 1) + Words(b) /\ Onward(u, t)
  <2>1. Append(<<>>, text) = <<text>>
    OBVIOUS
  <2> QED
    BY <1>13, <1>16, <2>1 DEF After
<1>18. t.got # <<SomeString>>
  <2>1. SomeString # text
    BY <1>2, Values
  <2>2. PICK x, y : x = SomeString /\ y = text
    OBVIOUS
  <2>3. <<x>>[1] = x /\ <<y>>[1] = y
    OBVIOUS
  <2> QED
    BY <1>17, <2>1, <2>2, <2>3
<1>19. Archive(r) = t
  BY <1>1, <1>5, <1>11, <1>18 DEF Archive
<1>20. t.ptr = r.ptr + Words(Gzipped(text))
  <2>1. PICK p, w : p = r.ptr /\ w = Words(b)
    OBVIOUS
  <2>2. (p + 1) + w = p + (1 + w)
    BY <1>3, <2>1
  <2> QED
    BY <1>2, <1>17, <2>1, <2>2
<1>21. t.got[1] = text
  BY <1>17
<1> QED
  BY <1>6, <1>17, <1>19, <1>20, <1>21, AnyArchive

\* What is done in the text of an archive is done.
LEMMA DoneInside ==
  ASSUME NEW r, IsReader(r), NEW a, IsArchive(r, a), a.ok, NEW item, NEW s,
         Reported(Unpack(a), s, item)
  PROVE  /\ Reported(r, Restored(s, a), item) /\ Restored(s, a).ptr = a.ptr
         /\ Alone(Unpack(a), s, item) => Alone(r, Restored(s, a), item)
<1>1. IsReader(a) /\ a.got[1] \in Seq(Byte) /\ a.told = r.told /\ a.pending = r.pending /\ a.inEnd = r.inEnd
  BY DEF IsArchive, Onward
<1>2. PICK u, t : u = Unpack(a) /\ t = Restored(s, a)
  OBVIOUS
<1>3. u.told = r.told /\ u.pending = r.pending /\ u.inEnd = r.inEnd
  BY <1>1, <1>2, Unpacking
<1>4. IsReader(s) /\ Handled(u, s)
  BY <1>2, HandledReader DEF Reported
<1>5. t.told = s.told /\ t.ok = s.ok /\ t.ptr = a.ptr /\ t.inEnd = s.inEnd
  BY <1>1, <1>2, <1>4, Restoring
<1>6. Handled(r, t)
  BY <1>2, <1>4, Inside
<1> QED
  BY <1>2, <1>3, <1>5, <1>6 DEF Reported, Alone

\* The text of an archive is an item in a message of its own.
LEMMA InText ==
  ASSUME NEW r, IsReader(r), NEW a, IsArchive(r, a), a.ok, NEW item, IsItem(item), a.got[1] = Plain(item)
  PROVE  LET u == Unpack(a) IN
         IsReader(u) /\ u.ok /\ Stored(u.mem, u.ptr, Plain(item)) /\ u.ptr + Words(Plain(item)) = u.end
<1>1. PICK u, p : u = Unpack(a) /\ p = Plain(item)
  OBVIOUS
<1>2. Whole(p) /\ p \in Seq(Byte)
  BY <1>1, PlainWritten
<1>3. IsReader(a)
  BY DEF IsArchive, Onward
<1>4. IsReader(u) /\ u.mem = p /\ u.ptr = 0 /\ u.end = Words(p) /\ u.ok
  BY <1>1, <1>2, <1>3, Unpacking DEF Words
<1>5. Words(p) \in Nat /\ Len(p) = WordSize * Words(p)
  BY <1>2, WholeIs
<1>6. Stored(p, 0, p)
  <2>1. PICK w : w = Words(p)
    OBVIOUS
  <2>2. (0 + w) * WordSize = WordSize * w
    BY <1>5, <2>1, Sizes
  <2>3. (0 + w) * WordSize <= Len(p)
    BY <1>2, <1>5, <2>1, <2>2
  <2>4. \A i \in 1..Len(p) : p[(0 * WordSize) + i] = p[i]
    <3>1. 0 * WordSize = 0
      BY Sizes
    <3> QED
      BY <1>2, <3>1
  <2> QED
    BY <1>2, <2>1, <2>3, <2>4 DEF Stored
<1>7. u.ptr + Words(p) = u.end
  BY <1>4, <1>5
<1> QED
  BY <1>1, <1>4, <1>6, <1>7

\* So does workPacked, with an update in an archive.
LEMMA TheUpdateInside ==
  ASSUME NEW r, IsReader(r), r.ok, NEW item, IsItem(item), item.form = "packed",
         Stored(r.mem, r.ptr, Gzipped(Plain(item))), r.ptr + Words(Gzipped(Plain(item))) = r.end
  PROVE  Did(r, UpdateInside(Archive(r)), item)
<1>1. PICK a, u, s : a = Archive(r) /\ u = Unpack(a) /\ s = WorkUpdate(u)
  OBVIOUS
<1>2. IsString(Plain(item)) /\ ~IsAnswer(item)
  BY DEF IsItem, IsAnswer
<1>3. r.ptr + Words(Gzipped(Plain(item))) <= r.end
  BY DEF IsReader
<1>4. IsArchive(r, a) /\ a.ok /\ a.got[1] = Plain(item) /\ a.ptr = r.end
  BY <1>1, <1>2, <1>3, TheArchive
<1>5. IsReader(u) /\ u.ok /\ Stored(u.mem, u.ptr, Plain(item)) /\ u.ptr + Words(Plain(item)) = u.end
  BY <1>1, <1>4, InText
<1>6. Did(u, s, item)
  BY <1>1, <1>2, <1>5, TheUpdate
<1>7. /\ Reported(r, Restored(s, a), item) /\ Restored(s, a).ptr = a.ptr
      /\ Alone(u, s, item) => Alone(r, Restored(s, a), item)
  BY <1>1, <1>4, <1>6, DoneInside DEF Did
<1>8. UpdateInside(a) = Restored(s, a)
  BY <1>1, <1>4 DEF UpdateInside
<1> QED
  BY <1>1, <1>4, <1>6, <1>7, <1>8 DEF Did

\* So does queryOnResult, with an answer in an archive.
LEMMA TheAnswerInside ==
  ASSUME NEW r, IsReader(r), r.ok, NEW item, IsItem(item), item.form = "packedResult",
         Stored(r.mem, r.ptr, Gzipped(Plain(item))), r.ptr + Words(Gzipped(Plain(item))) = r.end
  PROVE  Did(r, AnswerInside(Archive(r), item.id), item)
<1>1. PICK a, u, s : a = Archive(r) /\ u = Unpack(a) /\ s = Answer(u, item.id)
  OBVIOUS
<1>2. IsString(Plain(item)) /\ IsAnswer(item) /\ item.op # TL_RpcError
  <2>1. IsString(Plain(item)) /\ IsAnswer(item)
    BY DEF IsItem, IsAnswer
  <2>2. item.op = Queries[item.id].op /\ item.id \in DOMAIN Queries
    BY <2>1 DEF IsItem
  <2>3. IsQuery(Queries[item.id])
    BY <2>2, AsSent
  <2> QED
    BY <2>1, <2>2, <2>3 DEF IsQuery
<1>3. r.ptr + Words(Gzipped(Plain(item))) <= r.end
  BY DEF IsReader
<1>4. IsArchive(r, a) /\ a.ok /\ a.got[1] = Plain(item) /\ a.ptr = r.end
  BY <1>1, <1>2, <1>3, TheArchive
<1>5. IsReader(u) /\ u.ok /\ Stored(u.mem, u.ptr, Plain(item)) /\ u.ptr + Words(Plain(item)) = u.end
  BY <1>1, <1>4, InText
<1>6. Reported(u, s, item) /\ Alone(u, s, item)
  BY <1>1, <1>2, <1>5, TheAnswer
<1>7. /\ Reported(r, Restored(s, a), item) /\ Restored(s, a).ptr = a.ptr
      /\ Alone(u, s, item) => Alone(r, Restored(s, a), item)
  BY <1>1, <1>4, <1>6, DoneInside
<1>8. AnswerInside(a, item.id) = Restored(s, a)
  BY <1>1, <1>4 DEF AnswerInside
<1> QED
  BY <1>1, <1>4, <1>6, <1>7, <1>8 DEF Did

\* The answer behind the id of the query.
LEMMA TheResult ==
  ASSUME NEW r, IsReader(r), r.ok, NEW item, IsItem(item), IsAnswer(item), NEW text,
         text = IF item.form = "result" THEN Plain(item) ELSE Gzipped(Plain(item)),
         Stored(r.mem, r.ptr, text), r.ptr + Words(text) = r.end
  PROVE  Did(r, RpcResult(r, item.id), item) /\ InMemory(r, 1)
<1>1. r.ptr + Words(text) <= r.end
  BY DEF IsReader
<1>2. item.id \in DOMAIN Queries /\ (item.op = Queries[item.id].op \/ (item.op = TL_RpcError /\ item.form = "result"))
  BY DEF IsItem
<1>3. IsQuery(Queries[item.id])
  BY <1>2, AsSent
<1>4. CASE item.form = "result"
  <2>1. text = Plain(item)
    BY <1>4
  <2>2. WordAt(r.mem, r.ptr) = item.op /\ InMemory(r, 1)
    BY <1>1, <2>1, HeadOp
  <2>3. CASE item.op = TL_RpcError
    <3>1. RpcResult(r, item.id) = QueryOnError(r, item.id)
      BY <2>2, <2>3, ResultIs
    <3> QED
      BY <2>1, <2>2, <2>3, <3>1, TheError DEF Did
  <2>4. CASE item.op # TL_RpcError
    <3>1. item.op # TL_GZipPacked
      BY <1>2, <1>3, <2>4 DEF IsQuery
    <3>2. RpcResult(r, item.id) = Answer(r, item.id)
      BY <2>2, <2>4, <3>1, ResultIs
    <3>3. Queries[item.id].reads # Queries[item.id].fields => Misread(item)
      BY <1>4, <2>4 DEF Misread
    <3> QED
      BY <2>1, <2>2, <2>4, <3>2, <3>3, TheAnswer DEF Did
  <2> QED
    BY <2>3, <2>4
<1>5. CASE item.form # "result"
  <2>1. item.form = "packedResult" /\ text = Gzipped(Plain(item))
    BY <1>5 DEF IsAnswer
  <2>2. IsString(Plain(item))
    BY <2>1 DEF IsItem
  <2>3. WordAt(r.mem, r.ptr) = TL_GZipPacked /\ InMemory(r, 1)
    BY <1>1, <2>1, <2>2, TheArchive
  <2>4. RpcResult(r, item.id) = AnswerInside(Archive(r), item.id)
    BY <2>3, ResultIs
  <2> QED
    BY <2>1, <2>3, <2>4, TheAnswerInside
<1> QED
  BY <1>4, <1>5

\* The id of a result is fetched as it was written.
LEMMA TheHead ==
  ASSUME NEW r, IsReader(r), r.ok, NEW id, IsWord(id), NEW text, Whole(text),
         Stored(r.mem, r.ptr, ResultHead(id) \o text), r.ptr + Words(ResultHead(id) \o text) = r.end,
         NEW types, types = <<"int", "int">>
  PROVE  LET s == Fetch(r, types) IN
         /\ Onward(r, s) /\ s.ok /\ s.got[2] = id /\ WordAt(r.mem, r.ptr) = TL_RpcResult /\ InMemory(r, 1)
         /\ Stored(s.mem, s.ptr, text) /\ s.ptr + Words(text) = s.end
<1>1. PICK a, b : a = AppendInt(TL_RpcResult) /\ b = AppendInt(id)
  OBVIOUS
<1>2. id \in Nat
  BY DEF IsWord
<1>3. /\ Whole(a) /\ Words(a) = 1 /\ Whole(b) /\ Words(b) = 1
      /\ Whole(ResultHead(id)) /\ Words(ResultHead(id)) = 2 /\ ResultHead(id) = a \o b
  BY <1>1, <1>2, HeadWritten DEF ResultHead
<1>4. r.mem \in Seq(Byte) /\ r.ptr \in Nat /\ r.end \in Nat /\ Words(text) \in Nat
  BY WholeIs DEF IsReader
<1>5. Stored(r.mem, r.ptr, ResultHead(id)) /\ Stored(r.mem, r.ptr + 2, text)
  BY <1>3, <1>4, StoredJoined
<1>6. Stored(r.mem, r.ptr, a) /\ Stored(r.mem, r.ptr + 1, b)
  BY <1>3, <1>4, <1>5, StoredJoined
<1>7. WordAt(r.mem, r.ptr) = TL_RpcResult /\ InMemory(r, 1)
  BY <1>1, <1>6, Known, TheInt
<1>8. PICK vs : vs = <<TL_RpcResult, id>>
  OBVIOUS
<1>9. AreInts(r, 2, vs, types)
  <2>1. Len(types) = 2 /\ types[1] = "int" /\ types[2] = "int" /\ vs[1] = TL_RpcResult /\ vs[2] = id
    BY <1>8
  <2>2. r.ptr + (1 - 1) = r.ptr /\ r.ptr + (2 - 1) = r.ptr + 1
    BY <1>4
  <2>3. \A i \in 1..2 : i = 1 \/ i = 2
    OBVIOUS
  <2> QED
    BY <1>1, <1>6, <2>1, <2>2, <2>3, Known DEF AreInts
<1>10. Words(ResultHead(id) \o text) = 2 + Words(text)
  BY <1>3, WholeJoined
<1>11. r.ptr + 2 <= r.end /\ (r.ptr + 2) + Words(text) = r.end
  <2>1. PICK p, w, e, z : p = r.ptr /\ w = Words(text) /\ e = r.end /\ z = Words(ResultHead(id) \o text)
    OBVIOUS
  <2>2. p \in Nat /\ w \in Nat /\ z = 2 + w /\ p + z = e
    BY <1>4, <1>10, <2>1
  <2>3. p + 2 <= e /\ (p + 2) + w = e
    BY <2>2
  <2> QED
    BY <2>1, <2>3
<1>12. PICK s : s = Fetch(r, types)
  OBVIOUS
<1>13. After(r, s, r.ptr + 2, Firsts(vs, 2))
  BY <1>9, <1>11, <1>12, TheInts
<1>14. Onward(r, s) /\ s.ok /\ s.ptr = r.ptr + 2 /\ s.got = Firsts(vs, 2) /\ s.mem = r.mem /\ s.end = r.end
  BY <1>13 DEF After, Onward
<1>15. s.got[2] = id
  BY <1>8, <1>14 DEF Firsts
<1> QED
  BY <1>5, <1>7, <1>11, <1>12, <1>14, <1>15

\* workRpcResult does what it should.
LEMMA TheWorkResult ==
  ASSUME NEW r, IsReader(r), r.ok, NEW item, IsItem(item), IsAnswer(item),
         Stored(r.mem, r.ptr, Content(item)), r.ptr + Words(Content(item)) = r.end
  PROVE  Did(r, RpcExecuteAnswer(r), item) /\ WordAt(r.mem, r.ptr) = TL_RpcResult
<1>1. PICK id, text, types : /\ id = item.id /\ types = <<"int", "int">>
                             /\ text = IF item.form = "result" THEN Plain(item) ELSE Gzipped(Plain(item))
  OBVIOUS
<1>2. IsWord(id) /\ id \in Nat
  BY <1>1, TypesSent, AsSent
<1>3. Content(item) = ResultHead(id) \o text
  BY <1>1, ContentIs DEF IsAnswer
<1>4. Whole(text)
  BY <1>1, PlainWritten, GzippedWritten
<1>5. PICK s : s = Fetch(r, types)
  OBVIOUS
<1>6. /\ Onward(r, s) /\ s.ok /\ s.got[2] = id /\ WordAt(r.mem, r.ptr) = TL_RpcResult /\ InMemory(r, 1)
      /\ Stored(s.mem, s.ptr, text) /\ s.ptr + Words(text) = s.end
  BY <1>1, <1>2, <1>3, <1>4, <1>5, TheHead
<1>7. IsReader(s)
  BY <1>6, OnwardReader
<1>8. PICK t : t = RpcResult(s, id)
  OBVIOUS
<1>9. Did(s, t, item) /\ InMemory(s, 1)
  BY <1>1, <1>6, <1>7, <1>8, TheResult
<1>10. WorkRpcResult(r) = t
  BY <1>1, <1>5, <1>6, <1>8, <1>9 DEF WorkRpcResult
<1>11. RpcExecuteAnswer(r) = t
  BY <1>6, <1>10, ExecuteIs
<1>12. Handled(r, s) /\ s.told = r.told /\ s.pending = r.pending /\ s.end = r.end /\ s.inEnd = r.inEnd
  BY <1>6, OnwardHandled DEF Onward
<1>13. Handled(r, t)
  BY <1>9, <1>12, HandledAgain DEF Did, Reported
<1>14. Did(r, t, item)
  BY <1>9, <1>12, <1>13 DEF Did, Reported, Alone
<1> QED
  BY <1>6, <1>11, <1>14

\* An item is handled as what it is, and is taken for no container.
LEMMA TheExecute ==
  ASSUME NEW r, IsReader(r), r.ok, NEW item, IsItem(item),
         Stored(r.mem, r.ptr, Content(item)), r.ptr + Words(Content(item)) = r.end
  PROVE  Did(r, RpcExecuteAnswer(r), item) /\ WordAt(r.mem, r.ptr) # TL_MsgContainer
<1>1. r.ptr + Words(Content(item)) <= r.end
  BY DEF IsReader
<1>2. CASE IsAnswer(item)
  BY <1>2, TheWorkResult, Operations
<1>3. CASE item.form = "direct"
  <2>1. Content(item) = Plain(item)
    BY <1>3, ContentIs
  <2>2. WordAt(r.mem, r.ptr) = item.op /\ InMemory(r, 1)
    BY <1>1, <2>1, HeadOp
  <2>3. ~IsAnswer(item)
    BY <1>3 DEF IsAnswer
  <2>4. item.op \notin {TL_MsgContainer, TL_RpcResult, TL_GZipPacked}
    BY <2>3 DEF IsItem
  <2>5. RpcExecuteAnswer(r) = WorkUpdate(r)
    BY <2>2, <2>4, ExecuteIs
  <2> QED
    BY <2>1, <2>2, <2>3, <2>4, <2>5, TheUpdate
<1>4. CASE item.form = "packed"
  <2>1. Content(item) = Gzipped(Plain(item))
    BY <1>4, ContentIs
  <2>2. IsString(Plain(item))
    BY <1>4 DEF IsItem
  <2>3. WordAt(r.mem, r.ptr) = TL_GZipPacked /\ InMemory(r, 1)
    BY <1>1, <2>1, <2>2, TheArchive
  <2>4. RpcExecuteAnswer(r) = UpdateInside(Archive(r))
    BY <2>3, ExecuteIs
  <2> QED
    BY <1>4, <2>1, <2>3, <2>4, TheUpdateInside, Operations
<1> QED
  BY <1>2, <1>3, <1>4 DEF IsItem, IsAnswer

---------------------------------------------------------------------------
(* Items of a container. *)

\* An item of a container is three words and its content.
LEMMA ItemWritten ==
  ASSUME NEW item, IsItem(item)
  PROVE  LET a == AppendInt(1)
             b == AppendInt(2)
             c == AppendInt(Len(Content(item)))
         IN /\ InContainer(item) = (a \o b \o c) \o Content(item)
            /\ Whole(a) /\ Words(a) = 1 /\ Whole(b) /\ Words(b) = 1 /\ Whole(c) /\ Words(c) = 1
            /\ Whole(a \o b) /\ Words(a \o b) = 2 /\ Whole(a \o b \o c) /\ Words(a \o b \o c) = 3
            /\ Whole(Content(item)) /\ Len(Content(item)) \in Nat
            /\ Whole(InContainer(item)) /\ Words(InContainer(item)) = 3 + Words(Content(item))
<1>1. PICK d, n : d = Content(item) /\ n = Len(d)
  OBVIOUS
<1>2. Whole(d) /\ n \in Nat
  BY <1>1, ContentWritten DEF Whole
<1>3. PICK a, b, c : a = AppendInt(1) /\ b = AppendInt(2) /\ c = AppendInt(n)
  OBVIOUS
<1>4. Whole(a) /\ Words(a) = 1 /\ Whole(b) /\ Words(b) = 1 /\ Whole(c) /\ Words(c) = 1
  BY <1>2, <1>3, IntWords
<1>5. Whole(a \o b) /\ Words(a \o b) = 2
  BY <1>4, WholeJoined
<1>6. Whole((a \o b) \o c) /\ Words((a \o b) \o c) = 3
  BY <1>4, <1>5, WholeJoined
<1>7. Whole(((a \o b) \o c) \o d) /\ Words(((a \o b) \o c) \o d) = 3 + Words(d)
  BY <1>2, <1>6, WholeJoined
<1>8. InContainer(item) = ((a \o b) \o c) \o d
  BY <1>1, <1>3 DEF InContainer
<1> QED
  BY <1>1, <1>2, <1>3, <1>4, <1>5, <1>6, <1>7, <1>8

\* What a pass of workContainer should do.
ItemDid(r, s, item) ==
  /\ Reported(r, s, item)
  /\ ~Misread(item) => Alone(r, s, item) /\ s.ptr = r.ptr + Words(InContainer(item)) /\ s.inEnd = r.inEnd

\* It does.
LEMMA TheItem ==
  ASSUME NEW r, IsReader(r), r.ok, NEW item, IsItem(item), IsWord(Len(Content(item))),
         Stored(r.mem, r.ptr, InContainer(item)), r.ptr + Words(InContainer(item)) <= r.end
  PROVE  ItemDid(r, ContainerItem(r), item)
<1>1. PICK a, b, c, d, n : /\ d = Content(item) /\ n = Len(d)
                           /\ a = AppendInt(1) /\ b = AppendInt(2) /\ c = AppendInt(n)
  OBVIOUS
<1>2. /\ Whole(a) /\ Words(a) = 1 /\ Whole(b) /\ Words(b) = 1 /\ Whole(c) /\ Words(c) = 1
      /\ Whole(a \o b) /\ Words(a \o b) = 2 /\ Whole((a \o b) \o c) /\ Words((a \o b) \o c) = 3
      /\ Whole(d) /\ n \in Nat /\ IsWord(n) /\ InContainer(item) = ((a \o b) \o c) \o d
      /\ Words(InContainer(item)) = 3 + Words(d)
  BY <1>1, ItemWritten
<1>3. r.mem \in Seq(Byte) /\ r.ptr \in Nat /\ r.end \in Nat /\ Words(d) \in Nat
      /\ n = WordSize * Words(d)
  BY <1>1, <1>2, WholeIs DEF IsReader
<1>4. Stored(r.mem, r.ptr, (a \o b) \o c) /\ Stored(r.mem, r.ptr + 3, d)
  BY <1>2, <1>3, StoredJoined
<1>5. Stored(r.mem, r.ptr, a \o b) /\ Stored(r.mem, r.ptr + 2, c)
  BY <1>2, <1>3, <1>4, StoredJoined
<1>6. Stored(r.mem, r.ptr, a) /\ Stored(r.mem, r.ptr + 1, b)
  BY <1>2, <1>3, <1>5, StoredJoined
<1>7. PICK vs, types : vs = <<1, 2, n>> /\ types = <<"int", "int", "int">>
  OBVIOUS
<1>8. AreInts(r, 3, vs, types)
  <2>1. /\ Len(types) = 3 /\ types[1] = "int" /\ types[2] = "int" /\ types[3] = "int"
        /\ vs[1] = 1 /\ vs[2] = 2 /\ vs[3] = n
    BY <1>7
  <2>2. r.ptr + (1 - 1) = r.ptr /\ r.ptr + (2 - 1) = r.ptr + 1 /\ r.ptr + (3 - 1) = r.ptr + 2
    BY <1>3
  <2>3. \A i \in 1..3 : i = 1 \/ i = 2 \/ i = 3
    OBVIOUS
  <2>4. IsWord(1) /\ IsWord(2)
    BY PacketsAssumption
  <2> QED
    BY <1>1, <1>2, <1>5, <1>6, <2>1, <2>2, <2>3, <2>4 DEF AreInts
<1>9. r.ptr + 3 <= r.end
  <2>1. PICK p, w, e, z : p = r.ptr /\ w = Words(d) /\ e = r.end /\ z = Words(InContainer(item))
    OBVIOUS
  <2>2. p \in Nat /\ w \in Nat /\ z = 3 + w /\ p + z <= e /\ e \in Nat
    BY <1>2, <1>3, <2>1
  <2>3. p + 3 <= e
    BY <2>2
  <2> QED
    BY <2>1, <2>3
<1>10. PICK head : head = Fetch(r, types)
  OBVIOUS
<1>11. After(r, head, r.ptr + 3, Firsts(vs, 3))
  BY <1>8, <1>9, <1>10, TheInts
<1>12. /\ IsReader(head) /\ Onward(r, head) /\ head.ok /\ head.ptr = r.ptr + 3 /\ head.got = Firsts(vs, 3)
       /\ head.mem = r.mem /\ head.end = r.end /\ head.told = r.told /\ head.pending = r.pending
       /\ head.inEnd = r.inEnd
  BY <1>11 DEF After, Onward
<1>13. head.got[3] = n
  BY <1>7, <1>12 DEF Firsts
<1>14. n \div WordSize = Words(d)
  BY <1>1 DEF Words
<1>15. PICK f, s, t : f = Framed(head, n) /\ s = RpcExecuteAnswer(f) /\ t = NextItem(s, r.end)
  OBVIOUS
<1>16. ContainerItem(r) = t
  BY <1>7, <1>10, <1>12, <1>13, <1>15 DEF ContainerItem
<1>17. /\ IsReader(f) /\ f.mem = r.mem /\ f.ptr = r.ptr + 3 /\ f.end = (r.ptr + 3) + Words(d)
       /\ f.told = r.told /\ f.pending = r.pending /\ f.inEnd = r.inEnd /\ f.ok
  <2>1. PICK q : q = head.ptr + (n \div WordSize)
    OBVIOUS
  <2>2. /\ IsReader(f) /\ f.mem = head.mem /\ f.ptr = head.ptr /\ f.ok = head.ok /\ f.end = q
        /\ f.told = head.told /\ f.pending = head.pending /\ f.inEnd = head.inEnd
    BY <1>2, <1>12, <1>15, <2>1, Framing
  <2>3. q = (r.ptr + 3) + Words(d)
    BY <1>12, <1>14, <2>1
  <2> QED
    BY <1>12, <2>2, <2>3
<1>18. Did(f, s, item)
  BY <1>1, <1>4, <1>15, <1>17, TheExecute
<1>19. IsReader(s) /\ Handled(f, s)
  BY <1>18, HandledReader DEF Did, Reported
<1>20. /\ t.told = s.told /\ t.ok = s.ok /\ t.ptr = s.ptr
       /\ s.ptr = s.end => t.inEnd = s.inEnd
  <2>1. Moved(s, r.end, t)
    BY <1>3, <1>15, <1>19, Onto
  <2> QED
    BY <2>1 DEF Moved
<1>21. Handled(r, t)
  BY <1>16, AnyItem
<1>22. Reported(r, t, item)
  BY <1>17, <1>18, <1>20, <1>21 DEF Did, Reported
<1>23. ASSUME ~Misread(item)
       PROVE  Alone(r, t, item) /\ t.ptr = r.ptr + Words(InContainer(item)) /\ t.inEnd = r.inEnd
  <2>1. Alone(f, s, item) /\ s.ptr = f.end
    BY <1>18, <1>23 DEF Did
  <2>2. s.end = f.end
    BY <1>19 DEF Handled
  <2>3. Alone(r, t, item) /\ t.inEnd = r.inEnd
    BY <1>17, <1>20, <2>1, <2>2 DEF Alone
  <2>4. (r.ptr + 3) + Words(d) = r.ptr + Words(InContainer(item))
    <3>1. PICK p, w : p = r.ptr /\ w = Words(d)
      OBVIOUS
    <3>2. (p + 3) + w = p + (3 + w)
      BY <1>3, <3>1
    <3> QED
      BY <1>2, <3>1, <3>2
  <2>5. t.ptr = r.ptr + Words(InContainer(item))
    BY <1>17, <1>20, <2>1, <2>4
  <2> QED
    BY <2>3, <2>5
<1> QED
  BY <1>16, <1>22, <1>23 DEF ItemDid

---------------------------------------------------------------------------
(* What the program is to be told of a message. *)

\* due[i] is what is due of the first i items.
DueOf(asked, m, due) ==
  /\ due[0] = <<>>
  /\ \A i \in 1..Len(m) : due[i] = IF IsDue(asked, m, i) THEN Append(due[i - 1], m[i]) ELSE due[i - 1]

\* What is due is collected item by item.
LEMMA DueIs ==
  ASSUME NEW asked, NEW m, Len(m) \in Nat
  PROVE  \E due : DueOf(asked, m, due) /\ Due(asked, m) = due[Len(m)]
<1>1. PICK n : n = Len(m)
  OBVIOUS
<1> DEFINE Then(g, i) == IF IsDue(asked, m, i) THEN Append(g[i - 1], m[i]) ELSE g[i - 1]
           Next1(g) == [i \in 0..n |-> IF i = 0 THEN <<>> ELSE Then(g, i)]
           Runs(g, k) == g = [i \in 0..k |-> g[i]] /\ g[0] = <<>> /\ \A i \in 1..k : g[i] = Then(g, i)
           P == {k \in 0..n : \E g : Runs(g, k)}
<1>2. 0 \in P
  <2>1. PICK g : g = [i \in 0..0 |-> <<>>]
    OBVIOUS
  <2>2. Runs(g, 0)
    BY <2>1
  <2>3. \E f : Runs(f, 0)
    BY <2>2
  <2>4. 0 \in 0..n
    BY <1>1
  <2> HIDE DEF Runs
  <2> QED
    BY <2>3, <2>4
<1>3. ASSUME NEW k \in 1..n, k - 1 \in P PROVE k \in P
  <2>1. PICK g : Runs(g, k - 1)
    <3> HIDE DEF Runs
    <3> QED
      BY <1>3
  <2>2. PICK h : h = [i \in 0..k |-> IF i = k THEN Then(g, k) ELSE g[i]]
    OBVIOUS
  <2>3. h = [i \in 0..k |-> h[i]] /\ h[0] = <<>>
    <3> HIDE DEF Then
    <3>1. 0 \in 0..k /\ 0 # k /\ g[0] = <<>>
      BY <1>1, <2>1
    <3> QED
      BY <2>2, <3>1
  <2>4. ASSUME NEW i \in 1..k PROVE h[i] = Then(h, i)
    <3>1. h[i - 1] = g[i - 1]
      <4> HIDE DEF Then
      <4>1. i - 1 \in 0..k /\ i - 1 # k
        BY <1>1
      <4> QED
        BY <2>2, <4>1
    <3>2. Then(h, i) = Then(g, i)
      BY <3>1
    <3>3. CASE i = k
      <4> HIDE DEF Then
      <4>1. i \in 0..k
        BY <1>1
      <4> QED
        BY <2>2, <3>2, <3>3, <4>1
    <3>4. CASE i # k
      <4>1. i \in 1..(k - 1) /\ i \in 0..k
        BY <1>1, <3>4
      <4>2. g[i] = Then(g, i)
        BY <2>1, <4>1
      <4>3. h[i] = g[i]
        <5> HIDE DEF Then
        <5> QED
          BY <2>2, <3>4, <4>1
      <4> HIDE DEF Then
      <4> QED
        BY <3>2, <4>2, <4>3
    <3> QED
      BY <3>3, <3>4
  <2>5. \E f : Runs(f, k)
    <3> HIDE DEF Then
    <3> QED
      BY <2>3, <2>4
  <2>6. k \in 0..n
    BY <1>1
  <2> HIDE DEF Runs
  <2> QED
    BY <2>5, <2>6
<1>4. n \in P
  <2>1. \A i \in 0..n : i \in P
    <3> HIDE DEF P
    <3> QED
      BY <1>1, <1>2, <1>3, Counting
  <2> QED
    BY <1>1, <2>1
<1>5. PICK g : Runs(g, n)
  <2> HIDE DEF Runs
  <2> QED
    BY <1>4
<1>6. g = Next1(g)
  <2> HIDE DEF Then
  <2>1. \A i \in 0..n : g[i] = Next1(g)[i]
    <3> TAKE i \in 0..n
    <3>1. CASE i = 0
      BY <1>5, <3>1
    <3>2. CASE i # 0
      <4>1. i \in 1..n
        BY <1>1, <3>2
      <4> QED
        BY <1>5, <3>2, <4>1
    <3> QED
      BY <3>1, <3>2
  <2> QED
    BY <1>5, <2>1
<1>7. Due(asked, m) = (CHOOSE f : f = Next1(f))[n]
  BY <1>1 DEF Due
<1>8. PICK due : due = (CHOOSE f : f = Next1(f)) /\ due = Next1(due)
  <2> HIDE DEF Next1
  <2>1. \E f : f = Next1(f)
    BY <1>6
  <2> QED
    BY <2>1
<1>9. due[0] = <<>> /\ \A i \in 1..n : due[i] = Then(due, i)
  <2>1. 0 \in 0..n /\ Next1(due)[0] = <<>>
    BY <1>1
  <2>2. ASSUME NEW i \in 1..n PROVE Next1(due)[i] = Then(due, i)
    <3>1. i \in 0..n /\ i # 0
      BY <1>1
    <3> HIDE DEF Then
    <3> QED
      BY <3>1
  <2> HIDE DEF Next1, Then
  <2> QED
    BY <1>8, <2>1, <2>2
<1> HIDE DEF Next1
<1> QED
  BY <1>1, <1>7, <1>8, <1>9 DEF DueOf

\* The program was told what is due, perhaps more.
Covers(told, due) == Len(told) >= Len(due) /\ \A i \in 1..Len(due) : Tells(told[i], due[i])
\* The first k items of m were handled and nothing else.
Exact(asked, m, due, k, r) ==
  /\ Covers(r.told, due[k]) /\ Len(r.told) = Len(due[k])
  /\ \A id : id \in r.pending <=> id \in StillAsked(asked, m, k + 1)

\* The first k items are read as they were sent.
AllTrue(m, k) == \A j \in 1..k : ~Misread(m[j])

\* What is due is a sequence of items.
LEMMA DueTypes ==
  ASSUME NEW asked, NEW m, Len(m) \in Nat, NEW due, DueOf(asked, m, due)
  PROVE  \A k \in 0..Len(m) : due[k] \in Seq({m[i] : i \in 1..Len(m)}) /\ Len(due[k]) \in Nat
<1>1. PICK n, D : n = Len(m) /\ D = {m[i] : i \in 1..n}
  OBVIOUS
<1> DEFINE P == {k \in 0..n : due[k] \in Seq(D)}
<1>2. 0 \in P
  <2>1. <<>> \in Seq(D)
    OBVIOUS
  <2>2. due[0] = <<>> /\ 0 \in 0..n
    BY <1>1 DEF DueOf
  <2> QED
    BY <2>1, <2>2
<1>3. ASSUME NEW k \in 1..n, k - 1 \in P PROVE k \in P
  <2>1. due[k] = (IF IsDue(asked, m, k) THEN Append(due[k - 1], m[k]) ELSE due[k - 1])
    BY <1>1 DEF DueOf
  <2>2. m[k] \in D /\ due[k - 1] \in Seq(D) /\ k \in 0..n
    BY <1>1, <1>3
  <2>3. due[k] \in Seq(D)
    BY <2>1, <2>2
  <2> QED
    BY <2>2, <2>3
<1>4. \A k \in 0..n : k \in P
  <2> HIDE DEF P
  <2> QED
    BY <1>1, <1>2, <1>3, Counting
<1>5. \A k \in 0..n : due[k] \in Seq(D) /\ Len(due[k]) \in Nat
  BY <1>4
<1> QED
  BY <1>1, <1>5

\* Handling one item more.
LEMMA OneMore ==
  ASSUME NEW asked, NEW m, Len(m) \in Nat, NEW due, DueOf(asked, m, due), NEW k \in 1..Len(m),
         IsAnswer(m[k]) => m[k].id \in DOMAIN Queries,
         NEW r, IsReader(r), Exact(asked, m, due, k - 1, r), AllTrue(m, k - 1),
         NEW s, Reported(r, s, m[k])
  PROVE  Covers(s.told, due[k]) /\ (Alone(r, s, m[k]) => Exact(asked, m, due, k, s))
<1>1. PICK item, d, e, n : item = m[k] /\ d = due[k - 1] /\ e = due[k] /\ n = Len(r.told)
  OBVIOUS
<1>2. e = IF IsDue(asked, m, k) THEN Append(d, item) ELSE d
  BY <1>1 DEF DueOf
<1>3. n \in Nat /\ r.told \in Seq(Telling) /\ n = Len(d)
  BY <1>1 DEF IsReader, Exact
<1>4. \E D : d \in Seq(D) /\ item \in D
  <2>1. k - 1 \in 0..Len(m)
    OBVIOUS
  <2>2. d \in Seq({m[i] : i \in 1..Len(m)}) /\ item \in {m[i] : i \in 1..Len(m)}
    BY <1>1, <2>1, DueTypes
  <2> QED
    BY <2>2
<1>5. k = (k - 1) + 1
  OBVIOUS
<1>6. \A id : id \in r.pending <=> id \in StillAsked(asked, m, k)
  BY <1>5 DEF Exact
<1>7. IsDue(asked, m, k) <=> Wanted(r.pending, item)
  <2>1. \A j \in 1..(k - 1) : ~Misread(m[j])
    BY DEF AllTrue
  <2> QED
    BY <1>1, <1>6, <2>1 DEF IsDue, Wanted
<1>8. /\ Handled(r, s) /\ IsReader(s) /\ s.told \in Seq(Telling)
      /\ Wanted(r.pending, item) => Len(s.told) > n /\ Tells(s.told[n + 1], item)
      /\ Len(s.told) >= n /\ \A i \in 1..n : s.told[i] = r.told[i]
  BY <1>1, HandledReader DEF Reported, Handled, IsReader
<1>9. \A i \in 1..n : Tells(s.told[i], d[i])
  <2>1. \A i \in 1..n : Tells(r.told[i], d[i])
    BY <1>1, <1>3 DEF Exact, Covers
  <2> QED
    BY <1>8, <2>1
<1>10. CASE IsDue(asked, m, k)
  <2>1. Len(e) = n + 1 /\ e[n + 1] = item /\ \A i \in 1..n : e[i] = d[i]
    BY <1>2, <1>3, <1>4, <1>10
  <2>2. Len(s.told) >= n + 1 /\ Tells(s.told[n + 1], item)
    BY <1>3, <1>7, <1>8, <1>10
  <2>3. ASSUME NEW i \in 1..(n + 1) PROVE Tells(s.told[i], e[i])
    <3>1. CASE i = n + 1
      BY <2>1, <2>2, <3>1
    <3>2. CASE i # n + 1
      <4>1. i \in 1..n
        BY <1>3, <3>2
      <4> QED
        BY <1>9, <2>1, <4>1
    <3> QED
      BY <3>1, <3>2
  <2>4. Covers(s.told, e)
    BY <2>1, <2>2, <2>3 DEF Covers
  <2>5. ASSUME Alone(r, s, item) PROVE Exact(asked, m, due, k, s)
    <3>1. s.ok /\ Len(s.told) = n + 1
      BY <1>1, <1>7, <1>10, <2>5 DEF Alone
    <3>2. \A id : id \in s.pending <=> id \in r.pending /\ s.told[n + 1].id # id
      <4>1. \A i : i \in (n + 1)..(n + 1) <=> i = n + 1
        BY <1>3
      <4>2. \A id : id \in s.pending <=>
              id \in r.pending /\ \A i \in (n + 1)..(n + 1) : s.told[i].id # id
        BY <1>1, <1>8, <3>1 DEF Handled
      <4> QED
        BY <4>1, <4>2
    <3>3. \A id : id \in StillAsked(asked, m, k + 1) <=>
            id \in StillAsked(asked, m, k) /\ (IsAnswer(item) => item.id # id)
      <4>1. \A j : j \in 1..((k + 1) - 1) <=> j \in 1..(k - 1) \/ j = k
        OBVIOUS
      <4> QED
        BY <1>1, <4>1 DEF StillAsked
    <3>4. \A id : id \in s.pending <=> id \in StillAsked(asked, m, k + 1)
      <4> TAKE id
      <4>1. CASE IsAnswer(item)
        <5>1. s.told[n + 1].id = item.id
          BY <2>2, <4>1 DEF Tells
        <5> QED
          BY <1>6, <3>2, <3>3, <4>1, <5>1
      <4>2. CASE ~IsAnswer(item)
        <5>1. s.told[n + 1].id = NoQuery
          BY <2>2, <4>2 DEF Tells
        <5>2. NoQuery \notin r.pending
          BY NoQueryIs DEF IsReader
        <5> QED
          BY <1>6, <3>2, <3>3, <4>2, <5>1, <5>2
      <4> QED
        BY <4>1, <4>2
    <3> QED
      BY <1>1, <2>1, <2>4, <3>1, <3>4 DEF Exact
  <2> QED
    BY <1>1, <2>4, <2>5
<1>11. CASE ~IsDue(asked, m, k)
  <2>1. e = d
    BY <1>2, <1>11
  <2>2. Covers(s.told, e)
    BY <1>3, <1>8, <1>9, <2>1 DEF Covers
  <2>3. ASSUME Alone(r, s, item) PROVE Exact(asked, m, due, k, s)
    <3>1. s.ok /\ Len(s.told) = n
      <4>1. ~Wanted(r.pending, item)
        BY <1>7, <1>11
      <4>2. s.ok /\ Len(s.told) = n + 0
        BY <1>1, <2>3, <4>1 DEF Alone
      <4> QED
        BY <1>3, <4>2
    <3>2. \A id : id \in s.pending <=> id \in r.pending
      <4>1. \A i : i \notin (n + 1)..n
        BY <1>3
      <4>2. \A id : id \in s.pending <=>
              id \in r.pending /\ \A i \in (n + 1)..n : s.told[i].id # id
        BY <1>1, <1>8, <3>1 DEF Handled
      <4> QED
        BY <4>1, <4>2
    <3>3. \A id : id \in StillAsked(asked, m, k + 1) <=>
            id \in StillAsked(asked, m, k) /\ (IsAnswer(item) => item.id # id)
      <4>1. \A j : j \in 1..((k + 1) - 1) <=> j \in 1..(k - 1) \/ j = k
        OBVIOUS
      <4> QED
        BY <1>1, <4>1 DEF StillAsked
    <3>4. IsAnswer(item) => item.id \notin r.pending
      BY <1>7, <1>11 DEF Wanted
    <3>5. \A id : id \in s.pending <=> id \in StillAsked(asked, m, k + 1)
      BY <1>6, <3>2, <3>3, <3>4
    <3> QED
      BY <1>1, <1>3, <2>1, <2>2, <3>1, <3>5 DEF Exact
  <2> QED
    BY <1>1, <2>2, <2>3
<1> QED
  BY <1>10, <1>11

\* Behind a misread item nothing more is due.
LEMMA NoMore ==
  ASSUME NEW asked, NEW m, Len(m) \in Nat, NEW due, DueOf(asked, m, due), NEW k \in 1..Len(m),
         ~AllTrue(m, k - 1), NEW r, IsReader(r), Covers(r.told, due[k - 1]), NEW s, Handled(r, s)
  PROVE  Covers(s.told, due[k])
<1>1. PICK d, n : d = due[k - 1] /\ n = Len(r.told)
  OBVIOUS
<1>2. due[k] = d
  <2>1. ~IsDue(asked, m, k)
    BY DEF AllTrue, IsDue
  <2> QED
    BY <1>1, <2>1 DEF DueOf
<1>3. Len(d) \in Nat /\ n \in Nat /\ Len(d) <= n /\ Len(s.told) >= n /\ Len(s.told) \in Nat
  <2>1. k - 1 \in 0..Len(m)
    OBVIOUS
  <2>2. Len(d) \in Nat
    BY <1>1, <2>1, DueTypes
  <2> QED
    BY <1>1, <2>2 DEF Covers, Handled, IsReader
<1>4. \A i \in 1..Len(d) : Tells(s.told[i], d[i])
  <2> TAKE i \in 1..Len(d)
  <2>1. i \in 1..n
    BY <1>3
  <2>2. s.told[i] = r.told[i] /\ Tells(r.told[i], d[i])
    BY <1>1, <2>1 DEF Handled, Covers
  <2> QED
    BY <2>2
<1> QED
  BY <1>2, <1>3, <1>4 DEF Covers

---------------------------------------------------------------------------
(* Whole messages. *)

\* A message is a sequence of items, one at least.
LEMMA MessageIs ==
  ASSUME NEW m, IsMessage(m)
  PROVE  /\ Len(m) \in Nat /\ Len(m) > 0 /\ IsWord(Len(m)) /\ IsWord(Len(Body(m)))
         /\ m = [i \in 1..Len(m) |-> m[i]]
         /\ \A i \in 1..Len(m) : /\ IsItem(m[i]) /\ IsWord(Len(Content(m[i])))
                                 /\ (IsAnswer(m[i]) => m[i].id \in DOMAIN Queries)
<1>1. /\ Len(m) \in Nat /\ Len(m) > 0 /\ IsWord(Len(m)) /\ IsWord(Len(Body(m)))
      /\ m = [i \in 1..Len(m) |-> m[i]]
      /\ \A i \in DOMAIN m : IsItem(m[i]) /\ IsWord(Len(Content(m[i])))
  BY DEF IsMessage, IsSequence, IsWord
<1>2. DOMAIN m = 1..Len(m)
  BY <1>1
<1>3. ASSUME NEW i \in 1..Len(m)
      PROVE  /\ IsItem(m[i]) /\ IsWord(Len(Content(m[i])))
             /\ (IsAnswer(m[i]) => m[i].id \in DOMAIN Queries)
  <2>1. IsItem(m[i]) /\ IsWord(Len(Content(m[i])))
    BY <1>1, <1>2
  <2> QED
    BY <2>1, TypesSent
<1> QED
  BY <1>1, <1>3

\* The items of a message as they stand in a container.
InContainers(m) == [i \in DOMAIN m |-> InContainer(m[i])]

\* They are pieces.
LEMMA ContainersAre ==
  ASSUME NEW m, IsMessage(m)
  PROVE  /\ IsPieces(Len(m), InContainers(m))
         /\ \A i \in 1..Len(m) : InContainers(m)[i] = InContainer(m[i])
<1>1. PICK n, ss : n = Len(m) /\ ss = InContainers(m)
  OBVIOUS
<1>2. n \in Nat /\ DOMAIN m = 1..n
  BY <1>1, MessageIs
<1>3. ss = [i \in 1..n |-> InContainer(m[i])]
  BY <1>1, <1>2 DEF InContainers
<1>4. ASSUME NEW i \in 1..n PROVE ss[i] = InContainer(m[i]) /\ Whole(ss[i])
  <2>1. IsItem(m[i])
    BY <1>1, MessageIs
  <2>2. Whole(InContainer(m[i]))
    BY <2>1, ItemWritten
  <2> QED
    BY <1>3, <2>2
<1>5. ss = [i \in 1..n |-> ss[i]]
  BY <1>3
<1> QED
  BY <1>1, <1>4, <1>5 DEF IsPieces

\* The constructor of a container and the number of its items.
BodyHead(m) == AppendInt(TL_MsgContainer) \o AppendInt(Len(m))

\* A message is one item or a container, and whole words.
LEMMA BodyIs ==
  ASSUME NEW m, IsMessage(m)
  PROVE  /\ Len(m) = 1 => Body(m) = Content(m[1])
         /\ Len(m) # 1 => Body(m) = BodyHead(m) \o FlattenSeq(InContainers(m))
         /\ Whole(Body(m))
         /\ Whole(AppendInt(TL_MsgContainer)) /\ Words(AppendInt(TL_MsgContainer)) = 1
         /\ Whole(AppendInt(Len(m))) /\ Words(AppendInt(Len(m))) = 1
         /\ Whole(BodyHead(m)) /\ Words(BodyHead(m)) = 2
         /\ Whole(FlattenSeq(InContainers(m)))
<1>1. Len(m) \in Nat /\ TL_MsgContainer \in Nat
  BY MessageIs, Known DEF IsWord
<1>2. /\ Whole(AppendInt(TL_MsgContainer)) /\ Words(AppendInt(TL_MsgContainer)) = 1
      /\ Whole(AppendInt(Len(m))) /\ Words(AppendInt(Len(m))) = 1
  BY <1>1, IntWords
<1>3. Whole(BodyHead(m)) /\ Words(BodyHead(m)) = 2
  BY <1>2, WholeJoined DEF BodyHead
<1>4. Whole(FlattenSeq(InContainers(m)))
  BY <1>1, ContainersAre, FlatWhole
<1>5. CASE Len(m) = 1
  <2>1. Body(m) = Content(m[1])
    BY <1>5 DEF Body
  <2>2. IsItem(m[1])
    BY <1>5, MessageIs
  <2> QED
    BY <1>2, <1>3, <1>4, <1>5, <2>1, <2>2, ContentWritten
<1>6. CASE Len(m) # 1
  <2>1. Body(m) = BodyHead(m) \o FlattenSeq(InContainers(m))
    BY <1>6 DEF Body, BodyHead, InContainers
  <2>2. Whole(BodyHead(m) \o FlattenSeq(InContainers(m)))
    BY <1>3, <1>4, WholeJoined
  <2> QED
    BY <1>2, <1>3, <1>4, <1>6, <2>1, <2>2
<1> QED
  BY <1>5, <1>6

\* Nothing is handled yet.
LEMMA ExactAtFirst ==
  ASSUME NEW asked, NEW m, NEW due, DueOf(asked, m, due), NEW r, r.told = <<>>, r.pending = asked
  PROVE  Exact(asked, m, due, 0, r)
<1>1. due[0] = <<>>
  BY DEF DueOf
<1>2. Len(<<>>) = 0 /\ \A i : i \notin 1..0
  OBVIOUS
<1>3. Covers(r.told, due[0])
  BY <1>1, <1>2 DEF Covers
<1>4. \A id : id \in asked <=> id \in StillAsked(asked, m, 0 + 1)
  <2>1. (0 + 1) - 1 = 0
    OBVIOUS
  <2> QED
    BY <1>2, <2>1 DEF StillAsked
<1> QED
  BY <1>1, <1>3, <1>4 DEF Exact

\* The items of a container, one after the other.
OnTrack(asked, m, due, k, head, p, r) ==
  /\ Covers(r.told, due[k])
  /\ AllTrue(m, k) => Exact(asked, m, due, k, r) /\ r.ok /\ r.ptr = p /\ r.inEnd = head.inEnd

\* One pass after the other tells what is due.
LEMMA ThePass ==
  ASSUME NEW m, IsMessage(m), NEW n, n = Len(m), NEW head, IsReader(head), head.ok,
         NEW asked, NEW due, DueOf(asked, m, due), Exact(asked, m, due, 0, head),
         NEW pos, Laid(head.mem, head.ptr, n, InContainers(m), pos), pos[n] <= head.end,
         NEW after, Passing(head, n, after)
  PROVE  \A k \in 0..n : OnTrack(asked, m, due, k, head, pos[k], after[k])
<1>1. n \in Nat
  BY MessageIs
<1>2. \A k \in 0..n : /\ IsReader(after[k]) /\ after[k].mem = head.mem /\ after[k].end = head.end
                      /\ pos[k] \in Nat /\ pos[k] <= head.end
  <2> TAKE k \in 0..n
  <2>1. IsReader(after[k]) /\ Handled(after[0], after[k]) /\ after[0] = head
    <3>1. 0 \in 0..k /\ after[0] = head
      BY <1>1 DEF Passing
    <3>2. IsReader(after[k]) /\ \A j \in 0..k : Handled(after[j], after[k])
      BY <1>1, AnyPass
    <3> QED
      BY <3>1, <3>2
  <2>2. pos[k] \in Nat /\ pos[k] <= pos[n] /\ n \in 0..n
    BY <1>1, PlacesRise
  <2>3. pos[n] \in Nat /\ head.end \in Nat
    BY <2>2 DEF Laid, IsReader
  <2> QED
    BY <2>1, <2>2, <2>3 DEF Handled
<1> DEFINE P == {k \in 0..n : OnTrack(asked, m, due, k, head, pos[k], after[k])}
<1>3. 0 \in P
  <2>1. after[0] = head /\ pos[0] = head.ptr /\ 0 \in 0..n
    BY <1>1 DEF Passing, Laid
  <2>2. OnTrack(asked, m, due, 0, head, pos[0], after[0])
    BY <2>1 DEF OnTrack, Exact
  <2> QED
    BY <2>1, <2>2
<1>4. ASSUME NEW k \in 1..n, k - 1 \in P PROVE k \in P
  <2>1. PICK r, s, p, item : r = after[k - 1] /\ s = after[k] /\ p = pos[k - 1] /\ item = m[k]
    OBVIOUS
  <2>2. OnTrack(asked, m, due, k - 1, head, p, r) /\ k - 1 \in 0..n /\ k \in 0..n
    BY <1>4, <2>1
  <2>3. s = ContainerItem(r)
    BY <2>1 DEF Passing
  <2>4. IsReader(r) /\ r.mem = head.mem /\ r.end = head.end /\ pos[k] \in Nat /\ pos[k] <= r.end
    BY <1>2, <2>1, <2>2
  <2>5. /\ IsItem(item) /\ IsWord(Len(Content(item))) /\ InContainers(m)[k] = InContainer(item)
        /\ (IsAnswer(item) => item.id \in DOMAIN Queries)
    BY <2>1, MessageIs, ContainersAre
  <2>6. Stored(head.mem, p, InContainer(item)) /\ pos[k] = p + Words(InContainer(item))
    BY <2>1, <2>5 DEF Laid
  <2>7. CASE AllTrue(m, k - 1)
    <3>1. Exact(asked, m, due, k - 1, r) /\ r.ok /\ r.ptr = p /\ r.inEnd = head.inEnd
      BY <2>2, <2>7 DEF OnTrack
    <3>2. Stored(r.mem, r.ptr, InContainer(item)) /\ r.ptr + Words(InContainer(item)) <= r.end
      BY <2>4, <2>6, <3>1
    <3>3. ItemDid(r, s, item)
      BY <2>3, <2>4, <2>5, <3>1, <3>2, TheItem
    <3>4. Reported(r, s, item)
      BY <3>3 DEF ItemDid
    <3>5. Covers(s.told, due[k]) /\ (Alone(r, s, item) => Exact(asked, m, due, k, s))
      BY <1>1, <2>1, <2>4, <2>5, <2>7, <3>1, <3>4, OneMore
    <3>6. ASSUME AllTrue(m, k)
          PROVE  Exact(asked, m, due, k, s) /\ s.ok /\ s.ptr = pos[k] /\ s.inEnd = head.inEnd
      <4>1. ~Misread(item)
        <5>1. k \in 1..k
          OBVIOUS
        <5> QED
          BY <2>1, <3>6, <5>1 DEF AllTrue
      <4>2. Alone(r, s, item) /\ s.ptr = r.ptr + Words(InContainer(item)) /\ s.inEnd = r.inEnd
        BY <3>3, <4>1 DEF ItemDid
      <4>3. s.ok
        BY <4>2 DEF Alone
      <4> QED
        BY <2>6, <3>1, <3>5, <4>2, <4>3
    <3>7. OnTrack(asked, m, due, k, head, pos[k], s)
      BY <3>5, <3>6 DEF OnTrack
    <3> QED
      BY <2>1, <2>2, <3>7
  <2>8. CASE ~AllTrue(m, k - 1)
    <3>1. Handled(r, s)
      BY <2>3, <2>4, AnyItem
    <3>2. Covers(r.told, due[k - 1])
      BY <2>2 DEF OnTrack
    <3>3. Covers(s.told, due[k])
      BY <1>1, <2>4, <2>8, <3>1, <3>2, NoMore
    <3>4. ~AllTrue(m, k)
      <4>1. \A j \in 1..(k - 1) : j \in 1..k
        OBVIOUS
      <4> QED
        BY <2>8, <4>1 DEF AllTrue
    <3>5. OnTrack(asked, m, due, k, head, pos[k], s)
      BY <3>3, <3>4 DEF OnTrack
    <3> QED
      BY <2>1, <2>2, <3>5
  <2> QED
    BY <2>7, <2>8
<1>5. \A k \in 0..n : k \in P
  <2> HIDE DEF P
  <2> QED
    BY <1>1, <1>3, <1>4, Counting
<1> QED
  BY <1>5

\* A message is read: what is due is told, and unless an item is misread nothing
\* else, and the message is read to its end.
IsRead(asked, m, r, s) ==
  /\ Covers(s.told, Due(asked, m))
  /\ AllTrue(m, Len(m)) => s.ok /\ s.ptr = r.end /\ s.inEnd = r.inEnd /\ Len(s.told) = Len(Due(asked, m))

\* A message of one item is read.
LEMMA TheSingle ==
  ASSUME NEW m, IsMessage(m), Len(m) = 1, NEW r, IsReader(r), r.ok, r.told = <<>>,
         Stored(r.mem, r.ptr, Body(m)), r.ptr + Words(Body(m)) = r.end
  PROVE  IsRead(r.pending, m, r, RpcMessage(r))
<1>1. PICK item, s, asked : item = m[1] /\ s = RpcExecuteAnswer(r) /\ asked = r.pending
  OBVIOUS
<1>2. IsItem(item) /\ Body(m) = Content(item) /\ (IsAnswer(item) => item.id \in DOMAIN Queries)
  BY <1>1, MessageIs, BodyIs
<1>3. Did(r, s, item) /\ WordAt(r.mem, r.ptr) # TL_MsgContainer
  BY <1>1, <1>2, TheExecute
<1>4. RpcMessage(r) = s
  BY <1>1, <1>3 DEF RpcMessage
<1>5. PICK due : DueOf(asked, m, due) /\ Due(asked, m) = due[1]
  <2>1. Len(m) \in Nat
    OBVIOUS
  <2>2. PICK due : DueOf(asked, m, due) /\ Due(asked, m) = due[Len(m)]
    BY <2>1, DueIs
  <2> QED
    BY <2>2
<1>6. Exact(asked, m, due, 0, r)
  BY <1>1, <1>5, ExactAtFirst
<1>7. AllTrue(m, 0)
  BY DEF AllTrue
<1>8. Reported(r, s, item)
  BY <1>3 DEF Did
<1>9. Covers(s.told, due[1]) /\ (Alone(r, s, item) => Exact(asked, m, due, 1, s))
  <2>1. 1 \in 1..Len(m) /\ 1 - 1 = 0 /\ Len(m) \in Nat
    OBVIOUS
  <2> QED
    BY <1>1, <1>2, <1>5, <1>6, <1>7, <1>8, <2>1, OneMore
<1>10. ASSUME AllTrue(m, Len(m))
       PROVE  s.ok /\ s.ptr = r.end /\ s.inEnd = r.inEnd /\ Len(s.told) = Len(due[1])
  <2>1. ~Misread(item)
    BY <1>1, <1>10 DEF AllTrue
  <2>2. Alone(r, s, item) /\ s.ptr = r.end
    BY <1>3, <2>1 DEF Did
  <2> QED
    BY <1>9, <2>2 DEF Alone, Exact
<1> QED
  BY <1>1, <1>4, <1>5, <1>9, <1>10 DEF IsRead

\* A container is read.
LEMMA TheContainer ==
  ASSUME NEW m, IsMessage(m), Len(m) # 1, NEW r, IsReader(r), r.ok, r.told = <<>>,
         Stored(r.mem, r.ptr, Body(m)), r.ptr + Words(Body(m)) = r.end
  PROVE  IsRead(r.pending, m, r, RpcMessage(r))
<1>1. PICK a, b, c, n, asked : /\ a = AppendInt(TL_MsgContainer) /\ b = AppendInt(n) /\ n = Len(m)
                               /\ c = FlattenSeq(InContainers(m)) /\ asked = r.pending
  OBVIOUS
<1>2. /\ Whole(a) /\ Words(a) = 1 /\ Whole(b) /\ Words(b) = 1 /\ Whole(a \o b) /\ Words(a \o b) = 2
      /\ Whole(c) /\ Body(m) = (a \o b) \o c
  BY <1>1, BodyIs DEF BodyHead
<1>3. n \in Nat /\ IsWord(n)
  BY <1>1, MessageIs
<1>4. r.mem \in Seq(Byte) /\ r.ptr \in Nat /\ r.end \in Nat /\ Words(c) \in Nat
  BY <1>2, WholeIs DEF IsReader
<1>5. Stored(r.mem, r.ptr, a \o b) /\ Stored(r.mem, r.ptr + 2, c)
  BY <1>2, <1>4, StoredJoined
<1>6. Stored(r.mem, r.ptr, a) /\ Stored(r.mem, r.ptr + 1, b)
  BY <1>2, <1>4, <1>5, StoredJoined
<1>7. WordAt(r.mem, r.ptr) = TL_MsgContainer
  BY <1>1, <1>6, Known, TheInt
<1>8. RpcMessage(r) = WorkContainer(r)
  BY <1>7 DEF RpcMessage
<1>9. PICK vs, types : vs = <<TL_MsgContainer, n>> /\ types = <<"int", "int">>
  OBVIOUS
<1>10. AreInts(r, 2, vs, types)
  <2>1. Len(types) = 2 /\ types[1] = "int" /\ types[2] = "int" /\ vs[1] = TL_MsgContainer /\ vs[2] = n
    BY <1>9
  <2>2. r.ptr + (1 - 1) = r.ptr /\ r.ptr + (2 - 1) = r.ptr + 1
    BY <1>4
  <2>3. \A i \in 1..2 : i = 1 \/ i = 2
    OBVIOUS
  <2> QED
    BY <1>1, <1>3, <1>6, <2>1, <2>2, <2>3, Known DEF AreInts
<1>11. Words(Body(m)) = 2 + Words(c)
  BY <1>2, WholeJoined
<1>12. r.ptr + 2 <= r.end /\ (r.ptr + 2) + Words(c) = r.end
  <2>1. PICK p, w, e, z : p = r.ptr /\ w = Words(c) /\ e = r.end /\ z = Words(Body(m))
    OBVIOUS
  <2>2. p \in Nat /\ w \in Nat /\ z = 2 + w /\ p + z = e
    BY <1>4, <1>11, <2>1
  <2>3. p + 2 <= e /\ (p + 2) + w = e
    BY <2>2
  <2> QED
    BY <2>1, <2>3
<1>13. PICK head : head = Fetch(r, types)
  OBVIOUS
<1>14. After(r, head, r.ptr + 2, Firsts(vs, 2))
  BY <1>10, <1>12, <1>13, TheInts
<1>15. /\ IsReader(head) /\ head.ok /\ head.ptr = r.ptr + 2 /\ head.got = Firsts(vs, 2) /\ head.mem = r.mem
       /\ head.end = r.end /\ head.told = <<>> /\ head.pending = asked /\ head.inEnd = r.inEnd
  BY <1>1, <1>14 DEF After, Onward
<1>16. head.got[2] = n
  BY <1>9, <1>15 DEF Firsts
<1>17. PICK after : Passing(head, n, after) /\ WorkContainer(r) = after[n]
  BY <1>3, <1>9, <1>13, <1>15, <1>16, ContainerIs
<1>18. PICK due : DueOf(asked, m, due) /\ Due(asked, m) = due[n]
  BY <1>1, <1>3, DueIs
<1>19. Exact(asked, m, due, 0, head)
  BY <1>15, <1>18, ExactAtFirst
<1>20. PICK pos : Laid(r.mem, r.ptr + 2, n, InContainers(m), pos) /\ pos[n] = (r.ptr + 2) + Words(c)
  <2>1. IsPieces(n, InContainers(m)) /\ Stored(r.mem, r.ptr + 2, FlattenSeq(InContainers(m)))
    BY <1>1, <1>5, ContainersAre
  <2> QED
    BY <1>1, <1>3, <1>4, <2>1, LaidOut
<1>21. pos[n] = r.end /\ pos[n] <= head.end
  BY <1>4, <1>12, <1>15, <1>20
<1>22. Laid(head.mem, head.ptr, n, InContainers(m), pos)
  BY <1>15, <1>20
<1>23. OnTrack(asked, m, due, n, head, pos[n], after[n])
  <2>1. n \in 0..n
    BY <1>3
  <2> QED
    BY <1>1, <1>15, <1>17, <1>18, <1>19, <1>21, <1>22, <2>1, ThePass
<1> QED
  BY <1>1, <1>8, <1>15, <1>17, <1>18, <1>21, <1>23 DEF IsRead, OnTrack, Exact

---------------------------------------------------------------------------
(* The text of a message. *)

\* The text of a message stands behind its length.
LEMMA EnvelopeIs ==
  ASSUME NEW m \in Messages
  PROVE  /\ IsMessage(m) /\ Envelope(m) \in Payloads /\ Envelope(m) \in Seq(Byte)
         /\ WordAt(Envelope(m), 0) = Len(Body(m))
         /\ Stored(Envelope(m), 1, Body(m))
<1>1. IsMessage(m) /\ Envelope(m) \in Payloads
  BY PacketsAssumption
<1>2. PICK e : e = Envelope(m)
  OBVIOUS
<1>3. e \in Seq(Byte)
  BY <1>1, <1>2, FramingAssumption
<1>4. PICK a, b, l : a = AppendInt(l) /\ b = Body(m) /\ l = Len(b)
  OBVIOUS
<1>5. Whole(b) /\ IsWord(l) /\ l \in Nat /\ Whole(a) /\ Words(a) = 1
  <2>1. Whole(b) /\ IsWord(l)
    BY <1>1, <1>4, BodyIs, MessageIs
  <2>2. l \in Nat
    BY <2>1 DEF IsWord
  <2> QED
    BY <1>4, <2>1, <2>2, IntWords
<1>6. PICK k, z : k = (Block - ((WordSize + l) % Block)) % Block /\ z = Repeat(Noise, k)
  OBVIOUS
<1>7. k \in Nat
  <2>1. PICK x : x = 4 * WordSize
    OBVIOUS
  <2>2. x \in Nat /\ x > 0 /\ Block = x
    BY <2>1, Sizes DEF Block
  <2>3. PICK y : y = (WordSize + l) % x
    OBVIOUS
  <2>4. y \in 0..(x - 1)
    <3>1. WordSize + l \in Nat
      BY <1>5, Sizes
    <3> QED
      BY <2>2, <2>3, <3>1, Division
  <2>5. x - y \in Nat
    BY <2>2, <2>4
  <2>6. (x - y) % x \in 0..(x - 1)
    BY <2>2, <2>5, Division
  <2> QED
    BY <1>6, <2>2, <2>3, <2>6
<1>8. e = (a \o b) \o z
  BY <1>2, <1>4, <1>6 DEF Envelope
<1>9. PICK S, t : S = Byte \cup {Noise} /\ t = a \o b
  OBVIOUS
<1>10. t \in Seq(Byte) /\ t \in Seq(S) /\ Whole(t) /\ Words(t) = 1 + Words(b)
  <2>1. Whole(t) /\ Words(t) = 1 + Words(b)
    BY <1>5, <1>9, WholeJoined
  <2>2. t \in Seq(Byte)
    BY <2>1, WholeIs
  <2>3. t \in Seq(S)
    BY <1>9, <2>2
  <2> QED
    BY <2>1, <2>2, <2>3
<1>11. z \in Seq(S) /\ Len(z) = k
  <2>1. z = [i \in 1..k |-> Noise]
    BY <1>6 DEF Repeat
  <2>2. z \in [1..k -> S]
    BY <1>9, <2>1
  <2> QED
    BY <1>7, <2>1, <2>2
<1>12. PICK n : n = Len(t)
  OBVIOUS
<1>13. n \in Nat /\ Len(e) = n + k /\ \A i \in 1..n : e[i] = t[i]
  <2>1. n \in Nat
    BY <1>10, <1>12
  <2>2. Len(e) = n + k /\ \A j \in 1..(n + k) : e[j] = IF j <= n THEN t[j] ELSE z[j - n]
    <3>1. e = t \o z
      BY <1>8, <1>9
    <3>2. /\ Len(t \o z) = n + k
          /\ \A j \in 1..(n + k) : (t \o z)[j] = IF j <= n THEN t[j] ELSE z[j - n]
      BY <1>10, <1>11, <1>12, Joined
    <3> QED
      BY <3>1, <3>2
  <2>3. \A j \in 1..n : j \in 1..(n + k) /\ j <= n
    BY <1>7, <2>1
  <2> QED
    BY <2>1, <2>2, <2>3
<1>14. Stored(e, 0, t)
  <2>1. PICK w : w = Words(t)
    OBVIOUS
  <2>2. w \in Nat /\ n = WordSize * w
    BY <1>10, <1>12, <2>1, WholeIs
  <2>3. (0 + w) * WordSize = n
    BY <2>2, Sizes
  <2>4. n <= Len(e)
    BY <1>7, <1>13
  <2>5. (0 + w) * WordSize <= Len(e)
    BY <2>3, <2>4
  <2>6. \A i \in 1..Len(t) : e[(0 * WordSize) + i] = t[i]
    <3>1. 0 * WordSize = 0
      BY Sizes
    <3> QED
      BY <1>12, <1>13, <3>1
  <2> QED
    BY <1>10, <2>1, <2>5, <2>6 DEF Stored
<1>15. Stored(e, 0, a) /\ Stored(e, 0 + 1, b)
  BY <1>3, <1>5, <1>9, <1>14, StoredJoined
<1>16. \A i \in 1..WordSize : e[(0 * WordSize) + i] = AppendInt(l)[i]
  <2>1. Len(a) = WordSize
    BY <1>4, <1>5, IntWritten
  <2> QED
    BY <1>4, <1>15, <2>1 DEF Stored
<1>17. WordAt(e, 0) = l
  BY <1>5, <1>16, ReadBack
<1> QED
  BY <1>1, <1>2, <1>3, <1>4, <1>15, <1>17

---------------------------------------------------------------------------
(* The session on its connection. *)

\* What a session with its connection consists of.
AllVars == <<vars, packetVars>>

\* Each step of the session is one of its connection or leaves it alone.
LEMMA OnConnection ==
  ASSUME [PacketsNext]_AllVars
  PROVE  [Next]_vars
<1>1. CASE Steps /\ UNCHANGED packetVars
  BY <1>1 DEF Next
<1>2. ASSUME NEW m \in Messages, ServerWritesMessage(m) PROVE [Next]_vars
  <2>1. Envelope(m) \in Payloads /\ ServerWrites(Envelope(m))
    BY <1>2, PacketsAssumption DEF ServerWritesMessage
  <2> QED
    BY <2>1 DEF Next
<1>3. CASE ProcessRpcMessage
  BY <1>3 DEF ProcessRpcMessage
<1>4. CASE DiscardRpcMessage
  BY <1>4 DEF DiscardRpcMessage
<1>5. CASE UNCHANGED AllVars
  BY <1>5 DEF AllVars
<1> QED
  BY <1>1, <1>2, <1>3, <1>4, <1>5 DEF PacketsNext

\* Each step of the session is one of its connection or leaves it alone.
THEOREM SessionUsesConnection == PacketsSpec => Spec
<1>1. PacketsInit => Init
  BY DEF PacketsInit
<1>2. [PacketsNext]_AllVars => [Next]_vars
  BY OnConnection
<1> QED
  BY <1>1, <1>2, PTL DEF PacketsSpec, Spec, AllVars

\* The session gets the messages the server wrote, in order.
THEOREM PacketsArriveIntact == WholeHeaders => (PacketsSpec => []MessagesIntact)
<1> SUFFICES ASSUME WholeHeaders PROVE PacketsSpec => []MessagesIntact
  OBVIOUS
<1>1. OneStream
  BY PacketsAssumption DEF OneStream
<1> QED
  BY <1>1, SessionUsesConnection, MessagesArriveIntact, PTL

---------------------------------------------------------------------------
(* The inductive invariant. *)

\* The queries unanswered in front of the k-th of the calls that executed tells of.
UnansweredIn(told, k) ==
  {id \in DOMAIN Queries : \A j \in 1..(k - 1) : \A i \in DOMAIN told[j] : told[j][i].id # id}
\* What ExecutedTruly says of the k-th call, of the message m.
TrulyAt(told, m, outcome, k) ==
  outcome # "discarded" => Truly(told[k], UnansweredIn(told, k), m)

\* What the server has written are the messages sent.
Written ==
  /\ sent \in Seq(Messages) /\ Len(sent) = Len(written)
  /\ \A i \in 1..Len(sent) : written[i] = Envelope(sent[i])

\* What was handled, told and come of it is counted alike.
Counted ==
  /\ handled \in Nat /\ handled <= Len(queued)
  /\ executed \in Seq(Seq(Telling)) /\ Len(executed) = handled
  /\ outcomes \in Seq({"ended", "displaced", "discarded"}) /\ Len(outcomes) = handled
  /\ pending \subseteq DOMAIN Queries /\ astray \in BOOLEAN /\ (astray => handled # 0)
\* The queries pending are those no answer to which the program has been told.
Waiting == ~astray => \A id : id \in pending <=> id \in UnansweredIn(executed, handled + 1)

\* ExecutedTruly, call by call.
Truths == \A k \in 1..handled : TrulyAt(executed, sent[k], outcomes[k], k)

\* The inductive invariant.
PacketsIInv == IInv /\ Written /\ Counted /\ Waiting /\ Truths /\ ReadToTheEnd

\* Executing a message more leaves what was executed.
LEMMA Executed ==
  ASSUME NEW told \in Seq(Seq(Telling)), NEW t \in Seq(Telling), NEW n, n = Len(told)
  PROVE  LET more == Append(told, t) IN
         /\ more \in Seq(Seq(Telling)) /\ Len(more) = n + 1 /\ more[n + 1] = t
         /\ \A k \in 1..(n + 1) : UnansweredIn(more, k) = UnansweredIn(told, k)
         /\ \A m, outcome : \A k \in 1..n : TrulyAt(told, m, outcome, k) => TrulyAt(more, m, outcome, k)
<1>1. PICK more : more = Append(told, t)
  OBVIOUS
<1>2. n \in Nat /\ more \in Seq(Seq(Telling)) /\ Len(more) = n + 1 /\ more[n + 1] = t
      /\ \A j \in 1..n : more[j] = told[j]
  BY <1>1
<1>3. ASSUME NEW k \in 1..(n + 1) PROVE UnansweredIn(more, k) = UnansweredIn(told, k)
  <2>1. \A j \in 1..(k - 1) : more[j] = told[j]
    <3>1. \A j \in 1..(k - 1) : j \in 1..n
      BY <1>2
    <3> QED
      BY <1>2, <3>1
  <2> QED
    BY <2>1 DEF UnansweredIn
<1>4. ASSUME NEW m, NEW outcome, NEW k \in 1..n, TrulyAt(told, m, outcome, k)
      PROVE  TrulyAt(more, m, outcome, k)
  <2>1. k \in 1..(n + 1)
    BY <1>2
  <2>2. UnansweredIn(more, k) = UnansweredIn(told, k) /\ more[k] = told[k]
    BY <1>2, <1>3, <2>1
  <2> QED
    BY <1>4, <2>2 DEF TrulyAt
<1> QED
  BY <1>1, <1>2, <1>3, <1>4

\* A call of processRpcAnswer reads the message the server sent.
LEMMA Reading ==
  ASSUME IInv, Written, Counted, handled < Len(queued)
  PROVE  LET m == sent[handled + 1]
             r == Reader(queued[handled + 1])
             s == RpcMessage(r)
         IN /\ m \in Messages /\ handled + 1 \in 1..Len(sent) /\ r.told = <<>> /\ r.pending = pending
            /\ r.inEnd = TRUE
            /\ Handled(r, s) /\ IsRead(pending, m, r, s)
<1>1. PICK k, m, q : k = handled + 1 /\ m = sent[k] /\ q = queued[k]
  OBVIOUS
<1>2. Len(queued) <= Len(written) /\ Len(queued) \in Nat /\ Len(written) \in Nat
      /\ \A i \in 1..Len(queued) : queued[i] = written[i]
  BY DEF IInv, Genuine, IsPrefixOf, TypeOK
<1>3. k \in 1..Len(queued) /\ k \in 1..Len(sent)
  BY <1>1, <1>2 DEF Written, Counted
<1>4. m \in Messages /\ q = Envelope(m)
  BY <1>1, <1>2, <1>3 DEF Written
<1>5. /\ IsMessage(m) /\ q \in Seq(Byte) /\ WordAt(q, 0) = Len(Body(m)) /\ Stored(q, 1, Body(m))
  BY <1>4, EnvelopeIs
<1>6. Words(Body(m)) \in Nat
  BY <1>5, BodyIs, WholeIs
<1>7. PICK e, r : e = 1 + Words(Body(m)) /\ r = Reader(q)
  OBVIOUS
<1>8. r = [mem |-> q, ptr |-> 1, end |-> e, ok |-> TRUE, got |-> <<>>, told |-> <<>>, pending |-> pending,
           inEnd |-> TRUE]
  BY <1>5, <1>7 DEF Reader, Words
<1>9. /\ DOMAIN r = {"mem", "ptr", "end", "ok", "got", "told", "pending", "inEnd"}
      /\ r.mem = q /\ r.ptr = 1 /\ r.end = e /\ r.got = <<>> /\ r.told = <<>> /\ r.pending = pending
  BY <1>8
<1>10. r.ok = TRUE
  BY <1>8
<1>11. r.inEnd = TRUE
  BY <1>8
<1>12. IsReader(r)
  <2>1. <<>> \in Seq(Value) /\ <<>> \in Seq(Telling)
    OBVIOUS
  <2>2. e \in Nat
    BY <1>6, <1>7
  <2>3. r.pending \subseteq DOMAIN Queries
    BY <1>9 DEF Counted
  <2>4. r.ok \in BOOLEAN
    BY <1>10
  <2>5. r.inEnd \in BOOLEAN
    BY <1>11
  <2>6. r.mem \in Seq(Byte) /\ r.ptr \in Nat /\ r.end \in Nat
    BY <1>5, <1>9, <2>2
  <2>7. r.got \in Seq(Value) /\ r.told \in Seq(Telling)
    BY <1>9, <2>1
  <2> QED
    BY <1>9, <2>3, <2>4, <2>5, <2>6, <2>7 DEF IsReader
<1>13. PICK s : s = RpcMessage(r)
  OBVIOUS
<1>14. Handled(r, s)
  BY <1>12, <1>13, AnyMessage
<1>15. Stored(r.mem, r.ptr, Body(m)) /\ r.ptr + Words(Body(m)) = r.end
  BY <1>5, <1>7, <1>9
<1>16. IsRead(pending, m, r, s)
  <2>1. CASE Len(m) = 1
    BY <1>5, <1>9, <1>10, <1>12, <1>13, <1>15, <2>1, TheSingle
  <2>2. CASE Len(m) # 1
    BY <1>5, <1>9, <1>10, <1>12, <1>13, <1>15, <2>2, TheContainer
  <2> QED
    BY <2>1, <2>2
<1> QED
  BY <1>1, <1>3, <1>4, <1>7, <1>9, <1>11, <1>13, <1>14, <1>16

---------------------------------------------------------------------------
(* What each step does to it. *)

\* The connection itself writes nothing, and queues only.
LEMMA StepsKeep ==
  ASSUME IInv, Steps
  PROVE  /\ written' = written /\ Len(queued') >= Len(queued) /\ Len(queued) \in Nat
         /\ Len(queued') \in Nat
<1>0. queued \in Seq(Seq(Byte)) /\ Len(queued) \in Nat /\ connects \in Nat
  BY DEF IInv, TypeOK
<1>1. CASE ConnectToServer
  <2>1. connects = 0
    BY <1>0, <1>1, PacketsAssumption DEF ConnectToServer
  <2>2. queued = <<>> /\ written = <<>>
    BY <2>1 DEF IInv, Unused
  <2> QED
    BY <1>0, <1>1, <2>2 DEF ConnectToServer
<1>2. CASE OnConnected
  BY <1>0, <1>2 DEF OnConnected
<1>3. CASE ConnectionLost
  BY <1>0, <1>3 DEF ConnectionLost
<1>4. CASE OnReadyRead
  BY <1>0, <1>4 DEF OnReadyRead
<1>5. CASE ReadOnce
  <2>1. PICK q : q = buffer \o Take(Drop(available, HeaderSize), LengthRead - Len(buffer))
    OBVIOUS
  <2>2. written' = written /\ (queued' = Append(queued, q) \/ queued' = queued)
    BY <1>5, <2>1 DEF ReadOnce
  <2>3. Len(Append(queued, q)) = Len(queued) + 1
    BY <1>0
  <2> QED
    BY <1>0, <2>2, <2>3
<1>6. CASE EndOfReading
  BY <1>0, <1>6 DEF EndOfReading
<1>7. ASSUME NEW n \in 1..LargestPiece, Arrive(n)
      PROVE  written' = written /\ queued' = queued
  BY <1>7 DEF Arrive
<1> QED
  BY <1>0, <1>1, <1>2, <1>3, <1>4, <1>5, <1>6, <1>7 DEF Steps

\* It holds at the start.
LEMMA PacketsStarts ==
  ASSUME PacketsInit
  PROVE  PacketsIInv
<1>1. IInv
  BY Starts DEF PacketsInit
<1>2. /\ sent = <<>> /\ handled = 0 /\ pending = DOMAIN Queries /\ executed = <<>> /\ outcomes = <<>>
      /\ astray = FALSE /\ queued = <<>> /\ written = <<>>
  BY DEF PacketsInit, Init
<1>3. Written
  BY <1>2 DEF Written
<1>4. Counted
  <2>1. <<>> \in Seq(Seq(Telling))
    OBVIOUS
  <2>2. <<>> \in Seq({"ended", "displaced", "discarded"})
    OBVIOUS
  <2>3. astray \in BOOLEAN /\ ~astray
    BY <1>2
  <2>4. Len(<<>>) = 0 /\ 0 \in Nat /\ 0 <= Len(queued)
    BY <1>2
  <2>5. pending \subseteq DOMAIN Queries
    BY <1>2
  <2>6. handled \in Nat /\ handled <= Len(queued) /\ Len(executed) = handled /\ Len(outcomes) = handled
    BY <1>2, <2>4
  <2>7. executed \in Seq(Seq(Telling)) /\ outcomes \in Seq({"ended", "displaced", "discarded"})
    BY <1>2, <2>1, <2>2
  <2> QED
    BY <2>3, <2>5, <2>6, <2>7 DEF Counted
<1>5. Waiting
  <2>1. (0 + 1) - 1 = 0 /\ \A j : j \notin 1..0
    OBVIOUS
  <2> QED
    BY <1>2, <2>1 DEF Waiting, UnansweredIn
<1>6. Truths
  BY <1>2 DEF Truths
<1>7. ReadToTheEnd
  BY <1>2 DEF ReadToTheEnd
<1> QED
  BY <1>1, <1>3, <1>4, <1>5, <1>6, <1>7 DEF PacketsIInv

\* It survives a step of the connection.
LEMMA ConnectionStep ==
  ASSUME PacketsIInv, Steps, UNCHANGED packetVars
  PROVE  Written' /\ Counted' /\ Waiting' /\ Truths' /\ ReadToTheEnd'
<1>1. /\ sent' = sent /\ handled' = handled /\ pending' = pending /\ executed' = executed
      /\ outcomes' = outcomes
  BY DEF packetVars
<1>2. astray' = astray
  BY DEF packetVars
<1>3. written' = written /\ Len(queued') >= Len(queued) /\ Len(queued) \in Nat /\ Len(queued') \in Nat
  BY StepsKeep DEF PacketsIInv
<1>4. Written'
  BY <1>1, <1>3 DEF Written, PacketsIInv
<1>5. Counted'
  <2>1. handled \in Nat /\ handled <= Len(queued)
    BY DEF PacketsIInv, Counted
  <2>2. handled' <= Len(queued')
    BY <1>1, <1>3, <2>1
  <2> QED
    BY <1>1, <1>2, <2>2 DEF Counted, PacketsIInv
<1>6. Waiting'
  BY <1>1, <1>2 DEF Waiting, UnansweredIn, PacketsIInv
<1>7. Truths'
  BY <1>1 DEF Truths, PacketsIInv
<1>8. ReadToTheEnd'
  BY <1>1, <1>2 DEF ReadToTheEnd, PacketsIInv
<1> QED
  BY <1>4, <1>5, <1>6, <1>7, <1>8

\* It survives a message of the server.
LEMMA MessageSent ==
  ASSUME PacketsIInv, NEW m \in Messages, ServerWritesMessage(m)
  PROVE  Written' /\ Counted' /\ Waiting' /\ Truths' /\ ReadToTheEnd'
<1>1. /\ handled' = handled /\ pending' = pending /\ executed' = executed /\ outcomes' = outcomes
      /\ queued' = queued /\ sent' = Append(sent, m) /\ written' = Append(written, Envelope(m))
  BY DEF ServerWritesMessage, ServerWrites
<1>2. astray' = astray
  BY DEF ServerWritesMessage
<1>3. /\ sent \in Seq(Messages) /\ Len(sent) = Len(written) /\ \A i \in 1..Len(sent) : written[i] = Envelope(sent[i])
      /\ written \in Seq(Seq(Byte)) /\ Len(queued) <= Len(written) /\ Len(queued) \in Nat
  BY DEF PacketsIInv, Written, IInv, TypeOK, Genuine, IsPrefixOf
<1>4. PICK n, e : n = Len(sent) /\ e = Envelope(m)
  OBVIOUS
<1>5. n \in Nat /\ e \in Seq(Byte)
  BY <1>3, <1>4, EnvelopeIs
<1>6. /\ sent' \in Seq(Messages) /\ Len(sent') = n + 1 /\ sent'[n + 1] = m /\ \A i \in 1..n : sent'[i] = sent[i]
  BY <1>1, <1>3, <1>4, <1>5
<1>7. Len(written') = n + 1 /\ written'[n + 1] = e /\ \A i \in 1..n : written'[i] = written[i]
  BY <1>1, <1>3, <1>4, <1>5
<1>8. Written'
  <2>1. \A i \in 1..(n + 1) : written'[i] = Envelope(sent'[i])
    <3> TAKE i \in 1..(n + 1)
    <3>1. CASE i = n + 1
      BY <1>4, <1>6, <1>7, <3>1
    <3>2. CASE i # n + 1
      <4>1. i \in 1..n
        BY <1>5, <3>2
      <4> QED
        BY <1>3, <1>4, <1>6, <1>7, <4>1
    <3> QED
      BY <3>1, <3>2
  <2> QED
    BY <1>6, <1>7, <2>1 DEF Written
<1>9. Counted'
  BY <1>1, <1>2 DEF Counted, PacketsIInv
<1>10. Waiting'
  BY <1>1, <1>2 DEF Waiting, UnansweredIn, PacketsIInv
<1>11. handled \in Nat /\ handled <= n
  BY <1>3, <1>4, <1>5 DEF PacketsIInv, Counted
<1>12. \A k \in 1..handled : sent'[k] = sent[k]
  <2> TAKE k \in 1..handled
  <2>1. k \in 1..n
    BY <1>5, <1>11
  <2> QED
    BY <1>6, <2>1
<1>13. Truths'
  BY <1>1, <1>12 DEF Truths, PacketsIInv
<1>14. ReadToTheEnd'
  <2>1. ASSUME NEW k \in 1..handled', outcomes'[k] = "displaced" PROVE Misreads(sent'[k])
    BY <1>1, <1>12, <2>1 DEF ReadToTheEnd, PacketsIInv
  <2>2. ASSUME astray' PROVE Misreads(sent'[handled'])
    <3>1. astray /\ Misreads(sent[handled])
      BY <1>2, <2>2 DEF ReadToTheEnd, PacketsIInv
    <3>2. handled # 0
      BY <3>1 DEF PacketsIInv, Counted
    <3>3. handled \in 1..handled
      BY <1>11, <3>2
    <3>4. sent'[handled] = sent[handled]
      BY <1>12, <3>3
    <3> QED
      BY <1>1, <3>1, <3>4
  <2> QED
    BY <2>1, <2>2 DEF ReadToTheEnd
<1> QED
  BY <1>8, <1>9, <1>10, <1>13, <1>14

\* A message was discarded: the program is told nothing of it.
LEMMA MessageDiscarded ==
  ASSUME PacketsIInv, DiscardRpcMessage
  PROVE  Written' /\ Counted' /\ Waiting' /\ Truths' /\ ReadToTheEnd'
<1>1. /\ sent' = sent /\ written' = written /\ queued' = queued /\ pending' = pending
      /\ executed' = Append(executed, <<>>) /\ outcomes' = Append(outcomes, "discarded")
      /\ handled' = handled + 1 /\ handled < Len(queued)
  BY DEF DiscardRpcMessage, vars
<1>2. astray' = astray /\ ~astray
  BY DEF DiscardRpcMessage
<1>3. PICK n, more, o : n = handled /\ more = executed' /\ o = outcomes'
  OBVIOUS
<1>4. /\ n \in Nat /\ n < Len(queued) /\ executed \in Seq(Seq(Telling)) /\ Len(executed) = n
      /\ outcomes \in Seq({"ended", "displaced", "discarded"}) /\ Len(outcomes) = n
      /\ pending \subseteq DOMAIN Queries
  BY <1>1, <1>3 DEF PacketsIInv, Counted
<1>5. <<>> \in Seq(Telling) /\ "discarded" \in {"ended", "displaced", "discarded"}
  OBVIOUS
<1>6. /\ more \in Seq(Seq(Telling)) /\ Len(more) = n + 1 /\ more[n + 1] = <<>>
      /\ \A k \in 1..(n + 1) : UnansweredIn(more, k) = UnansweredIn(executed, k)
      /\ \A m, outcome : \A k \in 1..n : TrulyAt(executed, m, outcome, k) => TrulyAt(more, m, outcome, k)
  BY <1>1, <1>3, <1>4, <1>5, Executed
<1>7. /\ o \in Seq({"ended", "displaced", "discarded"}) /\ Len(o) = n + 1 /\ o[n + 1] = "discarded"
      /\ \A k \in 1..n : o[k] = outcomes[k]
  BY <1>1, <1>3, <1>4, <1>5
<1>8. Written'
  BY <1>1 DEF Written, PacketsIInv
<1>9. Counted'
  <2>1. Len(queued) \in Nat
    BY DEF PacketsIInv, IInv, TypeOK
  <2>2. handled' = n + 1 /\ n + 1 \in Nat /\ n + 1 <= Len(queued) /\ queued' = queued /\ pending' = pending
    BY <1>1, <1>3, <1>4, <2>1
  <2>3. astray' \in BOOLEAN /\ ~astray'
    <3>1. astray \in BOOLEAN
      BY DEF PacketsIInv, Counted
    <3> QED
      BY <1>2, <3>1
  <2> QED
    BY <1>3, <1>4, <1>6, <1>7, <2>2, <2>3 DEF Counted
<1>10. Waiting'
  <2>1. \A id : id \in UnansweredIn(more, n + 2) <=> id \in UnansweredIn(executed, n + 1)
    <3>1. n + 1 \in 1..(n + 1) /\ (n + 1) - 1 = n /\ (n + 2) - 1 = n + 1
      BY <1>4
    <3>2. UnansweredIn(more, n + 1) = UnansweredIn(executed, n + 1)
      BY <1>6, <3>1
    <3>3. \A j \in 1..(n + 1) : j \in 1..n \/ j = n + 1
      BY <1>4
    <3>4. \A j \in 1..n : j \in 1..(n + 1)
      BY <1>4
    <3>5. DOMAIN more[n + 1] = {}
      BY <1>6
    <3>6. ASSUME NEW id PROVE id \in UnansweredIn(more, n + 2) <=> id \in UnansweredIn(more, n + 1)
      BY <3>1, <3>3, <3>4, <3>5 DEF UnansweredIn
    <3> QED
      BY <3>2, <3>6
  <2>2. \A id : id \in pending <=> id \in UnansweredIn(executed, n + 1)
    BY <1>2, <1>3 DEF PacketsIInv, Waiting
  <2>3. handled' + 1 = n + 2 /\ executed' = more /\ pending' = pending
    BY <1>1, <1>3, <1>4
  <2> QED
    BY <2>1, <2>2, <2>3 DEF Waiting
<1>11. Truths'
  <2>1. ASSUME NEW k \in 1..(n + 1) PROVE TrulyAt(more, sent[k], o[k], k)
    <3>1. CASE k = n + 1
      <4>1. o[k] = "discarded"
        BY <1>7, <3>1
      <4> QED
        BY <4>1 DEF TrulyAt
    <3>2. CASE k # n + 1
      <4>1. k \in 1..n
        BY <1>4, <3>2
      <4>2. TrulyAt(executed, sent[k], outcomes[k], k)
        BY <1>3, <4>1 DEF PacketsIInv, Truths
      <4>3. o[k] = outcomes[k]
        BY <1>7, <4>1
      <4> QED
        BY <1>6, <4>1, <4>2, <4>3
    <3> QED
      BY <3>1, <3>2
  <2> QED
    BY <1>1, <1>3, <2>1 DEF Truths
<1>12. ReadToTheEnd'
  <2>1. ASSUME NEW k \in 1..(n + 1), o[k] = "displaced" PROVE Misreads(sent[k])
    <3>1. k # n + 1
      BY <1>7, <2>1
    <3>2. k \in 1..n
      BY <1>4, <2>1, <3>1
    <3> QED
      BY <1>3, <1>7, <2>1, <3>2 DEF PacketsIInv, ReadToTheEnd
  <2>2. ~astray'
    BY <1>2
  <2> QED
    BY <1>1, <1>3, <2>1, <2>2 DEF ReadToTheEnd
<1> QED
  BY <1>8, <1>9, <1>10, <1>11, <1>12

\* What is due is a sequence.
LEMMA DueSequence ==
  ASSUME NEW m, IsMessage(m), NEW asked
  PROVE  Len(Due(asked, m)) \in Nat /\ DOMAIN Due(asked, m) = 1..Len(Due(asked, m))
<1>1. Len(m) \in Nat
  BY MessageIs
<1>2. PICK due : DueOf(asked, m, due) /\ Due(asked, m) = due[Len(m)]
  BY <1>1, DueIs
<1>3. Len(m) \in 0..Len(m)
  BY <1>1
<1>4. PICK d, D : d = due[Len(m)] /\ D = {m[i] : i \in 1..Len(m)}
  OBVIOUS
<1>5. d \in Seq(D)
  BY <1>1, <1>2, <1>3, <1>4, DueTypes
<1> QED
  BY <1>2, <1>4, <1>5

\* A message of which every item is read as it was sent.
LEMMA MisreadsIs ==
  ASSUME NEW m, IsMessage(m), ~Misreads(m)
  PROVE  AllTrue(m, Len(m))
<1>1. DOMAIN m = 1..Len(m)
  BY MessageIs
<1> QED
  BY <1>1 DEF Misreads, AllTrue

\* What one call of processRpcMessage makes of the message of the server.
LEMMA MessageProcessed ==
  ASSUME PacketsIInv, ProcessRpcMessage
  PROVE  Written' /\ Counted' /\ Waiting' /\ Truths' /\ ReadToTheEnd'
<1>1. PICK n, m, r, s : n = handled /\ m = sent[n + 1] /\ r = Reader(queued[n + 1]) /\ s = RpcMessage(r)
  OBVIOUS
<1>2. PICK how : how = IF s.inEnd /\ s.ptr = r.end THEN "ended" ELSE "displaced"
  OBVIOUS
<1>3. /\ sent' = sent /\ written' = written /\ queued' = queued /\ pending' = s.pending
      /\ executed' = Append(executed, s.told) /\ outcomes' = Append(outcomes, how)
      /\ handled' = n + 1 /\ n < Len(queued)
  BY <1>1, <1>2 DEF ProcessRpcMessage, vars
<1>4. ~astray /\ (s.ok => ~astray') /\ (~s.ok => astray') /\ astray' \in BOOLEAN
  <2>1. astray' = ~s.ok
    BY <1>1 DEF ProcessRpcMessage
  <2> QED
    BY <2>1 DEF ProcessRpcMessage
<1>5. /\ m \in Messages /\ n + 1 \in 1..Len(sent) /\ r.told = <<>> /\ r.pending = pending
      /\ Handled(r, s) /\ IsRead(pending, m, r, s)
  BY <1>1, <1>3, Reading DEF PacketsIInv
<1>6. r.inEnd = TRUE
  BY <1>1, <1>3, Reading DEF PacketsIInv
<1>7. PICK more, o, t : more = executed' /\ o = outcomes' /\ t = s.told
  OBVIOUS
<1>8. /\ n \in Nat /\ executed \in Seq(Seq(Telling)) /\ Len(executed) = n
      /\ outcomes \in Seq({"ended", "displaced", "discarded"}) /\ Len(outcomes) = n
  BY <1>1 DEF PacketsIInv, Counted
<1>9. t \in Seq(Telling) /\ s.pending \subseteq DOMAIN Queries
  BY <1>5, <1>7 DEF Handled, IsReader
<1>10. /\ more \in Seq(Seq(Telling)) /\ Len(more) = n + 1 /\ more[n + 1] = t
       /\ \A k \in 1..(n + 1) : UnansweredIn(more, k) = UnansweredIn(executed, k)
       /\ \A w, outcome : \A k \in 1..n : TrulyAt(executed, w, outcome, k) => TrulyAt(more, w, outcome, k)
  BY <1>3, <1>7, <1>8, <1>9, Executed
<1>11. how \in {"ended", "displaced", "discarded"} /\ how # "discarded"
  BY <1>2
<1>12. /\ o \in Seq({"ended", "displaced", "discarded"}) /\ Len(o) = n + 1 /\ o[n + 1] = how
       /\ \A k \in 1..n : o[k] = outcomes[k]
  BY <1>3, <1>7, <1>8, <1>11
<1>13. PICK asked : asked = UnansweredIn(more, n + 1)
  OBVIOUS
<1>14. n + 1 \in 1..(n + 1) /\ (n + 1) - 1 = n /\ (n + 2) - 1 = n + 1 /\ handled' + 1 = n + 2
  BY <1>3, <1>8
<1>15. asked = pending
  <2>1. asked = UnansweredIn(executed, n + 1)
    BY <1>10, <1>13, <1>14
  <2>2. \A id : id \in pending <=> id \in UnansweredIn(executed, n + 1)
    BY <1>1, <1>4 DEF PacketsIInv, Waiting
  <2> QED
    BY <2>1, <2>2
<1>16. IsMessage(m)
  BY <1>5, PacketsAssumption
<1>17. ASSUME ~Misreads(m)
       PROVE  s.ok /\ s.ptr = r.end /\ s.inEnd /\ Len(t) = Len(Due(asked, m))
  <2>1. AllTrue(m, Len(m))
    BY <1>16, <1>17, MisreadsIs
  <2>2. s.ok /\ s.ptr = r.end /\ s.inEnd = r.inEnd /\ Len(s.told) = Len(Due(pending, m))
    BY <1>5, <2>1 DEF IsRead
  <2>3. s.inEnd
    BY <1>6, <2>2
  <2> QED
    BY <1>7, <1>15, <2>2, <2>3
<1>18. Written'
  BY <1>3 DEF Written, PacketsIInv
<1>19. Counted'
  <2>1. Len(queued) \in Nat
    BY DEF PacketsIInv, IInv, TypeOK
  <2>2. handled' = n + 1 /\ n + 1 \in Nat /\ n + 1 # 0 /\ n + 1 <= Len(queued) /\ queued' = queued
    BY <1>3, <1>8, <2>1
  <2>3. astray' \in BOOLEAN
    BY <1>4
  <2> QED
    BY <1>3, <1>7, <1>9, <1>10, <1>12, <2>2, <2>3 DEF Counted
<1>20. Waiting'
  <2>1. SUFFICES ASSUME ~astray', NEW id
                 PROVE  id \in pending' <=> id \in UnansweredIn(executed', handled' + 1)
    BY DEF Waiting
  <2>2. s.ok
    BY <1>4, <2>1
  <2>3. id \in s.pending <=> id \in r.pending /\ \A i \in (Len(r.told) + 1)..Len(s.told) : s.told[i].id # id
    BY <1>5, <2>2 DEF Handled
  <2>4. Len(t) \in Nat /\ DOMAIN t = 1..Len(t) /\ Len(r.told) + 1 = 1
    BY <1>5, <1>9
  <2>5. id \in s.pending <=> id \in asked /\ \A i \in DOMAIN t : t[i].id # id
    BY <1>5, <1>7, <1>15, <2>3, <2>4
  <2>6. \A j \in 1..(n + 1) : j \in 1..n \/ j = n + 1
    BY <1>8
  <2>7. \A j \in 1..n : j \in 1..(n + 1)
    BY <1>8
  <2>8. id \in UnansweredIn(more, n + 2) <=> id \in asked /\ \A i \in DOMAIN t : t[i].id # id
    BY <1>10, <1>13, <1>14, <2>6, <2>7 DEF UnansweredIn
  <2> QED
    BY <1>3, <1>7, <1>14, <2>5, <2>8
<1>21. Truths'
  <2>1. ASSUME NEW k \in 1..(n + 1) PROVE TrulyAt(more, sent[k], o[k], k)
    <3>1. CASE k = n + 1
      <4>1. more[k] = t /\ sent[k] = m /\ UnansweredIn(more, k) = asked
        BY <1>1, <1>10, <1>13, <3>1
      <4>2. PICK due : due = Due(asked, m)
        OBVIOUS
      <4>3. Len(t) >= Len(due) /\ \A i \in 1..Len(due) : Tells(t[i], due[i])
        BY <1>5, <1>7, <1>15, <4>2 DEF IsRead, Covers
      <4>4. Len(due) \in Nat /\ DOMAIN due = 1..Len(due)
        BY <1>16, <4>2, DueSequence
      <4>5. Len(t) > Len(due) => Misreads(m)
        <5>1. ~Misreads(m) => Len(t) = Len(due)
          BY <1>17, <4>2
        <5>2. Len(t) = Len(due) => ~(Len(t) > Len(due))
          BY <4>4
        <5> QED
          BY <5>1, <5>2
      <4> QED
        BY <4>1, <4>2, <4>3, <4>4, <4>5 DEF TrulyAt, Truly
    <3>2. CASE k # n + 1
      <4>1. k \in 1..n
        BY <1>8, <3>2
      <4>2. TrulyAt(executed, sent[k], outcomes[k], k)
        BY <1>1, <4>1 DEF PacketsIInv, Truths
      <4>3. o[k] = outcomes[k]
        BY <1>12, <4>1
      <4> QED
        BY <1>10, <4>1, <4>2, <4>3
    <3> QED
      BY <3>1, <3>2
  <2> QED
    BY <1>3, <1>7, <2>1 DEF Truths
<1>22. ReadToTheEnd'
  <2>1. ASSUME NEW k \in 1..(n + 1), o[k] = "displaced" PROVE Misreads(sent[k])
    <3>1. CASE k = n + 1
      <4>1. how = "displaced"
        BY <1>12, <2>1, <3>1
      <4>2. ~(s.inEnd /\ s.ptr = r.end)
        BY <1>2, <4>1
      <4> QED
        BY <1>1, <1>17, <3>1, <4>2
    <3>2. CASE k # n + 1
      <4>1. k \in 1..n
        BY <1>8, <3>2
      <4> QED
        BY <1>1, <1>12, <2>1, <4>1 DEF PacketsIInv, ReadToTheEnd
    <3> QED
      BY <3>1, <3>2
  <2>2. ASSUME astray' PROVE Misreads(sent[n + 1])
    BY <1>1, <1>4, <1>17, <2>2
  <2> QED
    BY <1>3, <1>7, <2>1, <2>2 DEF ReadToTheEnd
<1> QED
  BY <1>18, <1>19, <1>20, <1>21, <1>22

---------------------------------------------------------------------------
(* The theorems. *)

\* No step leaves it.
LEMMA PacketsKeeps ==
  ASSUME WholeHeaders, PacketsIInv, [PacketsNext]_AllVars
  PROVE  PacketsIInv'
<1>1. IInv'
  <2>1. OneStream
    BY PacketsAssumption DEF OneStream
  <2>2. [Next]_vars
    BY OnConnection
  <2> QED
    BY <2>1, <2>2, Keeps DEF PacketsIInv
<1>2. Written' /\ Counted' /\ Waiting' /\ Truths' /\ ReadToTheEnd'
  <2>1. CASE Steps /\ UNCHANGED packetVars
    BY <2>1, ConnectionStep
  <2>2. ASSUME NEW m \in Messages, ServerWritesMessage(m)
        PROVE  Written' /\ Counted' /\ Waiting' /\ Truths' /\ ReadToTheEnd'
    BY <2>2, MessageSent
  <2>3. CASE ProcessRpcMessage
    BY <2>3, MessageProcessed
  <2>4. CASE DiscardRpcMessage
    BY <2>4, MessageDiscarded
  <2>5. CASE UNCHANGED AllVars
    <3>1. /\ sent' = sent /\ handled' = handled /\ pending' = pending /\ executed' = executed
          /\ outcomes' = outcomes /\ written' = written /\ queued' = queued
      BY <2>5 DEF AllVars, packetVars, vars
    <3>2. astray' = astray
      BY <2>5 DEF AllVars, packetVars
    <3>3. Written'
      BY <3>1 DEF Written, PacketsIInv
    <3>4. Counted'
      BY <3>1, <3>2 DEF Counted, PacketsIInv
    <3>5. Waiting'
      BY <3>1, <3>2 DEF Waiting, PacketsIInv
    <3>6. Truths'
      BY <3>1 DEF Truths, PacketsIInv
    <3>7. ReadToTheEnd'
      BY <3>1, <3>2 DEF ReadToTheEnd, PacketsIInv
    <3> QED
      BY <3>3, <3>4, <3>5, <3>6, <3>7
  <2> QED
    BY <2>1, <2>2, <2>3, <2>4, <2>5 DEF PacketsNext
<1> QED
  BY <1>1, <1>2 DEF PacketsIInv

\* Where headers come whole, the inductive invariant holds of every state of
\* session.cpp's handling of messages.
THEOREM PacketsInvariant == WholeHeaders => (PacketsSpec => []PacketsIInv)
<1> SUFFICES ASSUME WholeHeaders PROVE PacketsSpec => []PacketsIInv
  OBVIOUS
<1>1. PacketsInit => PacketsIInv
  BY PacketsStarts
<1>2. PacketsIInv /\ [PacketsNext]_AllVars => PacketsIInv'
  BY PacketsKeeps
<1> QED
  BY <1>1, <1>2, PTL DEF PacketsSpec, AllVars

\* Every variable has its type: there is a message for every frame, and what was
\* told and the outcome for every call of processRpcAnswer.
THEOREM PacketsTypes == WholeHeaders => (PacketsSpec => []PacketsTypeOK)
<1> SUFFICES ASSUME WholeHeaders PROVE PacketsSpec => []PacketsTypeOK
  OBVIOUS
<1>1. PacketsIInv => PacketsTypeOK
  <2> SUFFICES ASSUME PacketsIInv PROVE PacketsTypeOK
    OBVIOUS
  <2>1. Len(queued) \in Nat /\ handled \in Nat /\ handled <= Len(queued) /\ TypeOK
    BY DEF PacketsIInv, IInv, TypeOK, Counted
  <2>2. handled \in 0..Len(queued)
    BY <2>1
  <2>3. astray \in BOOLEAN
    BY DEF PacketsIInv, Counted
  <2>4. /\ Len(sent) = Len(written) /\ Len(executed) = handled /\ Len(outcomes) = handled
        /\ pending \subseteq DOMAIN Queries /\ outcomes \in Seq({"ended", "displaced", "discarded"})
    BY DEF PacketsIInv, Written, Counted
  <2> QED
    BY <2>1, <2>2, <2>3, <2>4 DEF PacketsTypeOK
<1> QED
  BY <1>1, PacketsInvariant, PTL

\* An item is left before or behind its end, and the program reads outside a
\* message or stops at an ASSERT, only where a handler misreads an item.
THEOREM AllReadToTheEnd == WholeHeaders => (PacketsSpec => []ReadToTheEnd)
<1> SUFFICES ASSUME WholeHeaders PROVE PacketsSpec => []ReadToTheEnd
  OBVIOUS
<1>1. PacketsIInv => ReadToTheEnd
  BY DEF PacketsIInv
<1> QED
  BY <1>1, PacketsInvariant, PTL

\* However the messages are packed, in containers, in archives or both, the program
\* is told the items the server sent, up to the first that is misread.
THEOREM AllExecutedTruly == WholeHeaders => (PacketsSpec => []ExecutedTruly)
<1> SUFFICES ASSUME WholeHeaders PROVE PacketsSpec => []ExecutedTruly
  OBVIOUS
<1>1. PacketsIInv => ExecutedTruly
  <2> SUFFICES ASSUME PacketsIInv, NEW k \in 1..handled, outcomes[k] # "discarded"
               PROVE  Truly(executed[k], Unanswered(k), sent[k])
    BY DEF ExecutedTruly
  <2>1. TrulyAt(executed, sent[k], outcomes[k], k)
    BY DEF PacketsIInv, Truths
  <2>2. Unanswered(k) = UnansweredIn(executed, k)
    BY DEF Unanswered, UnansweredIn
  <2> QED
    BY <2>1, <2>2 DEF TrulyAt
<1> QED
  BY <1>1, PacketsInvariant, PTL

\* The three writers of strings agree on every string that comes.
THEOREM AllWritersAgree == WholeHeaders => (PacketsSpec => []WritersAgree)
<1> SUFFICES ASSUME WholeHeaders PROVE PacketsSpec => []WritersAgree
  OBVIOUS
<1>1. PacketsIInv => WritersAgree
  <2> SUFFICES ASSUME PacketsIInv, NEW k \in DOMAIN sent, NEW i \in DOMAIN sent[k],
                      NEW j \in DOMAIN sent[k][i].values, SentTypes(sent[k][i])[j] = "string"
      PROVE  LET s == sent[k][i].values[j]
             IN AppendCString(s) = TLString(s) /\ SerializeBignum(s) = TLString(s)
    BY DEF WritersAgree
  <2>1. PICK m, item, s : m = sent[k] /\ item = m[i] /\ s = item.values[j]
    OBVIOUS
  <2>2. m \in Messages
    BY <2>1 DEF PacketsIInv, Written
  <2>3. IsMessage(m)
    BY <2>2, PacketsAssumption
  <2>4. IsItem(item)
    BY <2>1, <2>3 DEF IsMessage
  <2>5. IsValue("string", s)
    BY <2>1, <2>4 DEF IsItem
  <2>6. s \in Seq(Byte)
    BY <2>5 DEF IsValue, IsString
  <2> QED
    BY <2>1, <2>6, StringsAgree
<1> QED
  BY <1>1, PacketsInvariant, PTL

---------------------------------------------------------------------------
(* The promise of MessagePromise. *)

\* Both speak of the same items and of the same queries.
LEMMA SameItems ==
  /\ \A t, asked, m : Promise!Truly(t, asked, m) <=> Truly(t, asked, m)
  /\ \A n \in Nat : executed \in Seq(Seq(Telling)) /\ Len(executed) = n =>
       Promise!Unanswered = UnansweredIn(executed, n + 1)
<1>1. \A item : Promise!IsAnswer(item) <=> IsAnswer(item)
  BY DEF Promise!IsAnswer, IsAnswer
<1>2. \A item : Promise!Misread(item) <=> Misread(item)
  BY <1>1 DEF Promise!Misread, Misread
<1>3. \A m : Promise!Misreads(m) <=> Misreads(m)
  BY <1>2 DEF Promise!Misreads, Misreads
<1>4. \A asked, m, i : Promise!StillAsked(asked, m, i) = StillAsked(asked, m, i)
  BY <1>1 DEF Promise!StillAsked, StillAsked
<1>5. \A asked, m, i : Promise!IsDue(asked, m, i) <=> IsDue(asked, m, i)
  BY <1>1, <1>2, <1>4 DEF Promise!IsDue, IsDue, Promise!DirectOps, DirectOps
<1>6. \A asked, m : Promise!Due(asked, m) = Due(asked, m)
  BY DEF Promise!Due, Due, Promise!IsDue, IsDue, Promise!Misread, Misread, Promise!IsAnswer,
         IsAnswer, Promise!StillAsked, StillAsked, Promise!DirectOps, DirectOps
<1>7. \A t, item : Promise!Tells(t, item) <=> Tells(t, item)
  BY <1>1 DEF Promise!Tells, Tells, Promise!NoQuery, NoQuery
<1>8. \A t, asked, m : Promise!Truly(t, asked, m) <=> Truly(t, asked, m)
  BY <1>3, <1>6, <1>7 DEF Promise!Truly, Truly
<1>9. ASSUME NEW n \in Nat, executed \in Seq(Seq(Telling)), Len(executed) = n
      PROVE  Promise!Unanswered = UnansweredIn(executed, n + 1)
  <2>1. DOMAIN executed = 1..((n + 1) - 1)
    BY <1>9
  <2> QED
    BY <2>1 DEF Promise!Unanswered, UnansweredIn
<1> QED
  BY <1>8, <1>9

\* A message that is processed is told as it was sent.
LEMMA ProcessedAsSent ==
  ASSUME PacketsIInv, PacketsIInv', ProcessRpcMessage
  PROVE  Promise!Tell
<1>1. PICK n, t, o : n = handled /\ t = executed'[n + 1] /\ o = outcomes'[n + 1]
  OBVIOUS
<1>2. /\ n \in Nat /\ n < Len(queued) /\ executed \in Seq(Seq(Telling)) /\ Len(executed) = n
      /\ outcomes \in Seq({"ended", "displaced", "discarded"}) /\ Len(outcomes) = n
  BY <1>1 DEF PacketsIInv, Counted, ProcessRpcMessage
<1>3. PICK told, how : /\ executed' = Append(executed, told) /\ outcomes' = Append(outcomes, how)
                       /\ how # "discarded"
  <2>1. PICK start, read :
          /\ executed' = Append(executed, read.told)
          /\ outcomes' = Append(outcomes, IF read.inEnd /\ read.ptr = start.end THEN "ended"
                                          ELSE "displaced")
    BY DEF ProcessRpcMessage
  <2>2. PICK how : how = IF read.inEnd /\ read.ptr = start.end THEN "ended" ELSE "displaced"
    OBVIOUS
  <2>3. how # "discarded"
    BY <2>2
  <2> QED
    BY <2>1, <2>2, <2>3
<1>4. t = told /\ o = how /\ Len(executed') = n + 1 /\ n + 1 > n
  BY <1>1, <1>2, <1>3
<1>5. sent' = sent /\ handled' = n + 1 /\ Len(queued) <= Len(sent) /\ Len(queued) \in Nat
  BY <1>1 DEF ProcessRpcMessage, PacketsIInv, Written, IInv, TypeOK, Genuine, IsPrefixOf
<1>6. n < Len(sent) /\ Len(sent) \in Nat
  <2>1. Len(sent) \in Nat
    BY DEF PacketsIInv, Written
  <2> QED
    BY <1>2, <1>5, <2>1
<1>7. Truly(t, UnansweredIn(executed', n + 1), sent[n + 1])
  <2>1. n + 1 \in 1..(n + 1)
    BY <1>2
  <2>2. TrulyAt(executed', sent'[n + 1], outcomes'[n + 1], n + 1)
    BY <1>5, <2>1 DEF PacketsIInv, Truths
  <2> QED
    BY <1>1, <1>3, <1>4, <1>5, <2>2 DEF TrulyAt
<1>8. UnansweredIn(executed', n + 1) = UnansweredIn(executed, n + 1)
  <2>1. t \in Seq(Telling)
    <3>1. executed' \in Seq(Seq(Telling))
      BY DEF PacketsIInv, Counted
    <3>2. n + 1 \in 1..Len(executed')
      BY <1>2, <1>4
    <3> QED
      BY <1>1, <3>1, <3>2
  <2>2. n + 1 \in 1..(n + 1)
    BY <1>2
  <2> QED
    BY <1>2, <1>3, <1>4, <2>1, <2>2, Executed
<1>9. Promise!Taken(t)
  BY <1>2, <1>3, <1>4, <1>5, <1>6 DEF Promise!Taken
<1>10. Promise!Truly(t, Promise!Unanswered, sent[n + 1])
  <2>1. Promise!Unanswered = UnansweredIn(executed, n + 1)
    BY <1>2, SameItems
  <2> QED
    BY <1>7, <1>8, <2>1, SameItems
<1>11. Len(executed) = n /\ t = executed'[Len(executed) + 1]
  BY <1>1, <1>2
<1> QED
  BY <1>4, <1>9, <1>10, <1>11 DEF Promise!Tell

\* A step of the session is a step of the promise, or none.
LEMMA PacketsPromiseStep ==
  ASSUME PacketsIInv, PacketsIInv', [PacketsNext]_AllVars
  PROVE  [Promise!Next]_(Promise!vars)
<1>1. CASE Steps /\ UNCHANGED packetVars
  BY <1>1 DEF packetVars, Promise!vars
<1>2. ASSUME NEW m \in Messages, ServerWritesMessage(m) PROVE Promise!Next
  <2>1. Promise!Send(m)
    BY <1>2 DEF ServerWritesMessage, Promise!Send
  <2> QED
    BY <2>1 DEF Promise!Next
<1>3. CASE ProcessRpcMessage
  BY <1>3, ProcessedAsSent DEF Promise!Next
<1>4. CASE DiscardRpcMessage
  <2>1. Len(executed) \in Nat /\ Len(executed) < Len(queued) /\ Len(queued) \in Nat
    BY <1>4 DEF PacketsIInv, Counted, DiscardRpcMessage, IInv, TypeOK
  <2>2. Len(queued) <= Len(sent) /\ Len(sent) \in Nat
    BY DEF PacketsIInv, Written, IInv, TypeOK, Genuine, IsPrefixOf
  <2>3. Len(executed) < Len(sent)
    BY <2>1, <2>2
  <2>4. Promise!Discard
    BY <1>4, <2>3 DEF DiscardRpcMessage, Promise!Discard, Promise!Taken
  <2> QED
    BY <2>4 DEF Promise!Next
<1>5. CASE UNCHANGED AllVars
  BY <1>5 DEF AllVars, packetVars, Promise!vars
<1> QED
  BY <1>1, <1>2, <1>3, <1>4, <1>5 DEF PacketsNext

\* The session keeps the promise of MessagePromise: it takes the messages in the order
\* the server wrote them, each once, tells each truly or, where its date is wrong, not at
\* all, and what was told stays.
THEOREM SessionKeepsPromise == WholeHeaders => (PacketsSpec => TellsAsSent)
<1> SUFFICES ASSUME WholeHeaders PROVE PacketsSpec => TellsAsSent
  OBVIOUS
<1>1. PacketsInit => Promise!Init
  BY DEF PacketsInit, Promise!Init
<1>2. PacketsIInv /\ [PacketsNext]_AllVars => PacketsIInv'
  BY PacketsKeeps
<1>3. PacketsIInv /\ PacketsIInv' /\ [PacketsNext]_AllVars => [Promise!Next]_(Promise!vars)
  BY PacketsPromiseStep
<1> QED
  BY <1>1, <1>2, <1>3, PacketsInvariant, PTL DEF PacketsSpec, AllVars, TellsAsSent, Promise!Spec
============================================================================
