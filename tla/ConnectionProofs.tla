-------------------------- MODULE ConnectionProofs --------------------------
(***************************************************************************)
(* Proofs about Connection for any bytes, words, messages and pieces, on a *)
(* stream that is opened once and whose headers arrive whole.  InStep says *)
(* where in the stream of messages the reader, the socket's buffer and the *)
(* wire are.                                                               *)
(***************************************************************************)
EXTENDS Connection, SequenceTheorems, TLAPS

---------------------------------------------------------------------------
(* Numbers. *)

\* Division with a remainder.
LEMMA Division ==
  ASSUME NEW n \in Nat, NEW b \in Nat, b > 0
  PROVE  n \div b \in Nat /\ n % b \in 0..(b - 1) /\ n = b * (n \div b) + (n % b)
  OBVIOUS

\* There is one quotient.
LEMMA OneQuotient ==
  ASSUME NEW b \in Nat, NEW q \in Int, NEW r \in 0..(b - 1), NEW t \in Int, NEW s \in 0..(b - 1),
         b * q + r = b * t + s
  PROVE  q = t
<1>1. b * (q - t) = s - r
  OBVIOUS
<1>2. s - r < b /\ r - s < b /\ b > 0
  OBVIOUS
<1>3. CASE q - t >= 1
  <2>1. b * (q - t) >= b
    BY <1>2, <1>3
  <2> QED
    BY <1>1, <1>2, <2>1
<1>4. CASE t - q >= 1
  <2>1. b * (t - q) >= b
    BY <1>2, <1>4
  <2>2. b * (t - q) = r - s
    BY <1>1
  <2> QED
    BY <1>2, <2>1, <2>2
<1> QED
  BY <1>3, <1>4

\* A number of three digits is what its digits say.
LEMMA Digits ==
  ASSUME NEW b \in Nat, b > 0, NEW n \in Nat, n < b * b * b
  PROVE  (n % b) + b * ((n \div b) % b) + b * b * ((n \div (b * b)) % b) = n
<1>1. PICK q, y : q = n \div b /\ y = n % b
  OBVIOUS
<1>2. q \in Nat /\ y \in 0..(b - 1) /\ n = b * q + y
  BY <1>1, Division
<1>3. PICK t, x : t = q \div b /\ x = q % b
  OBVIOUS
<1>4. t \in Nat /\ x \in 0..(b - 1) /\ q = b * t + x
  BY <1>2, <1>3, Division
<1>5. PICK c, r : c = b * b /\ r = b * x + y
  OBVIOUS
<1>6. c \in Nat /\ c > 0 /\ n < c * b
  BY <1>5
<1>7. n = c * t + r
  <2>1. b * (b * t + x) = b * b * t + b * x
    BY <1>4
  <2> QED
    BY <1>2, <1>4, <1>5, <2>1
<1>8. r \in 0..(c - 1)
  <2>1. b * x <= b * (b - 1) /\ b * x >= 0
    BY <1>4
  <2>2. b * (b - 1) = b * b - b
    OBVIOUS
  <2> QED
    BY <1>2, <1>4, <1>5, <2>1, <2>2
<1>9. n \div c = t
  <2>1. PICK u, s : u = n \div c /\ s = n % c
    OBVIOUS
  <2>2. u \in Nat /\ s \in 0..(c - 1) /\ n = c * u + s
    BY <1>6, <2>1, Division
  <2>3. u = t
    BY <1>4, <1>6, <1>7, <1>8, <2>2, OneQuotient
  <2> QED
    BY <2>1, <2>3
<1>10. t < b
  <2>1. c * t <= n /\ c * t \in Int /\ c * b \in Int
    BY <1>4, <1>6, <1>7, <1>8
  <2>2. c * t < c * b
    BY <1>6, <2>1
  <2>3. CASE t >= b
    <3>1. c * t >= c * b
      BY <1>4, <1>6, <2>3
    <3> QED
      BY <2>1, <2>2, <3>1
  <2> QED
    BY <1>4, <2>3
<1>11. t % b = t
  BY <1>4, <1>10
<1>12. y + b * x + c * t = n
  BY <1>2, <1>4, <1>5, <1>6, <1>7
<1> QED
  BY <1>1, <1>3, <1>5, <1>9, <1>11, <1>12

\* Places counted from c further on.
LEMMA Further ==
  ASSUME NEW q \in Int, NEW c \in Int, NEW x \in Int, NEW y \in Int
  PROVE  (q - c) + x = (q + x) - c /\ q + x + y = (q + x + c) + (y - c)
         /\ (q + x <= y => (q - c) + x <= y - c)
  OBVIOUS

\* Two more pieces for one more message.
LEMMA TwoMore ==
  ASSUME NEW k \in Int, NEW m \in Int, NEW i \in Int
  PROVE  (k + 2) - 2 * ((m + 1) - i) - 1 = k - 2 * (m - i) - 1
  OBVIOUS

---------------------------------------------------------------------------
(* Sequences. *)

\* What Take and Drop return, and what \o does.
Taken(S, bytes, m, t) == t \in Seq(S) /\ Len(t) = m /\ \A j \in 1..m : t[j] = bytes[j]
Dropped(S, bytes, len, m, d) ==
  d \in Seq(S) /\ Len(d) = len - m /\ \A j \in 1..(len - m) : d[j] = bytes[m + j]
\* Cutting a sequence in two.
LEMMA Cut ==
  ASSUME NEW S, NEW bytes \in Seq(S), NEW n \in Nat, NEW len, len = Len(bytes),
         NEW m, m = Least(n, len)
  PROVE  /\ m \in 0..len /\ m <= n
         /\ Taken(S, bytes, m, Take(bytes, n)) /\ Dropped(S, bytes, len, m, Drop(bytes, n))
<1>1. len \in Nat
  OBVIOUS
<1>3. m \in 0..len /\ m <= n
  BY <1>1 DEF Least
<1>4. \A j \in 1..len : bytes[j] \in S
  BY <1>1
<1>5. /\ SubSeq(bytes, 1, m) \in Seq(S) /\ Len(SubSeq(bytes, 1, m)) = m
      /\ \A j \in 1..m : SubSeq(bytes, 1, m)[j] = bytes[j]
  <2>1. \A j \in 1..m : bytes[j] \in S
    BY <1>3, <1>4
  <2>2. Len(SubSeq(bytes, 1, m)) = IF 1 <= m THEN m - 1 + 1 ELSE 0
    BY <1>3, <2>1, SubSeqProperties
  <2>3. SubSeq(bytes, 1, m) \in Seq(S) /\ \A j \in 1..(m - 1 + 1) : SubSeq(bytes, 1, m)[j] = bytes[1 + j - 1]
    BY <1>3, <2>1, SubSeqProperties
  <2> QED
    BY <1>3, <2>2, <2>3
<1>6. /\ SubSeq(bytes, m + 1, len) \in Seq(S) /\ Len(SubSeq(bytes, m + 1, len)) = len - m
      /\ \A j \in 1..(len - m) : SubSeq(bytes, m + 1, len)[j] = bytes[m + j]
  <2>1. \A j \in (m + 1)..len : bytes[j] \in S
    BY <1>3, <1>4
  <2>2. Len(SubSeq(bytes, m + 1, len)) = IF m + 1 <= len THEN len - (m + 1) + 1 ELSE 0
    BY <1>3, <2>1, SubSeqProperties
  <2>3. SubSeq(bytes, m + 1, len) \in Seq(S)
        /\ \A j \in 1..(len - (m + 1) + 1) : SubSeq(bytes, m + 1, len)[j] = bytes[(m + 1) + j - 1]
    BY <1>3, <2>1, SubSeqProperties
  <2> QED
    BY <1>3, <2>2, <2>3
<1>7. Take(bytes, n) = SubSeq(bytes, 1, m) /\ Drop(bytes, n) = SubSeq(bytes, m + 1, len)
  BY DEF Take, Drop
<1> QED
  BY <1>3, <1>5, <1>6, <1>7 DEF Taken, Dropped

\* What \o returns.
LEMMA Joined ==
  ASSUME NEW S, NEW s \in Seq(S), NEW t \in Seq(S), NEW m, m = Len(s), NEW n, n = Len(t)
  PROVE  /\ s \o t \in Seq(S) /\ Len(s \o t) = m + n
         /\ \A j \in 1..(m + n) : (s \o t)[j] = IF j <= m THEN s[j] ELSE t[j - m]
<1>1. s \o t \in Seq(S)
  BY ConcatProperties
<1>2. Len(s \o t) = m + n
  BY ConcatProperties
<1>3. \A j \in 1..(Len(s) + Len(t)) : (s \o t)[j] = IF j <= Len(s) THEN s[j] ELSE t[j - Len(s)]
  BY ConcatProperties
<1> QED
  BY <1>1, <1>2, <1>3

\* The header of a message, and what onReadyRead takes it for.
Lead(p) == Header(Len(p) \div WordSize)
Announces(h, p) ==
  \/ Len(h) = 1 /\ h[1] # Escape /\ WordSize * h[1] = Len(p)
  \/ /\ Len(h) = 4 /\ h[1] = Escape
     /\ WordSize * (h[2] + Base * h[3] + Base * Base * h[4]) = Len(p)
\* Every message has such a header.
LEMMA Leads ==
  ASSUME NEW p \in Payloads
  PROVE  /\ p \in Seq(Byte) /\ Len(p) \in Nat /\ Len(p) > 0
         /\ Lead(p) \in Seq(Byte) /\ Len(Lead(p)) \in Nat /\ Len(Lead(p)) > 0
         /\ Announces(Lead(p), p)
<1>1. /\ p \in Seq(Byte) /\ Len(p) \in Nat /\ Len(p) > 0 /\ Len(p) % WordSize = 0
      /\ WordSize \in Nat /\ WordSize > 0 /\ Base \in Nat /\ Base > 0 /\ Escape \in 1..(Base - 1)
      /\ Len(p) \div WordSize < Base * Base * Base
  BY FramingAssumption
<1>2. PICK n : n = Len(p) \div WordSize
  OBVIOUS
<1>3. n \in Nat /\ WordSize * n = Len(p) /\ n < Base * Base * Base
  BY <1>1, <1>2, Division
<1>4. Lead(p) = IF n < Escape THEN <<n>>
                ELSE <<Escape, n % Base, (n \div Base) % Base, (n \div (Base * Base)) % Base>>
  BY <1>2 DEF Lead, Header
<1>5. CASE n < Escape
  <2>1. Lead(p) = <<n>> /\ n \in Byte
    BY <1>1, <1>3, <1>4, <1>5 DEF Byte
  <2>2. Lead(p) \in Seq(Byte) /\ Len(Lead(p)) = 1 /\ Lead(p)[1] = n
    BY <2>1
  <2>3. Announces(Lead(p), p)
    BY <1>1, <1>3, <1>5, <2>2 DEF Announces
  <2> QED
    BY <1>1, <2>2, <2>3
<1>6. CASE ~(n < Escape)
  <2>1. PICK x, y, z : x = n % Base /\ y = (n \div Base) % Base /\ z = (n \div (Base * Base)) % Base
    OBVIOUS
  <2>2. Lead(p) = <<Escape, x, y, z>>
    BY <1>4, <1>6, <2>1
  <2>3. x \in Byte /\ y \in Byte
    BY <1>1, <1>3, <2>1, Division DEF Byte
  <2>4. z \in Byte
    <3>1. Base * Base \in Nat /\ Base * Base > 0
      BY <1>1
    <3>2. n \div (Base * Base) \in Nat
      BY <1>3, <3>1, Division
    <3> QED
      BY <1>1, <2>1, <3>2, Division DEF Byte
  <2>5. Escape \in Byte
    BY <1>1 DEF Byte
  <2>6. x + Base * y + Base * Base * z = n
    BY <1>1, <1>3, <2>1, Digits
  <2>7. Lead(p) \in Seq(Byte)
    BY <2>2, <2>3, <2>4, <2>5
  <2>8. Len(Lead(p)) = 4 /\ Lead(p)[1] = Escape /\ Lead(p)[2] = x /\ Lead(p)[3] = y /\ Lead(p)[4] = z
    BY <2>2
  <2>9. Announces(Lead(p), p)
    BY <1>3, <2>6, <2>8 DEF Announces
  <2> QED
    BY <1>1, <2>7, <2>8, <2>9
<1> QED
  BY <1>5, <1>6

---------------------------------------------------------------------------
(* Where in the stream everybody is. *)

Size(p) == Len(Lead(p)) + Len(p)

\* pos[i] bytes stand before message i, counted from the first unread byte.
Order(w, pos) ==
  /\ pos \in [1..(Len(w) + 1) -> Int]
  /\ \A i \in 1..Len(w) : pos[i + 1] = pos[i] + Size(w[i])
  /\ \A i \in 1..Len(w) : \A j \in (i + 1)..(Len(w) + 1) : pos[i] + Size(w[i]) <= pos[j]

\* The socket's buffer holds the bytes that stand there.
Agrees(w, pos, bytes) ==
  \A i \in 1..Len(w) :
    /\ \A j \in 1..Len(Lead(w[i])) :
         pos[i] + j \in 1..Len(bytes) => bytes[pos[i] + j] = Lead(w[i])[j]
    /\ \A j \in 1..Len(w[i]) :
         pos[i] + Len(Lead(w[i])) + j \in 1..Len(bytes) =>
           bytes[pos[i] + Len(Lead(w[i])) + j] = w[i][j]

\* k messages are handed over; op and buf are what has been read of the next one.
Reads(w, pos, k, op, buf) ==
  IF op = 0 THEN buf = <<>> /\ pos[k + 1] = 0
  ELSE /\ k < Len(w) /\ op = Len(w[k + 1]) /\ Len(buf) < op
       /\ pos[k + 1] + Len(Lead(w[k + 1])) + Len(buf) = 0
       /\ \A j \in 1..Len(buf) : buf[j] = w[k + 1][j]

\* The messages whose headers are still on the wire end it.
Ahead(w, onwire) ==
  \A i \in 1..Len(w) : \A z \in 1..Len(onwire) :
    z = Len(onwire) - 2 * (Len(w) - i) - 1 => onwire[z] = Lead(w[i]) /\ onwire[z + 1] = w[i]

\* What is on the wire begins with the header of message f, or within its body.
HeaderNext(w, pos, len, onwire, f) == Len(onwire) = 2 * (Len(w) + 1 - f) /\ len = pos[f]
BodyNext(w, pos, len, onwire, f) ==
  /\ f <= Len(w) /\ Len(onwire) = 2 * (Len(w) - f) + 1
  /\ Len(onwire[1]) \in 1..Len(w[f]) /\ len = pos[f + 1] - Len(onwire[1])
  /\ \A j \in 1..Len(onwire[1]) : onwire[1][j] = w[f][Len(w[f]) - Len(onwire[1]) + j]
Arrived(w, pos, len, onwire, f) ==
  /\ f \in 1..(Len(w) + 1)
  /\ HeaderNext(w, pos, len, onwire, f) \/ BodyNext(w, pos, len, onwire, f)
  /\ Ahead(w, onwire)

InStep ==
  \E pos, f :
    /\ Order(written, pos) /\ Agrees(written, pos, available)
    /\ Reads(written, pos, Len(queued), opLength, buffer)
    /\ Arrived(written, pos, Len(available), wire, f)

\* What has been handed over is what has been written.
Genuine == written \in Seq(Payloads) /\ IsPrefixOf(queued, written)

Unused ==
  /\ available = <<>> /\ opLength = 0 /\ buffer = <<>>
  /\ queued = <<>> /\ wire = <<>> /\ written = <<>>

IInv ==
  /\ TypeOK /\ Genuine
  /\ sock # "connected" => ~reading
  /\ connects = 0 \/ sock = "connecting" => Unused
  /\ sock # "unconnected" => connects # 0
  /\ sock = "connected" => InStep

\* The stream is opened once, and headers come whole.
OneStream == WholeHeaders /\ MaxConnects <= 1

\* A message and its place: h bytes of a header and s of its own.
Stands(w, pos, i, h, s) ==
  /\ h \in Nat /\ h > 0 /\ h = Len(Lead(w[i])) /\ s \in Nat /\ s > 0 /\ s = Len(w[i])
  /\ pos[i] \in Int /\ pos[i + 1] = pos[i] + h + s
\* Every message has its place.
LEMMA Places ==
  ASSUME NEW w \in Seq(Payloads), NEW pos, Order(w, pos), NEW i \in 1..Len(w)
  PROVE  \E h, s : Stands(w, pos, i, h, s)
<1>1. PICK p \in Payloads : p = w[i]
  OBVIOUS
<1>2. PICK h, s : h = Len(Lead(p)) /\ s = Len(p)
  OBVIOUS
<1>3. h \in Nat /\ h > 0 /\ s \in Nat /\ s > 0
  BY <1>2, Leads
<1>4. Size(p) = h + s
  BY <1>2 DEF Size
<1>5. pos[i] \in Int /\ pos[i + 1] = pos[i] + Size(w[i])
  BY DEF Order
<1>6. pos[i + 1] = pos[i] + h + s
  BY <1>1, <1>3, <1>4, <1>5
<1> QED
  BY <1>1, <1>2, <1>3, <1>5, <1>6 DEF Stands

\* The messages behind it.
LEMMA Behind ==
  ASSUME NEW w \in Seq(Payloads), NEW pos, Order(w, pos), NEW i \in 1..Len(w),
         NEW h, NEW s, Stands(w, pos, i, h, s), NEW j \in 1..(Len(w) + 1), i < j
  PROVE  pos[j] \in Int /\ pos[i] + h + s <= pos[j]
<1>1. PICK n \in Nat : n = Len(w)
  OBVIOUS
<1>2. j \in (i + 1)..(n + 1) /\ j \in 1..(n + 1)
  BY <1>1
<1>3. pos[j] \in Int /\ pos[i] + Size(w[i]) <= pos[j]
  BY <1>1, <1>2 DEF Order
<1>4. Size(w[i]) = h + s
  BY DEF Stands, Size
<1>5. pos[i] \in Int /\ h \in Nat /\ s \in Nat
  BY DEF Stands
<1>6. pos[i] + (h + s) <= pos[j]
  BY <1>3, <1>4
<1> QED
  BY <1>3, <1>5, <1>6

\* A header that has begun to arrive is there.
LEMMA HeaderThere ==
  ASSUME NEW w \in Seq(Payloads), NEW pos, NEW len \in Nat, NEW onwire, NEW f,
         NEW i \in 1..(Len(w) + 1), Order(w, pos), Arrived(w, pos, len, onwire, f),
         pos[i] = 0, len > 0
  PROVE  i <= Len(w) /\ Len(Lead(w[i])) <= len
<1>1. PICK n \in Nat : n = Len(w)
  OBVIOUS
<1>2. f \in 1..(n + 1) /\ i \in 1..(n + 1)
  BY <1>1 DEF Arrived
<1>3. CASE len = pos[f]
  <2>1. ~(f < i)
    <3> SUFFICES ASSUME f < i PROVE FALSE
      OBVIOUS
    <3>1. f \in 1..Len(w)
      BY <1>1, <1>2
    <3>2. PICK h, s : Stands(w, pos, f, h, s)
      BY <3>1, Places
    <3>3. pos[f] + h + s <= 0
      BY <3>1, <3>2, Behind
    <3> QED
      BY <1>3, <3>2, <3>3 DEF Stands
  <2>2. f # i
    BY <1>3
  <2>3. i \in 1..Len(w) /\ i < f
    BY <1>1, <1>2, <2>1, <2>2
  <2>4. PICK h, s : Stands(w, pos, i, h, s)
    BY <2>3, Places
  <2>5. f \in 1..(Len(w) + 1)
    BY <1>1, <1>2
  <2>6. pos[f] \in Int /\ 0 + h + s <= pos[f]
    BY <2>3, <2>4, <2>5, Behind
  <2>7. h = Len(Lead(w[i])) /\ h \in Nat /\ s \in Nat
    BY <2>4 DEF Stands
  <2> QED
    BY <1>3, <2>3, <2>6, <2>7
<1>4. CASE f <= Len(w) /\ Len(onwire[1]) \in 1..Len(w[f]) /\ len = pos[f + 1] - Len(onwire[1])
  <2>1. f \in 1..Len(w)
    BY <1>1, <1>2, <1>4
  <2>2. PICK h, s : Stands(w, pos, f, h, s)
    BY <2>1, Places
  <2>3. PICK r : r = Len(onwire[1])
    OBVIOUS
  <2>4. pos[f] + h <= len /\ len < pos[f] + h + s /\ pos[f] \in Int /\ h \in Nat /\ s \in Nat
    <3>1. r \in 1..s /\ len = pos[f + 1] - r
      BY <1>4, <2>2, <2>3 DEF Stands
    <3> QED
      BY <2>2, <3>1 DEF Stands
  <2>5. ~(f < i)
    <3> SUFFICES ASSUME f < i PROVE FALSE
      OBVIOUS
    <3>1. pos[f] + h + s <= 0
      BY <2>1, <2>2, Behind
    <3> QED
      BY <2>4, <3>1
  <2>6. i \in 1..Len(w)
    BY <1>1, <1>2, <2>1, <2>5
  <2>7. CASE f = i
    BY <2>2, <2>4, <2>6, <2>7 DEF Stands
  <2>8. CASE f # i
    <3>1. i < f /\ f \in 1..(Len(w) + 1)
      BY <1>1, <1>2, <2>5, <2>8
    <3>2. PICK g, t : Stands(w, pos, i, g, t)
      BY <2>6, Places
    <3>3. 0 + g + t <= pos[f]
      BY <2>6, <3>1, <3>2, Behind
    <3>4. g = Len(Lead(w[i])) /\ g \in Nat /\ t \in Nat
      BY <3>2 DEF Stands
    <3> QED
      BY <2>4, <2>6, <3>3, <3>4
  <2> QED
    BY <2>7, <2>8
<1> QED
  BY <1>3, <1>4 DEF Arrived, HeaderNext, BodyNext

---------------------------------------------------------------------------
(* onReadyRead. *)

\* What the reader knows of message i once it has looked at its header.
Knows(w, pos, i, hs, length, buf, len) ==
  /\ i \in 1..Len(w) /\ hs \in 0..len /\ length = Len(w[i])
  /\ pos[i] + Len(Lead(w[i])) + Len(buf) = hs
  /\ Len(buf) < Len(w[i]) /\ \A j \in 1..Len(buf) : buf[j] = w[i][j]

\* Bytes that announce a message are read as its length.
LEMMA Decodes ==
  ASSUME NEW p \in Payloads, available \in Seq(Byte), opLength = 0,
         Len(Lead(p)) <= Len(available), \A j \in 1..Len(Lead(p)) : available[j] = Lead(p)[j]
  PROVE  HeaderSize = Len(Lead(p)) /\ LengthRead = Len(p)
<1>1. PICK h, a, len : h = Lead(p) /\ a = available /\ len = Len(available)
  OBVIOUS
<1>2. Announces(h, p) /\ Len(h) \in Nat /\ Len(h) > 0 /\ len \in Nat /\ Len(h) <= len
  BY <1>1, Leads
<1>3. \A j \in 1..Len(h) : a[j] = h[j]
  BY <1>1
<1>4. Head(available) = a[1]
  BY <1>1, <1>2
<1>5. CASE Len(h) = 1 /\ h[1] # Escape /\ WordSize * h[1] = Len(p)
  <2>1. a[1] = h[1]
    BY <1>3, <1>5
  <2>2. Head(available) # Escape
    BY <1>4, <1>5, <2>1
  <2>3. HeaderSize = 1
    BY <2>2 DEF HeaderSize
  <2>4. LengthRead = WordSize * Head(available)
    BY <2>2 DEF LengthRead
  <2> QED
    BY <1>1, <1>4, <1>5, <2>1, <2>3, <2>4
<1>6. CASE /\ Len(h) = 4 /\ h[1] = Escape
           /\ WordSize * (h[2] + Base * h[3] + Base * Base * h[4]) = Len(p)
  <2>1. a[1] = h[1] /\ a[2] = h[2] /\ a[3] = h[3] /\ a[4] = h[4] /\ len >= 4
    BY <1>2, <1>3, <1>6
  <2>2. Head(available) = Escape
    BY <1>4, <1>6, <2>1
  <2>3. HeaderSize = 4
    BY <1>1, <1>2, <2>1, <2>2 DEF HeaderSize, Least
  <2>4. PICK bytes : bytes = SubSeq(available, 2, 4)
    OBVIOUS
  <2>5. Len(bytes) = 3 /\ bytes[1] = a[2] /\ bytes[2] = a[3] /\ bytes[3] = a[4]
    <3>1. \A j \in 2..4 : available[j] \in Byte
      BY <1>1, <2>1
    <3>2. Len(SubSeq(available, 2, 4)) = IF 2 <= 4 THEN 4 - 2 + 1 ELSE 0
      BY <3>1, SubSeqProperties
    <3>3. \A j \in 1..(4 - 2 + 1) : SubSeq(available, 2, 4)[j] = available[2 + j - 1]
      BY <3>1, SubSeqProperties
    <3> QED
      BY <1>1, <2>4, <3>2, <3>3
  <2>6. Overwritten(Escape, bytes) = bytes[1] + Base * bytes[2] + Base * Base * bytes[3]
    BY <2>5 DEF Overwritten
  <2>7. LengthRead = WordSize * Overwritten(Escape, bytes)
    BY <2>2, <2>3, <2>4 DEF LengthRead
  <2> QED
    BY <1>1, <1>6, <2>1, <2>3, <2>5, <2>6, <2>7
<1> QED
  BY <1>2, <1>5, <1>6 DEF Announces

\* Whether or not it has read a header before, the reader knows the message.
LEMMA Learns ==
  ASSUME TypeOK, Genuine, NEW pos, NEW f, available # <<>>,
         Order(written, pos), Agrees(written, pos, available),
         Reads(written, pos, Len(queued), opLength, buffer),
         Arrived(written, pos, Len(available), wire, f),
         NEW i, i = Len(queued) + 1
  PROVE  Knows(written, pos, i, HeaderSize, LengthRead, buffer, Len(available))
<1>1. /\ available \in Seq(Byte) /\ Len(available) \in Nat /\ Len(available) > 0
      /\ Len(queued) \in Nat /\ opLength \in Nat /\ buffer \in Seq(Byte) /\ Len(buffer) \in Nat
  BY DEF TypeOK
<1>2. written \in Seq(Payloads) /\ Len(queued) <= Len(written) /\ Len(written) \in Nat
  BY DEF Genuine, IsPrefixOf
<1>3. i \in 1..(Len(written) + 1)
  BY <1>1, <1>2
<1>4. CASE opLength = 0
  <2>1. buffer = <<>> /\ pos[i] = 0
    BY <1>4 DEF Reads
  <2>2. i <= Len(written) /\ Len(Lead(written[i])) <= Len(available)
    BY <1>1, <1>2, <1>3, <2>1, HeaderThere
  <2>3. i \in 1..Len(written)
    BY <1>2, <1>3, <2>2
  <2>4. PICK p \in Payloads : p = written[i]
    BY <1>2, <2>3
  <2>5. Len(Lead(p)) \in Nat /\ Len(p) \in Nat /\ Len(p) > 0
    BY Leads
  <2>6. \A j \in 1..Len(Lead(p)) : available[j] = Lead(p)[j]
    <3> SUFFICES ASSUME NEW j \in 1..Len(Lead(p)) PROVE available[j] = Lead(p)[j]
      OBVIOUS
    <3>1. pos[i] + j = j /\ j \in 1..Len(available)
      BY <1>1, <2>1, <2>2, <2>4, <2>5
    <3>2. pos[i] + j \in 1..Len(available) => available[pos[i] + j] = Lead(p)[j]
      BY <2>3, <2>4 DEF Agrees
    <3> QED
      BY <3>1, <3>2
  <2>7. HeaderSize = Len(Lead(p)) /\ LengthRead = Len(p)
    BY <1>1, <1>4, <2>2, <2>4, <2>6, Decodes
  <2>8. Len(buffer) = 0
    BY <2>1
  <2>9. HeaderSize \in 0..Len(available)
    BY <1>1, <2>2, <2>4, <2>5, <2>7
  <2>10. pos[i] + Len(Lead(p)) + Len(buffer) = HeaderSize
    BY <2>1, <2>5, <2>7, <2>8
  <2>11. Len(buffer) < Len(p) /\ \A j \in 1..Len(buffer) : buffer[j] = p[j]
    BY <2>5, <2>8
  <2> QED
    BY <2>3, <2>4, <2>7, <2>9, <2>10, <2>11 DEF Knows
<1>5. CASE opLength # 0
  <2>1. HeaderSize = 0 /\ LengthRead = opLength
    BY <1>5 DEF HeaderSize, LengthRead
  <2>2. /\ Len(queued) < Len(written) /\ opLength = Len(written[i]) /\ Len(buffer) < opLength
        /\ pos[i] + Len(Lead(written[i])) + Len(buffer) = 0
        /\ \A j \in 1..Len(buffer) : buffer[j] = written[i][j]
    BY <1>5 DEF Reads
  <2>3. i \in 1..Len(written) /\ HeaderSize \in 0..Len(available)
    BY <1>1, <1>2, <2>1, <2>2
  <2> QED
    BY <2>1, <2>2, <2>3 DEF Knows
<1> QED
  BY <1>4, <1>5

\* The places, counted from c bytes further on.
LEMMA Shifts ==
  ASSUME NEW w \in Seq(Payloads), NEW pos, NEW a \in Seq(Byte), NEW onwire, NEW f,
         Order(w, pos), Agrees(w, pos, a), Arrived(w, pos, Len(a), onwire, f),
         NEW c \in 0..Len(a), NEW b \in Seq(Byte), Len(b) = Len(a) - c,
         \A j \in 1..(Len(a) - c) : b[j] = a[c + j],
         NEW np, np = [i \in 1..(Len(w) + 1) |-> pos[i] - c]
  PROVE  Order(w, np) /\ Agrees(w, np, b) /\ Arrived(w, np, Len(b), onwire, f)
<1>1. PICK n, len : n = Len(w) /\ len = Len(a)
  OBVIOUS
<1>2. n \in Nat /\ len \in Nat /\ c \in 0..len /\ c \in Nat
  BY <1>1
<1>3. \A i \in 1..(n + 1) : pos[i] \in Int /\ np[i] = pos[i] - c
  BY <1>1 DEF Order
<1>4. \A i \in 1..n : i \in 1..(n + 1) /\ i + 1 \in 1..(n + 1)
  BY <1>2
<1>5. Order(w, np)
  <2>1. np \in [1..(n + 1) -> Int]
    BY <1>1, <1>2, <1>3
  <2>2. ASSUME NEW i \in 1..n PROVE np[i + 1] = np[i] + Size(w[i])
    <3>1. PICK h, s : Stands(w, pos, i, h, s)
      BY <1>1, Places
    <3>2. Size(w[i]) = h + s /\ pos[i + 1] = pos[i] + h + s /\ h \in Nat /\ s \in Nat
      BY <3>1 DEF Stands, Size
    <3>3. np[i] = pos[i] - c /\ np[i + 1] = pos[i + 1] - c /\ pos[i] \in Int
      BY <1>3, <1>4
    <3>4. np[i + 1] = np[i] + (h + s)
      BY <1>2, <3>2, <3>3
    <3> QED
      BY <3>2, <3>4
  <2>3. ASSUME NEW i \in 1..n, NEW j \in (i + 1)..(n + 1) PROVE np[i] + Size(w[i]) <= np[j]
    <3>1. PICK h, s : Stands(w, pos, i, h, s)
      BY <1>1, Places
    <3>2. Size(w[i]) = h + s /\ h \in Nat /\ s \in Nat
      BY <3>1 DEF Stands, Size
    <3>3. j \in 1..(Len(w) + 1) /\ i < j /\ i \in 1..Len(w)
      BY <1>1, <1>2
    <3>4. pos[j] \in Int /\ pos[i] + h + s <= pos[j]
      BY <3>1, <3>3, Behind
    <3>5. np[i] = pos[i] - c /\ np[j] = pos[j] - c /\ pos[i] \in Int
      BY <1>1, <1>3, <1>4, <3>3
    <3>7. PICK z \in Int : z = h + s
      BY <3>2
    <3>8. pos[i] + z <= pos[j] /\ c \in Int
      BY <1>2, <3>2, <3>4, <3>5, <3>7
    <3>6. np[i] + (h + s) <= np[j]
      BY <3>4, <3>5, <3>7, <3>8, Further
    <3> QED
      BY <3>2, <3>6
  <2> QED
    BY <1>1, <2>1, <2>2, <2>3 DEF Order
<1>6. Agrees(w, np, b)
  <2> SUFFICES ASSUME NEW i \in 1..n
               PROVE  /\ \A j \in 1..Len(Lead(w[i])) :
                           np[i] + j \in 1..Len(b) => b[np[i] + j] = Lead(w[i])[j]
                      /\ \A j \in 1..Len(w[i]) :
                           np[i] + Len(Lead(w[i])) + j \in 1..Len(b) =>
                             b[np[i] + Len(Lead(w[i])) + j] = w[i][j]
    BY <1>1 DEF Agrees
  <2>1. PICK h, s : Stands(w, pos, i, h, s)
    BY <1>1, Places
  <2>2. h = Len(Lead(w[i])) /\ s = Len(w[i]) /\ h \in Nat /\ s \in Nat /\ pos[i] \in Int /\ np[i] = pos[i] - c
    BY <1>3, <1>4, <2>1 DEF Stands
  <2>3. ASSUME NEW x \in Int, x - c \in 1..Len(b) PROVE x \in 1..len /\ b[x - c] = a[x]
    <3>1. x - c \in 1..(Len(a) - c)
      BY <2>3
    <3>2. b[x - c] = a[c + (x - c)]
      BY <3>1
    <3>3. c + (x - c) = x
      BY <1>2
    <3> QED
      BY <1>1, <1>2, <3>1, <3>2, <3>3
  <2>4. ASSUME NEW j \in 1..h, np[i] + j \in 1..Len(b) PROVE b[np[i] + j] = Lead(w[i])[j]
    <3>1. PICK x \in Int : x = pos[i] + j
      BY <2>2
    <3>5. j \in Int /\ c \in Int
      BY <1>2, <2>2
    <3>6. (pos[i] - c) + j = (pos[i] + j) - c
      BY <2>2, <3>5, Further
    <3>2. np[i] + j = x - c
      BY <2>2, <3>1, <3>6
    <3>3. x \in 1..len /\ b[x - c] = a[x]
      BY <2>3, <2>4, <3>2
    <3>4. a[pos[i] + j] = Lead(w[i])[j]
      BY <1>1, <2>2, <3>1, <3>3 DEF Agrees
    <3> QED
      BY <3>1, <3>2, <3>3, <3>4
  <2>5. ASSUME NEW j \in 1..s, np[i] + h + j \in 1..Len(b) PROVE b[np[i] + h + j] = w[i][j]
    <3>1. PICK x \in Int : x = pos[i] + h + j
      BY <2>2
    <3>2. np[i] + h + j = x - c
      BY <1>2, <2>2, <3>1
    <3>3. x \in 1..len /\ b[x - c] = a[x]
      BY <2>3, <2>5, <3>2
    <3>4. a[pos[i] + h + j] = w[i][j]
      BY <1>1, <2>2, <3>1, <3>3 DEF Agrees
    <3> QED
      BY <3>1, <3>2, <3>3, <3>4
  <2> QED
    BY <2>2, <2>4, <2>5
<1>7. Arrived(w, np, Len(b), onwire, f)
  <2>1. f \in 1..(n + 1) /\ np[f] = pos[f] - c
    BY <1>1, <1>3 DEF Arrived
  <2>2. len = pos[f] => Len(b) = np[f]
    BY <1>1, <2>1
  <2>3. ASSUME f <= n, Len(onwire[1]) \in 1..Len(w[f]), len = pos[f + 1] - Len(onwire[1])
        PROVE  Len(b) = np[f + 1] - Len(onwire[1])
    <3>5. f \in 1..n
      BY <1>2, <2>1, <2>3
    <3>6. PICK g : g = f + 1
      OBVIOUS
    <3>7. g \in 1..(n + 1)
      BY <1>4, <3>5, <3>6
    <3>1. pos[f + 1] \in Int /\ np[f + 1] = pos[f + 1] - c
      BY <1>3, <3>6, <3>7
    <3>2. PICK r, s : r = Len(onwire[1]) /\ s = Len(w[f])
      OBVIOUS
    <3>3. r \in 1..s /\ len = pos[f + 1] - r
      BY <2>3, <3>2
    <3>4. Len(b) = np[f + 1] - r
      BY <1>1, <1>2, <3>1, <3>3
    <3> QED
      BY <3>2, <3>4
  <2> QED
    BY <1>1, <2>1, <2>2, <2>3 DEF Arrived, HeaderNext, BodyNext
<1> QED
  BY <1>5, <1>6, <1>7

\* A pass of the loop that takes t bytes of message i.
Parted(w, i, hs, a, length, buf, whole, rest, t) ==
  /\ t \in Nat /\ hs + t \in 0..Len(a) /\ rest \in Seq(Byte)
  /\ Len(rest) = Len(a) - (hs + t)
  /\ \A j \in 1..(Len(a) - (hs + t)) : rest[j] = a[(hs + t) + j]
  /\ whole \in Seq(Byte) /\ Len(whole) = Len(buf) + t /\ Len(whole) <= length
  /\ \A j \in 1..Len(whole) : whole[j] = w[i][j]
\* What a pass of the loop takes from the buffer, and what it leaves.
LEMMA Parts ==
  ASSUME NEW w \in Seq(Payloads), NEW pos, NEW i, NEW hs, NEW length, NEW buf \in Seq(Byte),
         NEW a \in Seq(Byte), Knows(w, pos, i, hs, length, buf, Len(a)), Agrees(w, pos, a),
         pos[i] \in Int,
         NEW body, body = Drop(a, hs), NEW part, part = Take(body, length - Len(buf)),
         NEW whole, whole = buf \o part, NEW rest, rest = Drop(body, Len(part))
  PROVE  \E t : Parted(w, i, hs, a, length, buf, whole, rest, t)
<1>1. PICK len, b, l : len = Len(a) /\ b = Len(buf) /\ l = Len(w[i])
  OBVIOUS
<1>2. PICK p \in Payloads : p = w[i]
  BY DEF Knows
<1>3. PICK h : h = Len(Lead(p))
  OBVIOUS
<1>4. /\ len \in Nat /\ b \in Nat /\ l \in Nat /\ hs \in 0..len /\ hs \in Nat /\ length = l /\ b < l
      /\ h \in Nat /\ pos[i] + h + b = hs /\ i \in 1..Len(w)
  BY <1>1, <1>2, <1>3, Leads DEF Knows
<1>5. PICK u : u = len - hs
  OBVIOUS
<1>6. /\ u \in Nat /\ body \in Seq(Byte) /\ Len(body) = u /\ \A j \in 1..u : body[j] = a[hs + j]
  <2>1. hs = Least(hs, len)
    BY <1>4 DEF Least
  <2>2. Dropped(Byte, a, len, hs, body)
    BY <1>1, <1>4, <2>1, Cut
  <2>3. u \in Nat
    BY <1>4, <1>5
  <2> QED
    BY <1>5, <2>2, <2>3 DEF Dropped
<1>7. PICK n, t : n = l - b /\ t = Least(n, u)
  OBVIOUS
<1>8. n \in Nat /\ t \in 0..u /\ t <= n /\ t \in Nat
  BY <1>4, <1>6, <1>7 DEF Least
<1>9. part \in Seq(Byte) /\ Len(part) = t /\ \A j \in 1..t : part[j] = body[j]
  <2>1. part = Take(body, n)
    BY <1>1, <1>4, <1>7
  <2>2. Taken(Byte, body, t, part)
    BY <1>6, <1>7, <1>8, <2>1, Cut
  <2> QED
    BY <2>2 DEF Taken
<1>10. PICK v : v = u - t
  OBVIOUS
<1>11. rest \in Seq(Byte) /\ Len(rest) = v /\ \A j \in 1..v : rest[j] = body[t + j]
  <2>1. t = Least(t, u)
    BY <1>6, <1>8 DEF Least
  <2>2. rest = Drop(body, t)
    BY <1>9
  <2>3. Dropped(Byte, body, u, t, rest)
    BY <1>6, <1>8, <2>1, <2>2, Cut
  <2> QED
    BY <1>10, <2>3 DEF Dropped
<1>12. v = len - (hs + t) /\ v \in Nat /\ hs + t \in 0..len /\ b + t <= l
  <2>1. hs + u = len /\ b + n = l
    BY <1>4, <1>5, <1>7
  <2>2. v = len - (hs + t)
    BY <1>4, <1>5, <1>8, <1>10
  <2>3. v \in Nat
    BY <1>6, <1>8, <1>10
  <2>4. hs + t \in 0..len /\ b + t <= l
    BY <1>4, <1>6, <1>8, <2>1
  <2> QED
    BY <2>2, <2>3, <2>4
<1>13. \A j \in 1..v : rest[j] = a[(hs + t) + j]
  <2> SUFFICES ASSUME NEW j \in 1..v PROVE rest[j] = a[(hs + t) + j]
    OBVIOUS
  <2>1. PICK y : y = t + j
    OBVIOUS
  <2>2. y \in 1..u /\ hs + y = (hs + t) + j
    BY <1>4, <1>6, <1>8, <1>10, <1>12, <2>1
  <2> QED
    BY <1>6, <1>11, <2>1, <2>2
<1>14. /\ whole \in Seq(Byte) /\ Len(whole) = b + t
       /\ \A j \in 1..(b + t) : whole[j] = IF j <= b THEN buf[j] ELSE part[j - b]
  <2>1. b = Len(buf) /\ t = Len(part) /\ part \in Seq(Byte)
    BY <1>1, <1>9
  <2>2. /\ buf \o part \in Seq(Byte) /\ Len(buf \o part) = b + t
        /\ \A j \in 1..(b + t) : (buf \o part)[j] = IF j <= b THEN buf[j] ELSE part[j - b]
    BY <2>1, Joined
  <2> QED
    BY <2>2
<1>15. \A j \in 1..(b + t) : whole[j] = w[i][j]
  <2> SUFFICES ASSUME NEW j \in 1..(b + t) PROVE whole[j] = w[i][j]
    OBVIOUS
  <2>1. CASE j <= b
    <3>1. j \in 1..b
      BY <1>4, <1>8, <2>1
    <3>2. \A y \in 1..b : buf[y] = w[i][y]
      BY <1>1 DEF Knows
    <3>3. whole[j] = buf[j]
      BY <1>14, <2>1
    <3> QED
      BY <3>1, <3>2, <3>3
  <2>2. CASE ~(j <= b)
    <3>1. PICK y : y = j - b
      OBVIOUS
    <3>2. y \in 1..t /\ y \in 1..u
      BY <1>4, <1>6, <1>8, <2>2, <3>1
    <3>7. h \in Int /\ b \in Int /\ j \in Int
      BY <1>4, <1>8
    <3>8. pos[i] + h + j = (pos[i] + h + b) + (j - b)
      BY <3>7, Further
    <3>3. pos[i] + h + j = hs + y
      BY <1>4, <3>1, <3>8
    <3>4. hs + y \in 1..len /\ j \in 1..l
      BY <1>4, <1>5, <1>6, <1>8, <1>12, <2>2, <3>2
    <3>5. whole[j] = part[y] /\ part[y] = body[y] /\ body[y] = a[hs + y]
      BY <1>6, <1>9, <1>14, <2>2, <3>1, <3>2
    <3>6. pos[i] + h + j \in 1..Len(a) => a[pos[i] + h + j] = w[i][j]
      <4>1. \A x \in 1..Len(w[i]) : pos[i] + Len(Lead(w[i])) + x \in 1..Len(a) =>
                a[pos[i] + Len(Lead(w[i])) + x] = w[i][x]
        BY <1>4 DEF Agrees
      <4> QED
        BY <1>1, <1>2, <1>3, <3>4, <4>1
    <3> QED
      BY <1>1, <3>3, <3>4, <3>5, <3>6
  <2> QED
    BY <2>1, <2>2
<1>16. Parted(w, i, hs, a, length, buf, whole, rest, t)
  <2>1. \A j \in 1..Len(whole) : whole[j] = w[i][j]
    BY <1>14, <1>15
  <2>2. \A j \in 1..(Len(a) - (hs + t)) : rest[j] = a[(hs + t) + j]
    BY <1>1, <1>12, <1>13
  <2>3. Len(rest) = Len(a) - (hs + t) /\ Len(whole) = Len(buf) + t /\ Len(whole) <= length
    BY <1>1, <1>4, <1>11, <1>12, <1>14
  <2>4. hs + t \in 0..Len(a)
    BY <1>1, <1>12
  <2> QED
    BY <1>8, <1>11, <1>14, <2>1, <2>2, <2>3, <2>4 DEF Parted
<1> QED
  BY <1>16

\* Sequences with the same elements are the same.
LEMMA Same ==
  ASSUME NEW S, NEW T, NEW s \in Seq(S), NEW t \in Seq(T), Len(s) = Len(t),
         \A j \in 1..Len(s) : s[j] = t[j]
  PROVE  s = t
  OBVIOUS

\* Adding one to the end.
LEMMA Added ==
  ASSUME NEW S, NEW s \in Seq(S), NEW e \in S
  PROVE  /\ Append(s, e) \in Seq(S) /\ Len(Append(s, e)) = Len(s) + 1
         /\ \A j \in 1..Len(s) : Append(s, e)[j] = s[j]
         /\ Append(s, e)[Len(s) + 1] = e
  OBVIOUS

\* The places of a message that is read from its first byte on, or further on.
LEMMA ReadOn ==
  ASSUME NEW p \in Int, NEW h \in Int, NEW s \in Int, NEW b \in Int, NEW hs \in Int, NEW t \in Int,
         p + h + b = hs
  PROVE  /\ (p - (hs + t)) + h + (b + t) = 0
         /\ (b + t = s => (p + h + s) - (hs + t) = 0)
  OBVIOUS

\* A pass of the loop.
LEMMA ReadKeeps ==
  ASSUME TypeOK, Genuine, InStep, ReadOnce
  PROVE  InStep' /\ TypeOK' /\ Genuine'
<1>1. PICK pos, f :
        /\ Order(written, pos) /\ Agrees(written, pos, available)
        /\ Reads(written, pos, Len(queued), opLength, buffer)
        /\ Arrived(written, pos, Len(available), wire, f)
  BY DEF InStep
<1>2. /\ available # <<>> /\ available \in Seq(Byte) /\ buffer \in Seq(Byte) /\ opLength \in Nat
      /\ queued \in Seq(Seq(Byte)) /\ written \in Seq(Payloads) /\ Len(queued) \in Nat
  BY DEF ReadOnce, TypeOK, Genuine
<1>3. PICK i, hs, length : i = Len(queued) + 1 /\ hs = HeaderSize /\ length = LengthRead
  OBVIOUS
<1>4. Knows(written, pos, i, hs, length, buffer, Len(available))
  BY <1>1, <1>2, <1>3, Learns
<1>5. i \in 1..Len(written) /\ length = Len(written[i]) /\ hs \in 0..Len(available)
  BY <1>4 DEF Knows
<1>6. pos[i] \in Int
  <2>1. PICK h, s : Stands(written, pos, i, h, s)
    BY <1>1, <1>2, <1>5, Places
  <2> QED
    BY <2>1 DEF Stands
<1>7. PICK body, part, whole, rest :
        /\ body = Drop(available, hs) /\ part = Take(body, length - Len(buffer))
        /\ whole = buffer \o part /\ rest = Drop(body, Len(part))
  OBVIOUS
<1>8. PICK t : Parted(written, i, hs, available, length, buffer, whole, rest, t)
  BY <1>1, <1>2, <1>4, <1>6, <1>7, Parts
<1>9. PICK c : c = hs + t
  OBVIOUS
<1>10. /\ c \in 0..Len(available) /\ rest \in Seq(Byte) /\ Len(rest) = Len(available) - c
       /\ \A j \in 1..(Len(available) - c) : rest[j] = available[c + j]
  BY <1>8, <1>9 DEF Parted
<1>11. PICK np : np = [j \in 1..(Len(written) + 1) |-> pos[j] - c]
  OBVIOUS
<1>12. Order(written, np) /\ Agrees(written, np, rest) /\ Arrived(written, np, Len(rest), wire, f)
  BY <1>1, <1>2, <1>10, <1>11, Shifts
<1>13. /\ available' = rest /\ wire' = wire /\ written' = written /\ connects' = connects
       /\ sock' = sock /\ reading' = reading
  BY <1>3, <1>7 DEF ReadOnce
<1>14. /\ Len(whole) = length => queued' = Append(queued, whole) /\ opLength' = 0 /\ buffer' = <<>>
       /\ Len(whole) # length => queued' = queued /\ opLength' = length /\ buffer' = whole
  BY <1>3, <1>7 DEF ReadOnce
<1>15. PICK h, s : Stands(written, pos, i, h, s)
  BY <1>1, <1>2, <1>5, Places
<1>16. /\ h \in Int /\ s \in Int /\ s > 0 /\ h = Len(Lead(written[i])) /\ s = length
       /\ pos[i + 1] = pos[i] + h + s
  BY <1>5, <1>15 DEF Stands
<1>17. PICK b, m : b = Len(buffer) /\ m = Len(whole)
  OBVIOUS
<1>18. b \in Int /\ t \in Nat /\ m = b + t /\ m <= s /\ hs \in Int /\ pos[i] + h + b = hs
  BY <1>2, <1>4, <1>5, <1>8, <1>16, <1>17 DEF Parted, Knows
<1>19. /\ (pos[i] - (hs + t)) + h + (b + t) = 0
       /\ (b + t = s => (pos[i] + h + s) - (hs + t) = 0)
  BY <1>6, <1>16, <1>18, ReadOn
<1>20. i + 1 \in 1..(Len(written) + 1) /\ i \in 1..(Len(written) + 1)
  BY <1>2, <1>5
<1>21. np[i] = pos[i] - c /\ np[i + 1] = pos[i + 1] - c
  BY <1>11, <1>20
<1>22. whole \in Seq(Byte) /\ \A j \in 1..m : whole[j] = written[i][j]
  BY <1>8, <1>17 DEF Parted
<1>23. written[i] \in Payloads /\ written[i] \in Seq(Byte)
  BY <1>2, <1>5, FramingAssumption
<1>24. TypeOK'
  <2>1. queued' \in Seq(Seq(Byte)) /\ opLength' \in Nat /\ buffer' \in Seq(Byte)
    <3>1. <<>> \in Seq(Byte)
      OBVIOUS
    <3>2. CASE m = length
      <4>1. Append(queued, whole) \in Seq(Seq(Byte))
        BY <1>2, <1>22
      <4> QED
        BY <1>14, <1>17, <3>1, <3>2, <4>1
    <3>3. CASE m # length
      <4>1. length \in Nat
        BY <1>5, <1>23
      <4> QED
        BY <1>2, <1>14, <1>17, <1>22, <3>3, <4>1
    <3> QED
      BY <3>2, <3>3
  <2> QED
    BY <1>10, <1>13, <2>1 DEF TypeOK
<1>25. CASE m = length
  <2>1. whole = written[i]
    BY <1>5, <1>17, <1>22, <1>23, <1>25, Same
  <2>2. queued' = Append(queued, whole) /\ opLength' = 0 /\ buffer' = <<>>
    BY <1>14, <1>17, <1>25
  <2>3. PICK k : k = Len(queued)
    OBVIOUS
  <2>4. /\ Len(queued') = k + 1 /\ queued'[k + 1] = whole
        /\ \A j \in 1..k : queued'[j] = queued[j]
    BY <1>2, <1>22, <2>2, <2>3, Added
  <2>5. Genuine'
    <3>1. k + 1 <= Len(written) /\ k \in Nat /\ i = k + 1
      BY <1>2, <1>3, <1>5, <2>3
    <3>2. \A j \in 1..k : queued[j] = written[j]
      BY <2>3 DEF Genuine, IsPrefixOf
    <3>3. \A j \in 1..(k + 1) : queued'[j] = written[j]
      <4> SUFFICES ASSUME NEW j \in 1..(k + 1) PROVE queued'[j] = written[j]
        OBVIOUS
      <4>1. j \in 1..k \/ j = k + 1
        BY <3>1
      <4> QED
        BY <2>1, <2>4, <3>1, <3>2, <4>1
    <3> QED
      BY <1>2, <1>13, <2>4, <3>1, <3>3 DEF Genuine, IsPrefixOf
  <2>6. np[i + 1] = 0
    BY <1>9, <1>16, <1>17, <1>18, <1>19, <1>21, <1>25
  <2>7. Reads(written, np, Len(queued'), opLength', buffer')
    <3>1. Len(queued') = i
      BY <1>3, <2>3, <2>4
    <3> QED
      BY <2>2, <2>6, <3>1 DEF Reads
  <2>8. InStep'
    BY <1>12, <1>13, <2>7 DEF InStep
  <2> QED
    BY <1>24, <2>5, <2>8
<1>26. CASE m # length
  <2>1. queued' = queued /\ opLength' = length /\ buffer' = whole
    BY <1>14, <1>17, <1>26
  <2>2. Genuine'
    BY <1>13, <2>1 DEF Genuine
  <2>3. np[i] + h + m = 0
    BY <1>9, <1>18, <1>19, <1>21
  <2>4. m < length /\ length # 0
    BY <1>16, <1>18, <1>26
  <2>5. Len(queued) < Len(written)
    BY <1>2, <1>3, <1>5
  <2>6. Reads(written, np, Len(queued'), opLength', buffer')
    BY <1>3, <1>5, <1>16, <1>17, <1>22, <2>1, <2>3, <2>4, <2>5 DEF Reads
  <2>7. InStep'
    BY <1>12, <1>13, <2>6 DEF InStep
  <2> QED
    BY <1>24, <2>2, <2>7
<1> QED
  BY <1>25, <1>26

---------------------------------------------------------------------------
(* TCP and the server. *)

\* Bytes e, behind len others, are those that stand there in message f.
Continues(w, pos, f, len, e) ==
  /\ \A j \in 1..Len(Lead(w[f])) :
       (pos[f] + j) - len \in 1..Len(e) => e[(pos[f] + j) - len] = Lead(w[f])[j]
  /\ \A j \in 1..Len(w[f]) :
       (pos[f] + Len(Lead(w[f])) + j) - len \in 1..Len(e) =>
         e[(pos[f] + Len(Lead(w[f])) + j) - len] = w[f][j]

\* A place within one message is not within another.
LEMMA Within ==
  ASSUME NEW x \in Int, NEW y \in Int, NEW g \in Int, NEW t \in Int, NEW h \in Int, NEW s \in Int,
         NEW len \in Int, NEW n \in Int, NEW q \in Int,
         q > x, q <= x + g + t, q > len, q <= len + n, y <= len, len + n <= y + h + s
  PROVE  ~(x + g + t <= y) /\ ~(y + h + s <= x)
  OBVIOUS

\* Bytes of one message that arrive behind all that stands before them.
LEMMA Extends ==
  ASSUME NEW w \in Seq(Payloads), NEW pos, NEW a \in Seq(Byte), NEW e \in Seq(Byte), NEW f \in 1..Len(w),
         NEW h, NEW s, Order(w, pos), Agrees(w, pos, a), Stands(w, pos, f, h, s),
         NEW len, len = Len(a), NEW n, n = Len(e), pos[f] <= len, len + n <= pos[f] + h + s,
         Continues(w, pos, f, len, e)
  PROVE  Agrees(w, pos, a \o e)
<1>1. /\ Len(a \o e) = len + n /\ \A q \in 1..(len + n) : (a \o e)[q] = IF q <= len THEN a[q] ELSE e[q - len]
      /\ len \in Nat /\ n \in Nat
  BY Joined
<1> SUFFICES ASSUME NEW i \in 1..Len(w)
             PROVE  /\ \A j \in 1..Len(Lead(w[i])) :
                         pos[i] + j \in 1..(len + n) => (a \o e)[pos[i] + j] = Lead(w[i])[j]
                    /\ \A j \in 1..Len(w[i]) :
                         pos[i] + Len(Lead(w[i])) + j \in 1..(len + n) =>
                           (a \o e)[pos[i] + Len(Lead(w[i])) + j] = w[i][j]
  BY <1>1 DEF Agrees
<1>2. PICK g, t : Stands(w, pos, i, g, t)
  BY Places
<1>3. /\ g \in Nat /\ g = Len(Lead(w[i])) /\ t \in Nat /\ t = Len(w[i]) /\ pos[i] \in Int
      /\ h \in Nat /\ h = Len(Lead(w[f])) /\ s \in Nat /\ s = Len(w[f]) /\ pos[f] \in Int
  BY <1>2 DEF Stands
<1>4. /\ \A j \in 1..g : pos[i] + j \in 1..len => a[pos[i] + j] = Lead(w[i])[j]
      /\ \A j \in 1..t : pos[i] + g + j \in 1..len => a[pos[i] + g + j] = w[i][j]
  BY <1>3 DEF Agrees
<1>5. PICK x, y : x = pos[i] /\ y = pos[f]
  OBVIOUS
<1>6. i < f => x + g + t <= y
  <2> SUFFICES ASSUME i < f PROVE x + g + t <= y
    OBVIOUS
  <2>1. f \in 1..(Len(w) + 1)
    OBVIOUS
  <2> QED
    BY <1>2, <1>5, <2>1, Behind
<1>7. f < i => y + h + s <= x
  <2> SUFFICES ASSUME f < i PROVE y + h + s <= x
    OBVIOUS
  <2>1. i \in 1..(Len(w) + 1)
    OBVIOUS
  <2> QED
    BY <1>5, <2>1, Behind
<1>8. x \in Int /\ y \in Int /\ y <= len /\ len + n <= y + h + s
  BY <1>3, <1>5
<1>9. i \in Int /\ f \in Int
  OBVIOUS
<1>10. ASSUME NEW q \in Int, q > x, q <= x + g + t, q > len, q <= len + n PROVE i = f
  <2>1. g \in Int /\ t \in Int /\ h \in Int /\ s \in Int /\ len \in Int /\ n \in Int
    BY <1>1, <1>3
  <2>2. ~(x + g + t <= y) /\ ~(y + h + s <= x)
    BY <1>8, <1>10, <2>1, Within
  <2> QED
    BY <1>6, <1>7, <1>9, <2>2
<1>11. ASSUME NEW j \in 1..g, pos[i] + j \in 1..(len + n) PROVE (a \o e)[pos[i] + j] = Lead(w[i])[j]
  <2>1. PICK q \in Int : q = pos[i] + j
    BY <1>3
  <2>2. CASE q <= len
    BY <1>1, <1>4, <1>11, <2>1, <2>2
  <2>3. CASE ~(q <= len)
    <3>1. q > x /\ q <= x + g + t /\ q > len /\ q <= len + n
      <4>1. j \in Nat /\ j > 0 /\ j <= g /\ g \in Nat /\ t \in Nat /\ x \in Int
        BY <1>3, <1>8, <1>11
      <4>2. q = x + j
        BY <1>5, <2>1
      <4>3. q > x /\ q <= x + g + t
        BY <4>1, <4>2
      <4>4. q > len /\ q <= len + n
        BY <1>1, <1>11, <2>1, <2>3
      <4> QED
        BY <4>3, <4>4
    <3>2. i = f
      BY <1>10, <3>1
    <3>3. q - len \in 1..n
      BY <1>1, <3>1
    <3>4. e[q - len] = Lead(w[i])[j]
      BY <1>3, <2>1, <3>2, <3>3 DEF Continues
    <3> QED
      BY <1>1, <1>11, <2>1, <2>3, <3>4
  <2> QED
    BY <2>2, <2>3
<1>12. ASSUME NEW j \in 1..t, pos[i] + g + j \in 1..(len + n) PROVE (a \o e)[pos[i] + g + j] = w[i][j]
  <2>1. PICK q \in Int : q = pos[i] + g + j
    BY <1>3
  <2>2. CASE q <= len
    BY <1>1, <1>4, <1>12, <2>1, <2>2
  <2>3. CASE ~(q <= len)
    <3>1. q > x /\ q <= x + g + t /\ q > len /\ q <= len + n
      <4>1. j \in Nat /\ j > 0 /\ j <= t /\ g \in Nat /\ t \in Nat /\ x \in Int
        BY <1>3, <1>8, <1>12
      <4>2. q = x + g + j
        BY <1>5, <2>1
      <4>3. q > x /\ q <= x + g + t
        BY <4>1, <4>2
      <4>4. q > len /\ q <= len + n
        BY <1>1, <1>12, <2>1, <2>3
      <4> QED
        BY <4>3, <4>4
    <3>2. i = f
      BY <1>10, <3>1
    <3>3. q - len \in 1..n
      BY <1>1, <3>1
    <3>4. e[q - len] = w[i][j]
      BY <1>3, <2>1, <3>2, <3>3 DEF Continues
    <3> QED
      BY <1>1, <1>12, <2>1, <2>3, <3>4
  <2> QED
    BY <2>2, <2>3
<1> QED
  BY <1>3, <1>11, <1>12

\* What Tail returns.
LEMMA Tailed ==
  ASSUME NEW S, NEW s \in Seq(S), s # <<>>, NEW n, n = Len(s)
  PROVE  /\ n \in Nat /\ n > 0 /\ Head(s) = s[1] /\ s[1] \in S
         /\ Tail(s) \in Seq(S) /\ Len(Tail(s)) = n - 1 /\ \A j \in 1..(n - 1) : Tail(s)[j] = s[j + 1]
  OBVIOUS

\* Without its first piece the wire ends as before.
LEMMA TailAhead ==
  ASSUME NEW w \in Seq(Payloads), NEW x \in Seq(Seq(Byte)), x # <<>>, Ahead(w, x)
  PROVE  Ahead(w, Tail(x))
<1>1. PICK n, k : n = Len(w) /\ k = Len(x)
  OBVIOUS
<1>2. n \in Nat /\ k \in Nat /\ k > 0 /\ Len(Tail(x)) = k - 1 /\ \A j \in 1..(k - 1) : Tail(x)[j] = x[j + 1]
  BY <1>1, Tailed
<1> SUFFICES ASSUME NEW i \in 1..n, NEW z \in 1..(k - 1), z = (k - 1) - 2 * (n - i) - 1
             PROVE  Tail(x)[z] = Lead(w[i]) /\ Tail(x)[z + 1] = w[i]
  BY <1>1, <1>2 DEF Ahead
<1>3. PICK y : y = z + 1
  OBVIOUS
<1>4. y \in 1..k /\ y = k - 2 * (n - i) - 1 /\ y \in 1..(k - 1)
  BY <1>2, <1>3
<1>5. x[y] = Lead(w[i]) /\ x[y + 1] = w[i]
  BY <1>1, <1>4 DEF Ahead
<1> QED
  BY <1>2, <1>3, <1>4, <1>5

\* Nor does another first piece change how it ends.
LEMMA Recut ==
  ASSUME NEW S, NEW s \in Seq(S), s # <<>>, NEW d \in S, NEW n, n = Len(s)
  PROVE  /\ <<d>> \o Tail(s) \in Seq(S) /\ Len(<<d>> \o Tail(s)) = n /\ (<<d>> \o Tail(s))[1] = d
         /\ \A j \in 2..n : (<<d>> \o Tail(s))[j] = s[j]
<1>1. PICK t : t = Tail(s)
  OBVIOUS
<1>2. n \in Nat /\ n > 0 /\ t \in Seq(S) /\ Len(t) = n - 1 /\ \A j \in 1..(n - 1) : t[j] = s[j + 1]
  BY <1>1, Tailed
<1>3. <<d>> \in Seq(S) /\ Len(<<d>>) = 1 /\ <<d>>[1] = d
  OBVIOUS
<1>4. PICK m : m = n - 1
  OBVIOUS
<1>5. m \in Nat /\ 1 + m = n
  BY <1>2, <1>4
<1>6. /\ <<d>> \o t \in Seq(S) /\ Len(<<d>> \o t) = 1 + m
      /\ \A j \in 1..(1 + m) : (<<d>> \o t)[j] = IF j <= 1 THEN <<d>>[j] ELSE t[j - 1]
  <2>1. 1 = Len(<<d>>) /\ m = Len(t)
    BY <1>2, <1>3, <1>4
  <2> QED
    BY <1>2, <1>3, <2>1, Joined
<1>7. (<<d>> \o t)[1] = d
  <2>1. 1 \in 1..(1 + m) /\ 1 <= 1
    BY <1>5
  <2> QED
    BY <1>3, <1>6, <2>1
<1>8. \A j \in 2..n : (<<d>> \o t)[j] = s[j]
  <2> SUFFICES ASSUME NEW j \in 2..n PROVE (<<d>> \o t)[j] = s[j]
    OBVIOUS
  <2>1. PICK y : y = j - 1
    OBVIOUS
  <2>2. j \in 1..(1 + m) /\ ~(j <= 1) /\ y \in 1..(n - 1) /\ y + 1 = j
    BY <1>2, <1>5, <2>1
  <2>3. (<<d>> \o t)[j] = t[y]
    BY <1>6, <2>1, <2>2
  <2>4. t[y] = s[y + 1]
    BY <1>2, <2>2
  <2> QED
    BY <2>2, <2>3, <2>4
<1> QED
  BY <1>1, <1>5, <1>6, <1>7, <1>8

\* A header that arrives in one piece.
LEMMA HeaderArrives ==
  ASSUME NEW w \in Seq(Payloads), NEW pos, NEW a \in Seq(Byte), NEW onwire \in Seq(Seq(Byte)), NEW f,
         Order(w, pos), Agrees(w, pos, a), Arrived(w, pos, Len(a), onwire, f), onwire # <<>>,
         HeaderNext(w, pos, Len(a), onwire, f),
         NEW e \in Seq(Byte), e = Head(onwire)
  PROVE  Agrees(w, pos, a \o e) /\ Arrived(w, pos, Len(a \o e), Tail(onwire), f)
<1>1. PICK n, k, len : n = Len(w) /\ k = Len(onwire) /\ len = Len(a)
  OBVIOUS
<1>2. /\ n \in Nat /\ k \in Nat /\ k > 0 /\ len \in Nat /\ Head(onwire) = onwire[1]
      /\ Len(Tail(onwire)) = k - 1 /\ \A j \in 1..(k - 1) : Tail(onwire)[j] = onwire[j + 1]
  BY <1>1, Tailed
<1>3. f \in 1..(n + 1) /\ Ahead(w, onwire) /\ k = 2 * (n + 1 - f) /\ len = pos[f]
  BY <1>1 DEF Arrived, HeaderNext
<1>4. k = 2 * (n - f) + 2 /\ f \in 1..n
  BY <1>2, <1>3
<1>5. onwire[1] = Lead(w[f]) /\ onwire[2] = w[f]
  <2>1. 1 = k - 2 * (n - f) - 1 /\ 1 \in 1..k
    BY <1>2, <1>3, <1>4
  <2>2. onwire[1] = Lead(w[f]) /\ onwire[1 + 1] = w[f]
    BY <1>1, <1>3, <1>4, <2>1 DEF Ahead
  <2> QED
    BY <2>2
<1>6. PICK h, s : Stands(w, pos, f, h, s)
  BY <1>1, <1>4, Places
<1>7. /\ h \in Nat /\ h = Len(Lead(w[f])) /\ s \in Nat /\ s > 0 /\ s = Len(w[f]) /\ pos[f] \in Int
      /\ pos[f + 1] = pos[f] + h + s
  BY <1>6 DEF Stands
<1>8. e = Lead(w[f]) /\ Len(e) = h
  BY <1>2, <1>5, <1>7
<1>9. Continues(w, pos, f, len, e)
  <2>1. ASSUME NEW j \in 1..h PROVE (pos[f] + j) - len = j
    BY <1>2, <1>3, <1>7
  <2>2. ASSUME NEW j \in 1..s PROVE ~((pos[f] + h + j) - len \in 1..h)
    <3>2. h \in Int /\ j \in Int /\ len \in Int
      BY <1>2, <1>7
    <3>3. (len + h + j) - len = h + j
      BY <3>2
    <3>1. (pos[f] + h + j) - len = h + j
      BY <1>3, <3>3
    <3> QED
      BY <1>7, <3>1
  <2> QED
    BY <1>7, <1>8, <2>1, <2>2 DEF Continues
<1>10. Agrees(w, pos, a \o e)
  <2>1. pos[f] <= len /\ len + h <= pos[f] + h + s
    BY <1>3, <1>7
  <2> QED
    BY <1>1, <1>4, <1>6, <1>8, <1>9, <2>1, Extends
<1>11. Len(a \o e) = len + h
  BY <1>1, <1>8, Joined
<1>12. Tail(onwire)[1] = w[f]
  <2>3. k >= 2
    BY <1>2, <1>4
  <2>1. 1 \in 1..(k - 1)
    BY <1>2, <2>3
  <2>2. Tail(onwire)[1] = onwire[1 + 1]
    BY <1>2, <2>1
  <2>4. 1 + 1 = 2
    OBVIOUS
  <2> QED
    BY <1>5, <2>2, <2>4
<1>13. Len(Tail(onwire)) = 2 * (n - f) + 1
  BY <1>2, <1>3, <1>4
<1>14. len + h = pos[f + 1] - s
  BY <1>2, <1>3, <1>7
<1>15. \A j \in 1..s : w[f][j] = w[f][s - s + j]
  <2> SUFFICES ASSUME NEW j \in 1..s PROVE w[f][j] = w[f][s - s + j]
    OBVIOUS
  <2>1. s - s + j = j
    BY <1>7
  <2> QED
    BY <2>1
<1>16. Ahead(w, Tail(onwire))
  BY <1>3, TailAhead
<1>17. s \in 1..s /\ f <= n
  BY <1>4, <1>7
<1>18. /\ f <= Len(w) /\ Len(Tail(onwire)) = 2 * (Len(w) - f) + 1
       /\ Len(Tail(onwire)[1]) \in 1..Len(w[f]) /\ Len(a \o e) = pos[f + 1] - Len(Tail(onwire)[1])
       /\ \A j \in 1..Len(Tail(onwire)[1]) :
            Tail(onwire)[1][j] = w[f][Len(w[f]) - Len(Tail(onwire)[1]) + j]
  BY <1>1, <1>7, <1>11, <1>12, <1>13, <1>14, <1>15, <1>17
<1>19. f \in 1..(Len(w) + 1)
  BY <1>1, <1>3
<1> QED
  BY <1>10, <1>16, <1>18, <1>19 DEF Arrived, BodyNext

\* Where n of the last r bytes of a message of h and s bytes stand; q are left.
TheRest(p, h, s, r, n, len, q) ==
  /\ p <= len /\ len + n <= p + h + s /\ (n = r => len + n = p + h + s)
  /\ len + n = p + h + s - q /\ (n # r => q \in 1..s)
  /\ \A j \in 1..h : ~((p + j) - len \in 1..n)
  /\ \A j \in 1..s : \A y \in 1..n : y = (p + h + j) - len => y \in 1..r /\ s - r + y = j
  /\ \A j \in 1..q : n + j \in 1..r /\ s - r + (n + j) = s - q + j
\* Any n of them stand so.
LEMMA Rest ==
  ASSUME NEW p \in Int, NEW h \in Nat, NEW s \in Nat, NEW r \in 1..s, NEW n \in 1..r, NEW len \in Int,
         len = p + h + s - r, NEW q, q = r - n
  PROVE  TheRest(p, h, s, r, n, len, q)
  BY DEF TheRest

\* Some of a body.
LEMMA BodyArrives ==
  ASSUME NEW w \in Seq(Payloads), NEW pos, NEW a \in Seq(Byte), NEW onwire \in Seq(Seq(Byte)), NEW f,
         Order(w, pos), Agrees(w, pos, a), Arrived(w, pos, Len(a), onwire, f), onwire # <<>>,
         BodyNext(w, pos, Len(a), onwire, f),
         NEW x, x = onwire[1], NEW r, r = Len(x), NEW n, n \in 1..r,
         NEW e, Taken(Byte, x, n, e), NEW d, Dropped(Byte, x, r, n, d)
  PROVE  /\ Agrees(w, pos, a \o e)
         /\ n = r => Arrived(w, pos, Len(a \o e), Tail(onwire), f + 1)
         /\ n # r => Arrived(w, pos, Len(a \o e), <<d>> \o Tail(onwire), f)
<1>1. PICK m, k, len : m = Len(w) /\ k = Len(onwire) /\ len = Len(a)
  OBVIOUS
<1>2. /\ f <= m /\ k = 2 * (m - f) + 1 /\ r \in 1..Len(w[f]) /\ len = pos[f + 1] - r
      /\ \A j \in 1..r : x[j] = w[f][Len(w[f]) - r + j]
  BY <1>1 DEF BodyNext
<1>3. /\ m \in Nat /\ k \in Nat /\ k > 0 /\ len \in Nat /\ Len(Tail(onwire)) = k - 1
  BY <1>1, Tailed
<1>4. f \in 1..m /\ f \in 1..(m + 1) /\ Ahead(w, onwire)
  <2>1. f \in 1..(m + 1) /\ Ahead(w, onwire)
    BY <1>1 DEF Arrived
  <2>2. f \in 1..m
    BY <1>2, <1>3, <2>1
  <2> QED
    BY <2>1, <2>2
<1>5. PICK h, s : Stands(w, pos, f, h, s)
  BY <1>1, <1>4, Places
<1>6. /\ h \in Nat /\ h = Len(Lead(w[f])) /\ s \in Nat /\ s > 0 /\ s = Len(w[f]) /\ pos[f] \in Int
      /\ pos[f + 1] = pos[f] + h + s
  BY <1>5 DEF Stands
<1>7. PICK p, q : p = pos[f] /\ q = r - n
  OBVIOUS
<1>8. r \in 1..s /\ p \in Int /\ len = p + h + s - r /\ len \in Int
  <2>1. r \in 1..s /\ len \in Int /\ p \in Int
    BY <1>2, <1>3, <1>6, <1>7
  <2>2. PICK z : z = pos[f + 1]
    OBVIOUS
  <2>3. z = p + h + s
    BY <1>6, <1>7, <2>2
  <2>4. len = z - r
    BY <1>2, <2>2
  <2>5. h \in Int /\ s \in Int /\ r \in Int
    BY <1>6, <2>1
  <2> QED
    BY <2>1, <2>3, <2>4, <2>5
<1>9. TheRest(p, h, s, r, n, len, q)
  BY <1>6, <1>7, <1>8, Rest
<1>10. e \in Seq(Byte) /\ Len(e) = n /\ \A j \in 1..n : e[j] = x[j]
  BY DEF Taken
<1>11. \A j \in 1..r : x[j] = w[f][s - r + j]
  BY <1>2, <1>6
<1>12. Continues(w, pos, f, len, e)
  <2>1. ASSUME NEW j \in 1..s, (pos[f] + h + j) - len \in 1..n
        PROVE  e[(pos[f] + h + j) - len] = w[f][j]
    <3>1. PICK y : y = (pos[f] + h + j) - len
      OBVIOUS
    <3>2. y \in 1..n /\ y \in 1..r /\ s - r + y = j
      BY <1>7, <1>9, <2>1, <3>1 DEF TheRest
    <3>3. e[y] = x[y] /\ x[y] = w[f][s - r + y]
      BY <1>10, <1>11, <3>2
    <3> QED
      BY <3>1, <3>2, <3>3
  <2> QED
    BY <1>6, <1>7, <1>9, <1>10, <2>1 DEF Continues, TheRest
<1>13. Agrees(w, pos, a \o e)
  BY <1>1, <1>4, <1>5, <1>7, <1>9, <1>10, <1>12, Extends DEF TheRest
<1>14. Len(a \o e) = len + n
  <2>1. n = Len(e) /\ e \in Seq(Byte)
    BY <1>10
  <2> QED
    BY <1>1, <2>1, Joined
<1>15. ASSUME n = r PROVE Arrived(w, pos, Len(a \o e), Tail(onwire), f + 1)
  <2>1. Ahead(w, Tail(onwire))
    BY <1>4, TailAhead
  <2>2. PICK g : g = f + 1
    OBVIOUS
  <2>3. g \in 1..(m + 1) /\ Len(Tail(onwire)) = 2 * (m + 1 - g)
    BY <1>2, <1>3, <1>4, <2>2
  <2>4. len + n = pos[g]
    <3>1. len + n = p + h + s
      BY <1>9, <1>15 DEF TheRest
    <3> QED
      BY <1>6, <1>7, <2>2, <3>1
  <2>5. HeaderNext(w, pos, Len(a \o e), Tail(onwire), g)
    BY <1>1, <1>14, <2>3, <2>4 DEF HeaderNext
  <2>6. Arrived(w, pos, Len(a \o e), Tail(onwire), g)
    BY <1>1, <2>1, <2>3, <2>5 DEF Arrived
  <2> QED
    BY <2>2, <2>6
<1>16. ASSUME n # r PROVE Arrived(w, pos, Len(a \o e), <<d>> \o Tail(onwire), f)
  <2>1. d \in Seq(Byte) /\ Len(d) = q /\ \A j \in 1..q : d[j] = x[n + j]
    BY <1>7 DEF Dropped
  <2>2. PICK y : y = <<d>> \o Tail(onwire)
    OBVIOUS
  <2>3. Len(y) = k /\ y[1] = d /\ \A j \in 2..k : y[j] = onwire[j]
    BY <1>1, <2>1, <2>2, Recut
  <2>4. Ahead(w, y)
    <3> SUFFICES ASSUME NEW i \in 1..m, NEW z \in 1..k, z = k - 2 * (m - i) - 1
                 PROVE  y[z] = Lead(w[i]) /\ y[z + 1] = w[i]
      BY <1>1, <2>3 DEF Ahead
    <3>1. onwire[z] = Lead(w[i]) /\ onwire[z + 1] = w[i]
      BY <1>1, <1>4 DEF Ahead
    <3>2. z # 1 /\ z + 1 <= k
      BY <1>2, <1>3, <1>4
    <3>3. z \in 2..k /\ z + 1 \in 2..k
      BY <1>3, <3>2
    <3> QED
      BY <2>3, <3>1, <3>3
  <2>5. \A j \in 1..q : d[j] = w[f][s - q + j]
    <3> SUFFICES ASSUME NEW j \in 1..q PROVE d[j] = w[f][s - q + j]
      OBVIOUS
    <3>1. PICK z : z = n + j
      OBVIOUS
    <3>2. z \in 1..r /\ s - r + z = s - q + j
      BY <1>9, <3>1 DEF TheRest
    <3> QED
      BY <1>11, <2>1, <3>1, <3>2
  <2>6. len + n = pos[f + 1] - q
    <3>1. len + n = p + h + s - q
      BY <1>9 DEF TheRest
    <3>2. h \in Int /\ s \in Int /\ q \in Int /\ p \in Int
      BY <1>6, <1>7, <1>8
    <3>3. PICK z : z = pos[f + 1]
      OBVIOUS
    <3>4. z = p + h + s
      BY <1>6, <1>7, <3>3
    <3> QED
      BY <3>1, <3>2, <3>3, <3>4
  <2>7. q \in 1..s /\ Len(y) = 2 * (m - f) + 1
    BY <1>2, <1>9, <1>16, <2>3 DEF TheRest
  <2>8. BodyNext(w, pos, Len(a \o e), y, f)
    BY <1>1, <1>2, <1>6, <1>14, <2>1, <2>3, <2>5, <2>6, <2>7 DEF BodyNext
  <2>9. Arrived(w, pos, Len(a \o e), y, f)
    BY <1>1, <1>4, <2>4, <2>8 DEF Arrived
  <2> QED
    BY <2>2, <2>9
<1> QED
  BY <1>13, <1>15, <1>16

\* Something arrives.
LEMMA ArriveKeeps ==
  ASSUME WholeHeaders, TypeOK, InStep, Genuine, NEW n, Arrive(n)
  PROVE  InStep' /\ available' \in Seq(Byte) /\ wire' \in Seq(Seq(Byte))
<1>1. PICK pos, f :
        /\ Order(written, pos) /\ Agrees(written, pos, available)
        /\ Reads(written, pos, Len(queued), opLength, buffer)
        /\ Arrived(written, pos, Len(available), wire, f)
  BY DEF InStep
<1>2. /\ available \in Seq(Byte) /\ wire \in Seq(Seq(Byte)) /\ wire # <<>>
      /\ written \in Seq(Payloads) /\ n \in 1..Len(Head(wire))
      /\ Len(wire) % 2 = 0 => n = Len(Head(wire))
  BY DEF TypeOK, Genuine, Arrive
<1>3. PICK x, r : x = Head(wire) /\ r = Len(x)
  OBVIOUS
<1>4. x = wire[1] /\ x \in Seq(Byte) /\ r \in Nat /\ n \in 1..r /\ n \in Nat
  BY <1>2, <1>3, Tailed
<1>5. PICK e, d : e = Take(x, n) /\ d = Drop(x, n)
  OBVIOUS
<1>6. Taken(Byte, x, n, e) /\ Dropped(Byte, x, r, n, d)
  <2>1. n = Least(n, r)
    BY <1>4 DEF Least
  <2> QED
    BY <1>3, <1>4, <1>5, <2>1, Cut
<1>7. /\ available' = available \o e
      /\ wire' = IF n = r THEN Tail(wire) ELSE <<d>> \o Tail(wire)
      /\ written' = written /\ queued' = queued /\ opLength' = opLength /\ buffer' = buffer
  BY <1>3, <1>5 DEF Arrive
<1>8. e \in Seq(Byte) /\ d \in Seq(Byte)
  BY <1>6 DEF Taken, Dropped
<1>9. available' \in Seq(Byte)
  BY <1>2, <1>7, <1>8, Joined
<1>10. wire' \in Seq(Seq(Byte))
  BY <1>2, <1>7, <1>8, Tailed, Recut
<1>11. ASSUME HeaderNext(written, pos, Len(available), wire, f)
       PROVE  Agrees(written, pos, available') /\ Arrived(written, pos, Len(available'), wire', f)
  <2>1. n = r
    <3>1. PICK k : k = Len(written) + 1 - f
      OBVIOUS
    <3>2. k \in Int /\ Len(wire) = 2 * k
      BY <1>1, <1>2, <1>11, <3>1 DEF Arrived, HeaderNext
    <3>3. Len(wire) % 2 = 0
      BY <3>2
    <3> QED
      BY <1>2, <1>3, <3>3
  <2>2. e = x
    <3>1. Len(e) = Len(x) /\ \A j \in 1..Len(e) : e[j] = x[j]
      BY <1>3, <1>6, <2>1 DEF Taken
    <3> QED
      BY <1>4, <1>8, <3>1, Same
  <2>3. /\ Agrees(written, pos, available \o e)
        /\ Arrived(written, pos, Len(available \o e), Tail(wire), f)
    BY <1>1, <1>2, <1>3, <1>8, <1>11, <2>2, HeaderArrives
  <2> QED
    BY <1>7, <2>1, <2>3
<1>12. ASSUME BodyNext(written, pos, Len(available), wire, f)
       PROVE  /\ Agrees(written, pos, available')
              /\ \E g : Arrived(written, pos, Len(available'), wire', g)
  <2>1. /\ Agrees(written, pos, available \o e)
        /\ n = r => Arrived(written, pos, Len(available \o e), Tail(wire), f + 1)
        /\ n # r => Arrived(written, pos, Len(available \o e), <<d>> \o Tail(wire), f)
    BY <1>1, <1>2, <1>3, <1>4, <1>6, <1>12, BodyArrives
  <2> QED
    BY <1>7, <2>1
<1>13. HeaderNext(written, pos, Len(available), wire, f) \/ BodyNext(written, pos, Len(available), wire, f)
  BY <1>1 DEF Arrived
<1>14. Agrees(written, pos, available') /\ \E g : Arrived(written, pos, Len(available'), wire', g)
  BY <1>11, <1>12, <1>13
<1>15. PICK g : Arrived(written, pos, Len(available'), wire', g)
  BY <1>14
<1>16. InStep'
  BY <1>1, <1>7, <1>14, <1>15 DEF InStep
<1> QED
  BY <1>9, <1>10, <1>16

\* Nothing has arrived of what will be written next.
LEMMA LastPlace ==
  ASSUME NEW w \in Seq(Payloads), NEW pos, NEW len \in Nat, NEW onwire, NEW f,
         Order(w, pos), Arrived(w, pos, len, onwire, f), NEW m, m = Len(w)
  PROVE  pos[m + 1] \in Int /\ len <= pos[m + 1]
<1>1. PICK z : z = m + 1
  OBVIOUS
<1>2. m \in Nat /\ z \in 1..(m + 1) /\ f \in 1..(m + 1) /\ z \in 1..(Len(w) + 1)
  BY <1>1 DEF Arrived
<1>3. pos[z] \in Int
  BY <1>2 DEF Order
<1>4. ASSUME f \in 1..m PROVE len <= pos[z]
  <2>1. PICK h, s : Stands(w, pos, f, h, s)
    BY <1>4, Places
  <2>2. f < z
    BY <1>1, <1>2, <1>4
  <2>3. pos[f] + h + s <= pos[z]
    BY <1>2, <1>4, <2>1, <2>2, Behind
  <2>4. h \in Nat /\ s \in Nat /\ s = Len(w[f]) /\ pos[f] \in Int /\ pos[f + 1] = pos[f] + h + s
    BY <2>1 DEF Stands
  <2>5. CASE HeaderNext(w, pos, len, onwire, f)
    <3>1. len = pos[f]
      BY <2>5 DEF HeaderNext
    <3> QED
      BY <1>3, <2>3, <2>4, <3>1
  <2>6. CASE BodyNext(w, pos, len, onwire, f)
    <3>1. PICK r, y : r = Len(onwire[1]) /\ y = pos[f + 1]
      OBVIOUS
    <3>2. r \in 1..s /\ len = y - r
      BY <2>4, <2>6, <3>1 DEF BodyNext
    <3>3. y = pos[f] + h + s
      BY <2>4, <3>1
    <3> QED
      BY <1>3, <2>3, <2>4, <3>2, <3>3
  <2> QED
    BY <2>5, <2>6 DEF Arrived
<1>5. ASSUME f \notin 1..m PROVE len <= pos[z]
  <2>1. f = z
    BY <1>1, <1>2, <1>5
  <2>2. ~BodyNext(w, pos, len, onwire, f)
    <3>1. ~(f <= m)
      BY <1>2, <1>5
    <3> QED
      BY <3>1 DEF BodyNext
  <2>3. len = pos[f]
    BY <2>2 DEF Arrived, HeaderNext
  <2> QED
    BY <1>3, <2>1, <2>3
<1> QED
  BY <1>1, <1>3, <1>4, <1>5

\* The places when message p comes behind the others.
Grow(w, pos, p) ==
  [j \in 1..(Len(w) + 2) |-> IF j <= Len(w) + 1 THEN pos[j] ELSE pos[Len(w) + 1] + Size(p)]
Grows(w, pos, p, v, np, m, last) ==
  /\ m \in Nat /\ m = Len(w) /\ Len(v) = m + 1 /\ v \in Seq(Payloads)
  /\ v[m + 1] = p /\ np[m + 2] = last + Size(p) /\ last = pos[m + 1] /\ last \in Int
  /\ \A j \in 1..m : v[j] = w[j]
  /\ \A j \in 1..(m + 1) : np[j] = pos[j] /\ pos[j] \in Int
  /\ np \in [1..(m + 2) -> Int] /\ Size(p) \in Nat
\* What Grow returns.
LEMMA Growth ==
  ASSUME NEW w \in Seq(Payloads), NEW pos, Order(w, pos), NEW p \in Payloads,
         NEW v, v = Append(w, p), NEW np, np = Grow(w, pos, p), NEW m, m = Len(w),
         NEW last, last = pos[m + 1]
  PROVE  Grows(w, pos, p, v, np, m, last)
<1>1. m \in Nat /\ Len(v) = m + 1 /\ v[m + 1] = p /\ \A j \in 1..m : v[j] = w[j]
  BY Added
<1>2. v \in Seq(Payloads)
  BY Added
<1>3. Size(p) \in Nat
  BY Leads DEF Size
<1>4. \A j \in 1..(m + 1) : pos[j] \in Int
  BY DEF Order
<1>5. last \in Int
  BY <1>1, <1>4
<1>6. np = [j \in 1..(m + 2) |-> IF j <= m + 1 THEN pos[j] ELSE last + Size(p)]
  BY DEF Grow
<1>7. \A j \in 1..(m + 1) : np[j] = pos[j]
  BY <1>1, <1>6
<1>8. np[m + 2] = last + Size(p)
  BY <1>1, <1>6
<1>9. np \in [1..(m + 2) -> Int]
  BY <1>1, <1>3, <1>4, <1>5, <1>6
<1> QED
  BY <1>1, <1>2, <1>3, <1>4, <1>5, <1>7, <1>8, <1>9 DEF Grows

\* What the server writes goes to the end of the wire.
Longer(onwire, p) == onwire \o <<Lead(p), p>>

\* The new message has its place behind the others,
LEMMA GrowsOrder ==
  ASSUME NEW w \in Seq(Payloads), NEW pos, Order(w, pos), NEW p \in Payloads,
         NEW v, NEW np, NEW m, NEW last, Grows(w, pos, p, v, np, m, last)
  PROVE  Order(v, np)
<1>1. /\ m \in Nat /\ m = Len(w) /\ Len(v) = m + 1 /\ v[m + 1] = p
      /\ last = pos[m + 1] /\ last \in Int /\ Size(p) \in Nat
  BY DEF Grows
<1>2. /\ np[m + 2] = last + Size(p) /\ np[m + 1] = last /\ np \in [1..(m + 2) -> Int]
      /\ \A j \in 1..m : v[j] = w[j]
      /\ \A j \in 1..(m + 1) : np[j] = pos[j]
  BY <1>1 DEF Grows
<1>3. ASSUME NEW i \in 1..m
      PROVE  /\ np[i + 1] = np[i] + Size(v[i])
             /\ \A j \in (i + 1)..(m + 2) : np[i] + Size(v[i]) <= np[j]
  <2>1. v[i] = w[i] /\ np[i] = pos[i]
    BY <1>1, <1>2
  <2>2. PICK y : y = i + 1
    OBVIOUS
  <2>3. y \in 1..(m + 1)
    BY <1>1, <2>2
  <2>4. np[y] = pos[y]
    BY <1>2, <2>3
  <2>5. pos[i + 1] = pos[i] + Size(w[i])
    BY <1>1 DEF Order
  <2>6. \A j \in (i + 1)..(m + 1) : pos[i] + Size(w[i]) <= pos[j]
    BY <1>1 DEF Order
  <2>7. pos[i] + Size(w[i]) <= last
    <3>1. m + 1 \in (i + 1)..(m + 1)
      BY <1>1
    <3> QED
      BY <1>1, <2>6, <3>1
  <2>8. ASSUME NEW j \in (i + 1)..(m + 2) PROVE pos[i] + Size(w[i]) <= np[j]
    <3>1. CASE j = m + 2
      <4>1. PICK z : z = pos[i] + Size(w[i])
        OBVIOUS
      <4>2. z = pos[y] /\ pos[y] \in Int
        BY <2>2, <2>3, <2>5, <4>1 DEF Grows
      <4> QED
        BY <1>1, <1>2, <2>7, <3>1, <4>1, <4>2
    <3>2. CASE j # m + 2
      <4>1. j \in (i + 1)..(m + 1) /\ j \in 1..(m + 1)
        BY <1>1, <3>2
      <4> QED
        BY <1>2, <2>6, <4>1
    <3> QED
      BY <3>1, <3>2
  <2> QED
    BY <2>1, <2>2, <2>4, <2>5, <2>8
<1>4. ASSUME NEW i \in 1..(m + 1)
      PROVE  /\ np[i + 1] = np[i] + Size(v[i])
             /\ \A j \in (i + 1)..(m + 2) : np[i] + Size(v[i]) <= np[j]
  <2>1. CASE i = m + 1
    <3>1. i + 1 = m + 2 /\ \A j \in (i + 1)..(m + 2) : j = m + 2
      BY <1>1, <2>1
    <3>2. np[i + 1] = np[i] + Size(v[i])
      BY <1>1, <1>2, <2>1, <3>1
    <3>3. np[m + 2] \in Int
      BY <1>1, <1>2
    <3> QED
      BY <3>1, <3>2, <3>3
  <2>2. CASE i # m + 1
    <3>1. i \in 1..m
      BY <1>1, <2>2
    <3> QED
      BY <1>3, <3>1
  <2> QED
    BY <2>1, <2>2
<1>5. Len(v) + 1 = m + 2
  BY <1>1
<1> QED
  BY <1>1, <1>2, <1>4, <1>5 DEF Order

\* none of its bytes is in the buffer,
LEMMA GrowsAgrees ==
  ASSUME NEW w \in Seq(Payloads), NEW pos, NEW a \in Seq(Byte), NEW p \in Payloads,
         NEW v, NEW np, NEW m, NEW last, Grows(w, pos, p, v, np, m, last),
         Agrees(w, pos, a), Len(a) <= last
  PROVE  Agrees(v, np, a)
<1>1. /\ m \in Nat /\ m = Len(w) /\ Len(v) = m + 1 /\ v[m + 1] = p
      /\ last = pos[m + 1] /\ last \in Int /\ np[m + 1] = last
  <2>1. /\ m \in Nat /\ m = Len(w) /\ Len(v) = m + 1 /\ v[m + 1] = p
        /\ last = pos[m + 1] /\ last \in Int /\ \A j \in 1..(m + 1) : np[j] = pos[j]
    BY DEF Grows
  <2>2. m + 1 \in 1..(m + 1)
    BY <2>1
  <2> QED
    BY <2>1, <2>2
<1>2. Len(Lead(p)) \in Nat /\ Len(p) \in Nat /\ Len(a) \in Nat
  BY Leads
<1>3. ASSUME NEW i \in 1..(m + 1)
      PROVE  /\ \A j \in 1..Len(Lead(v[i])) :
                  np[i] + j \in 1..Len(a) => a[np[i] + j] = Lead(v[i])[j]
             /\ \A j \in 1..Len(v[i]) :
                  np[i] + Len(Lead(v[i])) + j \in 1..Len(a) =>
                    a[np[i] + Len(Lead(v[i])) + j] = v[i][j]
  <2>1. CASE i = m + 1
    <3>1. v[i] = p /\ np[i] = last
      BY <1>1, <2>1
    <3>2. ASSUME NEW j \in 1..Len(Lead(p)) PROVE ~(last + j \in 1..Len(a))
      BY <1>1, <1>2
    <3>3. ASSUME NEW j \in 1..Len(p) PROVE ~(last + Len(Lead(p)) + j \in 1..Len(a))
      BY <1>1, <1>2
    <3> QED
      BY <3>1, <3>2, <3>3
  <2>2. CASE i # m + 1
    <3>1. i \in 1..m /\ i \in 1..Len(w)
      BY <1>1, <2>2
    <3>2. v[i] = w[i] /\ np[i] = pos[i]
      BY <3>1 DEF Grows
    <3> QED
      BY <3>1, <3>2 DEF Agrees
  <2> QED
    BY <2>1, <2>2
<1> QED
  BY <1>1, <1>3 DEF Agrees

\* the reader is where it was,
LEMMA GrowsReads ==
  ASSUME NEW w \in Seq(Payloads), NEW pos, NEW p \in Payloads,
         NEW v, NEW np, NEW m, NEW last, Grows(w, pos, p, v, np, m, last),
         NEW k \in Nat, k <= m, NEW op, NEW buf, Reads(w, pos, k, op, buf)
  PROVE  Reads(v, np, k, op, buf)
<1>1. m \in Nat /\ m = Len(w) /\ Len(v) = m + 1
  BY DEF Grows
<1>2. PICK i : i = k + 1
  OBVIOUS
<1>3. i \in 1..(m + 1)
  BY <1>1, <1>2
<1>4. np[i] = pos[i]
  BY <1>3 DEF Grows
<1>5. CASE op = 0
  BY <1>2, <1>4, <1>5 DEF Reads
<1>6. CASE op # 0
  <2>1. k < m
    BY <1>1, <1>6 DEF Reads
  <2>2. i \in 1..m
    BY <1>1, <1>2, <2>1
  <2>3. v[i] = w[i]
    BY <2>2 DEF Grows
  <2>4. k < Len(v)
    BY <1>1, <2>1
  <2> QED
    BY <1>2, <1>4, <1>6, <2>3, <2>4 DEF Reads
<1> QED
  BY <1>5, <1>6

\* and its header and body end the wire.
LEMMA GrowsArrived ==
  ASSUME NEW w \in Seq(Payloads), NEW pos, NEW len, NEW onwire \in Seq(Seq(Byte)), NEW f, NEW p \in Payloads,
         NEW v, NEW np, NEW m, NEW last, Grows(w, pos, p, v, np, m, last),
         Arrived(w, pos, len, onwire, f), NEW y, y = Longer(onwire, p)
  PROVE  Arrived(v, np, len, y, f) /\ y \in Seq(Seq(Byte))
<1>1. /\ m \in Nat /\ m = Len(w) /\ Len(v) = m + 1 /\ v[m + 1] = p
      /\ \A j \in 1..m : v[j] = w[j]
      /\ \A j \in 1..(m + 1) : np[j] = pos[j]
  BY DEF Grows
<1>2. PICK k : k = Len(onwire)
  OBVIOUS
<1>3. <<Lead(p), p>> \in Seq(Seq(Byte)) /\ 2 = Len(<<Lead(p), p>>)
  <2>1. Lead(p) \in Seq(Byte) /\ p \in Seq(Byte)
    BY Leads
  <2> QED
    BY <2>1
<1>4. /\ y \in Seq(Seq(Byte)) /\ Len(y) = k + 2 /\ k \in Nat
      /\ \A j \in 1..(k + 2) : y[j] = IF j <= k THEN onwire[j] ELSE <<Lead(p), p>>[j - k]
  <2>1. y = onwire \o <<Lead(p), p>>
    BY DEF Longer
  <2> QED
    BY <1>2, <1>3, <2>1, Joined
<1>5. (\A j \in 1..k : y[j] = onwire[j]) /\ y[k + 1] = Lead(p) /\ y[k + 2] = p
  <2>1. \A j \in 1..k : y[j] = onwire[j]
    BY <1>4
  <2>2. k + 1 \in 1..(k + 2) /\ ~(k + 1 <= k) /\ (k + 1) - k = 1
    BY <1>4
  <2>3. k + 2 \in 1..(k + 2) /\ ~(k + 2 <= k) /\ (k + 2) - k = 2
    BY <1>4
  <2>4. y[k + 1] = <<Lead(p), p>>[1]
    BY <1>4, <2>2
  <2>5. y[k + 2] = <<Lead(p), p>>[2]
    BY <1>4, <2>3
  <2> QED
    BY <2>1, <2>4, <2>5
<1>6. f \in 1..(m + 1) /\ f \in 1..(Len(v) + 1) /\ Ahead(w, onwire)
  BY <1>1 DEF Arrived
<1>7. Ahead(v, y)
  <2>1. ASSUME NEW i \in 1..(m + 1), NEW z \in 1..(k + 2), z = (k + 2) - 2 * ((m + 1) - i) - 1
        PROVE  y[z] = Lead(v[i]) /\ y[z + 1] = v[i]
    <3>1. CASE i = m + 1
      <4>1. z = k + 1 /\ z + 1 = k + 2
        BY <1>1, <1>4, <2>1, <3>1
      <4> QED
        BY <1>1, <1>5, <3>1, <4>1
    <3>2. CASE i # m + 1
      <4>1. i \in 1..m
        BY <1>1, <3>2
      <4>2. z = k - 2 * (m - i) - 1
        <5>1. k \in Int /\ m \in Int /\ i \in Int
          BY <1>1, <1>4, <4>1
        <5> QED
          BY <2>1, <5>1, TwoMore
      <4>3. z \in 1..k /\ z + 1 \in 1..k
        BY <1>1, <1>4, <4>1, <4>2
      <4>4. onwire[z] = Lead(w[i]) /\ onwire[z + 1] = w[i]
        BY <1>1, <1>2, <1>6, <4>1, <4>2, <4>3 DEF Ahead
      <4> QED
        BY <1>1, <1>5, <4>1, <4>3, <4>4
    <3> QED
      BY <3>1, <3>2
  <2>2. Len(v) = m + 1 /\ Len(y) = k + 2
    BY <1>1, <1>4
  <2> QED
    BY <2>1, <2>2 DEF Ahead
<1>8. ASSUME HeaderNext(w, pos, len, onwire, f) PROVE HeaderNext(v, np, len, y, f)
  <2>1. k = 2 * (m + 1 - f) /\ len = pos[f]
    BY <1>1, <1>2, <1>8 DEF HeaderNext
  <2>2. k + 2 = 2 * ((m + 1) + 1 - f)
    BY <1>1, <1>6, <2>1
  <2>3. len = np[f]
    BY <1>1, <1>6, <2>1
  <2> QED
    BY <1>1, <1>4, <2>2, <2>3 DEF HeaderNext
<1>9. ASSUME BodyNext(w, pos, len, onwire, f) PROVE BodyNext(v, np, len, y, f)
  <2>1. PICK x, r, g : x = onwire[1] /\ r = Len(x) /\ g = f + 1
    OBVIOUS
  <2>2. /\ f <= m /\ k = 2 * (m - f) + 1 /\ r \in 1..Len(w[f]) /\ len = pos[g] - r
        /\ \A j \in 1..r : x[j] = w[f][Len(w[f]) - r + j]
    BY <1>1, <1>2, <1>9, <2>1 DEF BodyNext
  <2>3. f \in 1..m /\ g \in 1..(m + 1)
    BY <1>1, <1>6, <2>1, <2>2
  <2>4. v[f] = w[f] /\ np[g] = pos[g]
    BY <1>1, <2>3
  <2>5. 1 \in 1..k
    <3>1. m - f >= 0 /\ m - f \in Int
      BY <1>1, <2>3
    <3>2. k >= 1
      BY <1>4, <2>2, <3>1
    <3> QED
      BY <1>4, <3>2
  <2>6. y[1] = x
    BY <1>5, <2>1, <2>5
  <2>7. f <= m + 1 /\ k + 2 = 2 * ((m + 1) - f) + 1
    BY <1>1, <2>2, <2>3
  <2>8. Len(v) = m + 1 /\ Len(y) = k + 2
    BY <1>1, <1>4
  <2>9. f <= Len(v) /\ Len(y) = 2 * (Len(v) - f) + 1
    BY <2>7, <2>8
  <2>10. Len(y[1]) = r
    BY <2>1, <2>6
  <2>11. r \in 1..Len(v[f]) /\ len = np[f + 1] - r
    BY <2>1, <2>2, <2>4
  <2>12. \A j \in 1..r : y[1][j] = v[f][Len(v[f]) - r + j]
    BY <2>2, <2>4, <2>6
  <2> QED
    BY <2>9, <2>10, <2>11, <2>12 DEF BodyNext
<1>10. HeaderNext(v, np, len, y, f) \/ BodyNext(v, np, len, y, f)
  BY <1>8, <1>9 DEF Arrived
<1> QED
  BY <1>4, <1>6, <1>7, <1>10 DEF Arrived

\* The server writes a message.
LEMMA WritesKeeps ==
  ASSUME TypeOK, Genuine, InStep, NEW p \in Payloads, ServerWrites(p)
  PROVE  InStep' /\ Genuine' /\ TypeOK'
<1>1. PICK pos, f :
        /\ Order(written, pos) /\ Agrees(written, pos, available)
        /\ Reads(written, pos, Len(queued), opLength, buffer)
        /\ Arrived(written, pos, Len(available), wire, f)
  BY DEF InStep
<1>2. /\ available \in Seq(Byte) /\ wire \in Seq(Seq(Byte)) /\ written \in Seq(Payloads)
      /\ queued \in Seq(Seq(Byte)) /\ Len(queued) \in Nat /\ Len(queued) <= Len(written)
      /\ \A j \in 1..Len(queued) : queued[j] = written[j]
  BY DEF TypeOK, Genuine, IsPrefixOf
<1>3. PICK v, np, m, last, y :
        /\ v = Append(written, p) /\ np = Grow(written, pos, p) /\ m = Len(written)
        /\ last = pos[m + 1] /\ y = Longer(wire, p)
  OBVIOUS
<1>4. /\ written' = v /\ wire' = y /\ sock' = sock /\ available' = available /\ opLength' = opLength
      /\ buffer' = buffer /\ reading' = reading /\ queued' = queued /\ connects' = connects
  BY <1>3 DEF ServerWrites, Lead, Longer
<1>5. Grows(written, pos, p, v, np, m, last)
  BY <1>1, <1>2, <1>3, Growth
<1>6. Order(v, np)
  BY <1>1, <1>2, <1>5, GrowsOrder
<1>7. Len(available) <= last
  <2>1. Len(available) \in Nat
    BY <1>2
  <2> QED
    BY <1>1, <1>2, <1>3, <2>1, LastPlace
<1>8. Agrees(v, np, available)
  BY <1>1, <1>2, <1>5, <1>7, GrowsAgrees
<1>9. Reads(v, np, Len(queued), opLength, buffer)
  BY <1>1, <1>2, <1>3, <1>5, GrowsReads
<1>10. Arrived(v, np, Len(available), y, f) /\ y \in Seq(Seq(Byte))
  <2>1. PICK w, x, len : w = written /\ x = wire /\ len = Len(available)
    OBVIOUS
  <2>2. Arrived(w, pos, len, x, f)
    BY <1>1, <2>1
  <2>3. w \in Seq(Payloads) /\ x \in Seq(Seq(Byte)) /\ y = Longer(x, p)
    BY <1>2, <1>3, <2>1
  <2>4. Grows(w, pos, p, v, np, m, last)
    BY <1>5, <2>1
  <2>5. Arrived(v, np, len, y, f) /\ y \in Seq(Seq(Byte))
    BY <2>2, <2>3, <2>4, GrowsArrived
  <2> QED
    BY <2>1, <2>5
<1>11. InStep'
  BY <1>4, <1>6, <1>8, <1>9, <1>10 DEF InStep
<1>12. v \in Seq(Payloads) /\ Len(v) = m + 1 /\ m \in Nat /\ \A j \in 1..m : v[j] = written[j]
  BY <1>5 DEF Grows
<1>13. v \in Seq(Seq(Byte))
  <2>1. p \in Seq(Byte) /\ written \in Seq(Seq(Byte))
    BY Leads DEF TypeOK
  <2> QED
    BY <1>3, <2>1, Added
<1>14. Genuine'
  <2>1. PICK k : k = Len(queued)
    OBVIOUS
  <2>2. k \in Nat /\ k <= m /\ \A j \in 1..k : queued[j] = written[j]
    BY <1>2, <1>3, <2>1
  <2>3. k <= m + 1 /\ \A j \in 1..k : queued[j] = v[j]
    BY <1>12, <2>2
  <2>4. IsPrefixOf(queued, v)
    BY <1>12, <2>1, <2>3 DEF IsPrefixOf
  <2> QED
    BY <1>4, <1>12, <2>4 DEF Genuine
<1>15. TypeOK'
  BY <1>4, <1>10, <1>13 DEF TypeOK
<1> QED
  BY <1>11, <1>14, <1>15

---------------------------------------------------------------------------
(* The stream. *)

\* A connection that nobody has used is at the beginning of its stream.
LEMMA Begins ==
  ASSUME Unused
  PROVE  InStep
<1>1. /\ available = <<>> /\ opLength = 0 /\ buffer = <<>>
      /\ queued = <<>> /\ wire = <<>> /\ written = <<>>
  BY DEF Unused
<1>2. Len(written) = 0 /\ Len(queued) = 0 /\ Len(wire) = 0 /\ Len(available) = 0
  BY <1>1
<1>3. PICK pos : pos = [j \in 1..1 |-> 0]
  OBVIOUS
<1>4. 0 + 1 = 1 /\ pos[1] = 0 /\ pos \in [1..1 -> Int]
  BY <1>3
<1>5. Order(written, pos)
  BY <1>2, <1>4 DEF Order
<1>6. Agrees(written, pos, available)
  BY <1>2 DEF Agrees
<1>7. Reads(written, pos, Len(queued), opLength, buffer)
  BY <1>1, <1>2, <1>4 DEF Reads
<1>8. Arrived(written, pos, Len(available), wire, 1)
  <2>1. HeaderNext(written, pos, Len(available), wire, 1)
    BY <1>2, <1>4 DEF HeaderNext
  <2>2. Ahead(written, wire)
    BY <1>2 DEF Ahead
  <2> QED
    BY <1>2, <2>1, <2>2 DEF Arrived
<1> QED
  BY <1>5, <1>6, <1>7, <1>8 DEF InStep

\* The beginning of the program.
LEMMA Starts ==
  ASSUME Init
  PROVE  IInv
<1>1. /\ sock = "unconnected" /\ available = <<>> /\ opLength = 0 /\ buffer = <<>>
      /\ reading = FALSE /\ queued = <<>> /\ wire = <<>> /\ written = <<>> /\ connects = 0
  BY DEF Init
<1>2. Unused
  BY <1>1 DEF Unused
<1>3. <<>> \in Seq(Byte) /\ <<>> \in Seq(Seq(Byte)) /\ <<>> \in Seq(Payloads)
  OBVIOUS
<1>4. TypeOK
  BY <1>1, <1>3 DEF TypeOK
<1>5. Len(<<>>) = 0
  OBVIOUS
<1>6. Genuine
  BY <1>1, <1>3, <1>5 DEF Genuine, IsPrefixOf
<1> QED
  BY <1>1, <1>2, <1>4, <1>6 DEF IInv

\* No step leaves the stream.
LEMMA Keeps ==
  ASSUME OneStream, IInv, [Next]_vars
  PROVE  IInv'
<1>1. /\ TypeOK /\ Genuine /\ (sock # "connected" => ~reading)
      /\ (connects = 0 \/ sock = "connecting" => Unused)
      /\ (sock # "unconnected" => connects # 0)
      /\ (sock = "connected" => InStep)
  BY DEF IInv
<1>2. WholeHeaders /\ MaxConnects <= 1 /\ MaxConnects \in Nat /\ connects \in Nat
  BY <1>1, FramingAssumption DEF OneStream, TypeOK
<1>3. CASE ConnectToServer
  <2>1. /\ sock = "unconnected" /\ connects < MaxConnects /\ sock' = "connecting"
        /\ connects' = connects + 1 /\ available' = <<>> /\ wire' = <<>> /\ written' = <<>>
        /\ queued' = <<>> /\ opLength' = opLength /\ buffer' = buffer /\ reading' = reading
    BY <1>3 DEF ConnectToServer
  <2>2. connects = 0 /\ connects' # 0 /\ connects' \in Nat
    BY <1>2, <2>1
  <2>3. Unused'
    BY <1>1, <2>1, <2>2 DEF Unused
  <2>4. <<>> \in Seq(Byte) /\ <<>> \in Seq(Seq(Byte)) /\ <<>> \in Seq(Payloads)
    OBVIOUS
  <2>5. TypeOK'
    BY <1>1, <2>1, <2>2, <2>4 DEF TypeOK
  <2>6. Len(<<>>) = 0
    OBVIOUS
  <2>7. Genuine'
    BY <2>1, <2>4, <2>6 DEF Genuine, IsPrefixOf
  <2> QED
    BY <1>1, <2>1, <2>2, <2>3, <2>5, <2>7 DEF IInv
<1>4. CASE OnConnected
  <2>1. /\ sock = "connecting" /\ sock' = "connected" /\ reading' = reading
        /\ UNCHANGED <<available, opLength, buffer, queued, wire, written, connects>>
    BY <1>4 DEF OnConnected
  <2>2. InStep
    BY <1>1, <2>1, Begins
  <2>3. InStep' /\ Genuine'
    BY <1>1, <2>1, <2>2 DEF InStep, Genuine
  <2>4. TypeOK' /\ Unused'
    BY <1>1, <2>1 DEF TypeOK, Unused
  <2> QED
    BY <1>1, <2>1, <2>3, <2>4 DEF IInv
<1>5. CASE ConnectionLost
  <2>1. /\ ~reading /\ sock' = "unconnected" /\ wire' = <<>> /\ reading' = reading
        /\ UNCHANGED <<available, opLength, buffer, queued, written, connects>>
    BY <1>5 DEF ConnectionLost
  <2>2. <<>> \in Seq(Seq(Byte))
    OBVIOUS
  <2>3. TypeOK' /\ Genuine'
    BY <1>1, <2>1, <2>2 DEF TypeOK, Genuine
  <2>4. connects' = 0 => Unused'
    BY <1>1, <2>1 DEF Unused
  <2> QED
    BY <2>1, <2>3, <2>4 DEF IInv
<1>6. CASE OnReadyRead \/ EndOfReading
  <2>1. /\ UNCHANGED <<sock, available, opLength, buffer, queued, wire, written, connects>>
        /\ reading' \in BOOLEAN /\ (sock # "connected" => ~reading')
    BY <1>1, <1>6 DEF OnReadyRead, EndOfReading
  <2>2. TypeOK' /\ Genuine'
    BY <1>1, <2>1 DEF TypeOK, Genuine
  <2>3. /\ connects' = 0 \/ sock' = "connecting" => Unused'
        /\ sock' = "connected" => InStep'
    BY <1>1, <2>1 DEF Unused, InStep
  <2> QED
    BY <1>1, <2>1, <2>2, <2>3 DEF IInv
<1>7. ASSUME sock = "connected", UNCHANGED <<sock, connects, reading>>, TypeOK', Genuine', InStep'
      PROVE  IInv'
  BY <1>1, <1>7 DEF IInv
<1>8. CASE ReadOnce
  <2>1. reading /\ UNCHANGED <<sock, connects, reading>>
    BY <1>8 DEF ReadOnce
  <2>2. sock = "connected" /\ InStep
    BY <1>1, <2>1
  <2>3. InStep' /\ TypeOK' /\ Genuine'
    BY <1>1, <1>8, <2>2, ReadKeeps
  <2> QED
    BY <1>7, <2>1, <2>2, <2>3
<1>9. ASSUME NEW n \in 1..LargestPiece, Arrive(n) PROVE IInv'
  <2>1. sock = "connected" /\ UNCHANGED <<sock, connects, reading, opLength, buffer, queued, written>>
    BY <1>9 DEF Arrive
  <2>2. InStep' /\ available' \in Seq(Byte) /\ wire' \in Seq(Seq(Byte))
    BY <1>1, <1>2, <1>9, <2>1, ArriveKeeps
  <2>3. TypeOK' /\ Genuine'
    BY <1>1, <2>1, <2>2 DEF TypeOK, Genuine
  <2> QED
    BY <1>7, <2>1, <2>2, <2>3
<1>10. ASSUME NEW p \in Payloads, ServerWrites(p) PROVE IInv'
  <2>1. sock = "connected" /\ UNCHANGED <<sock, connects, reading>>
    BY <1>10 DEF ServerWrites
  <2>2. InStep' /\ Genuine' /\ TypeOK'
    BY <1>1, <1>10, <2>1, WritesKeeps
  <2> QED
    BY <1>7, <2>1, <2>2
<1>11. CASE UNCHANGED vars
  <2>1. UNCHANGED <<sock, available, opLength, buffer, reading, queued, wire, written, connects>>
    BY <1>11 DEF vars
  <2>2. TypeOK' /\ Genuine'
    BY <1>1, <2>1 DEF TypeOK, Genuine
  <2>3. /\ connects' = 0 \/ sock' = "connecting" => Unused'
        /\ sock' = "connected" => InStep'
    BY <1>1, <2>1 DEF Unused, InStep
  <2> QED
    BY <1>1, <2>1, <2>2, <2>3 DEF IInv
<1> QED
  BY <1>3, <1>4, <1>5, <1>6, <1>8, <1>9, <1>10, <1>11 DEF Next, Steps

\* On a stream that is opened once and whose headers come whole, the reader, the
\* socket's buffer and the wire are always in step.
THEOREM ConnectionInvariant == OneStream => (Spec => []IInv)
<1> SUFFICES ASSUME OneStream PROVE Spec => []IInv
  OBVIOUS
<1>1. Init => IInv
  BY Starts
<1>2. IInv /\ [Next]_vars => IInv'
  BY Keeps
<1> QED
  BY <1>1, <1>2, PTL DEF Spec

\* The members of Connection and the socket's buffer have their types.
THEOREM ConnectionTypes == OneStream => (Spec => []TypeOK)
<1> SUFFICES ASSUME OneStream PROVE Spec => []TypeOK
  OBVIOUS
<1>1. IInv => TypeOK
  BY DEF IInv
<1> QED
  BY <1>1, ConnectionInvariant, PTL

\* Whatever the pieces TCP delivers of the bodies, processRpcAnswer gets exactly
\* what the server wrote, in its order.
THEOREM MessagesArriveIntact == OneStream => (Spec => []MessagesIntact)
<1> SUFFICES ASSUME OneStream PROVE Spec => []MessagesIntact
  OBVIOUS
<1>1. IInv => MessagesIntact
  BY DEF IInv, Genuine, MessagesIntact
<1> QED
  BY <1>1, ConnectionInvariant, PTL

\* Each length handed to processRpcAnswer is that of a message of the server,
\* what session.cpp asserts; a header that is cut refutes it (run connection_split).
THEOREM LengthsAreGenuine == OneStream => (Spec => []LengthsGenuine)
<1> SUFFICES ASSUME OneStream PROVE Spec => []LengthsGenuine
  OBVIOUS
<1>1. IInv => LengthsGenuine
  <2> SUFFICES ASSUME IInv, NEW i \in 1..Len(queued)
               PROVE  \E p \in Payloads : Len(queued[i]) = Len(p)
    BY DEF LengthsGenuine
  <2>1. /\ written \in Seq(Payloads) /\ Len(queued) <= Len(written) /\ queued[i] = written[i]
        /\ queued \in Seq(Seq(Byte))
    BY DEF IInv, Genuine, IsPrefixOf, TypeOK
  <2>2. i \in 1..Len(written)
    BY <2>1
  <2>3. written[i] \in Payloads
    BY <2>1, <2>2
  <2> QED
    BY <2>1, <2>3
<1> QED
  BY <1>1, ConnectionInvariant, PTL
=============================================================================
