------------------------- MODULE MessageStoreProofs -------------------------
(***************************************************************************)
(* Proofs about MessageStore for any users, chats, numbers, page lengths   *)
(* and bounds.  Stored says what the tables hold, OnTheWay what the answers*)
(* and updates under way will bring; their conjunction is inductive.       *)
(***************************************************************************)
EXTENDS MessageStore, FiniteSetTheorems, SequenceTheorems, WellFoundedInduction, TLAPS

\* A copy says of a message what the server holds; the short form leaves out to.
TrueCopy(m) ==
  /\ m.id \in DOMAIN box /\ m.from = box[m.id].from /\ m.read \in BOOLEAN
  /\ m.to = box[m.id].to \/ (m.to = None /\ box[m.id].to = Me)
NoteCopy(m) == m.id \in Notes /\ m.to \in Chats /\ m.from \in {m.to, None} /\ m.read \in BOOLEAN
\* What updates have told of it is no news to a copy.
UpToDate(m) == m.id \notin toldGone /\ (m.id \in toldRead => m.read)

\* Conversations are between the account and a user, or in a chat.
BoxOK ==
  \A i \in DOMAIN box :
    /\ box[i].from \in Users \cup {Me} /\ box[i].kind \in {"text", "service"}
    /\ \/ box[i].to \in Chats
       \/ box[i].from = Me /\ box[i].to \in Users
       \/ box[i].from \in Users /\ box[i].to = Me

RowTrue(i) ==
  LET row == messages[i] IN
  /\ row.type = TypeOfRow(row)
  /\ IF i \in Ids
       THEN /\ i \in DOMAIN box /\ row.from = box[i].from
            /\ row.to = box[i].to \/ (row.to = None /\ box[i].to = Me)
       ELSE row.to \in Chats /\ row.from \in {row.to, None}
LineTrue(p) ==
  contacts[p].latest \in Ids =>
    contacts[p].latest \in DOMAIN box /\ ConvOf(contacts[p].latest) = p

Stored ==
  /\ BoxOK /\ ToldStays
  /\ \A i \in DOMAIN messages : RowTrue(i)
  /\ \A p \in DOMAIN contacts : LineTrue(p)

\* What the server sent was so when it sent it, and what it sends in front of a copy
\* it took into account.
TrueAnswer(e) ==
  /\ \A k \in DOMAIN ListOf(e) : TrueCopy(ListOf(e)[k])
  /\ e.op = "dialogs" =>
       \A p \in DOMAIN e.latest : e.latest[p] \in DOMAIN box /\ ConvOf(e.latest[p]) = p
  /\ e.op = "deleted" => e.id \in gone
  /\ e.op = "read" => e.id \in seen
InView(e, m) ==
  /\ e.op = "deleted" => e.id # m.id
  /\ e.op = "read" /\ e.id = m.id => m.read
OnTheWay ==
  /\ toldGone \subseteq gone /\ toldRead \subseteq seen
  /\ \A n \in DOMAIN coming : TrueAnswer(coming[n])
  /\ \A n \in DOMAIN coming : \A k \in DOMAIN ListOf(coming[n]) :
       /\ UpToDate(ListOf(coming[n])[k])
       /\ \A j \in 1..(n - 1) : InView(coming[j], ListOf(coming[n])[k])

IInv == TypeOK /\ Stored /\ OnTheWay

---------------------------------------------------------------------------
(* Numbers in order. *)

\* A set of numbers that is not empty has a smallest.
LEMMA Smallest ==
  ASSUME NEW S, S \subseteq Nat, S # {}
  PROVE  \E x \in S : \A y \in S : x <= y
<1> DEFINE R == {ss \in Nat \X Nat : ss[1] < ss[2]}
<1>1. IsWellFoundedOn(R, Nat)
  BY NatLessThanWellFounded DEF OpToRel
<1> HIDE DEF R
<1>2. PICK x \in S : \A y \in S : ~ (<<y, x>> \in R)
  BY <1>1, WFMin
<1>3. \A y \in S : ~ (y < x)
  BY <1>2 DEF R
<1> QED
  BY <1>3

\* A finite set of numbers can be put in order: NewestFirst is what it says.
LEMMA InOrder ==
  ASSUME NEW S, S \subseteq Nat, IsFiniteSet(S)
  PROVE  /\ Cardinality(S) \in Nat /\ NewestFirst(S) \in [1..Cardinality(S) -> S]
         /\ S # {} => Cardinality(S) > 0
<1> DEFINE Ordered(T) == \E s \in [1..Cardinality(T) -> T] :
                           \A m, n \in DOMAIN s : m < n => s[m] > s[n]
           Bad == {n \in Nat : \E T \in SUBSET S : Cardinality(T) = n /\ ~Ordered(T)}
<1>1. \A T \in SUBSET S : IsFiniteSet(T) /\ Cardinality(T) \in Nat
  BY FS_Subset, FS_CardinalityType
<1>2. Bad = {}
  <2> SUFFICES ASSUME Bad # {} PROVE FALSE
    OBVIOUS
  <2>1. Bad \subseteq Nat
    OBVIOUS
  <2>2. PICK n \in Bad : \A m \in Bad : n <= m
    <3> HIDE DEF Bad
    <3> QED
      BY <2>1, Smallest
  <2>3. n \in Nat
    OBVIOUS
  <2>4. PICK T \in SUBSET S : Cardinality(T) = n /\ ~Ordered(T)
    OBVIOUS
  <2>5. IsFiniteSet(T) /\ T \subseteq Nat
    BY <1>1
  <2>6. CASE T = {}
    <3>1. n = 0
      BY <2>4, <2>6, FS_EmptySet
    <3>2. PICK s : s = [k \in 1..n |-> k]
      OBVIOUS
    <3>3. s \in [1..n -> T] /\ DOMAIN s = {}
      BY <2>6, <3>1, <3>2
    <3> QED
      BY <2>4, <3>3
  <2>7. CASE T # {}
    <3>1. PICK x \in T : \A y \in T : x <= y
      BY <2>5, <2>7, Smallest
    <3>2. PICK U : U = T \ {x}
      OBVIOUS
    <3>3. Cardinality(U) = n - 1
      BY <2>4, <2>5, <3>2, FS_RemoveElement
    <3>4. U \in SUBSET S /\ n - 1 \in Nat
      BY <1>1, <3>2, <3>3
    <3>5. n - 1 \notin Bad
      BY <2>2, <2>3, <3>4
    <3>6. Ordered(U)
      BY <3>3, <3>4, <3>5
    <3>7. PICK s \in [1..(n - 1) -> U] : \A m, k \in 1..(n - 1) : m < k => s[m] > s[k]
      BY <3>3, <3>6
    <3>8. PICK r : r = [k \in 1..n |-> IF k = n THEN x ELSE s[k]]
      OBVIOUS
    <3>9. \A k \in 1..n : r[k] \in T /\ (k = n \/ (k \in 1..(n - 1) /\ r[k] = s[k] /\ r[k] > x))
      <4> SUFFICES ASSUME NEW k \in 1..n
                   PROVE  r[k] \in T /\ (k = n \/ (k \in 1..(n - 1) /\ r[k] = s[k] /\ r[k] > x))
        OBVIOUS
      <4>1. CASE k = n
        BY <3>8, <4>1
      <4>2. CASE k # n
        <5>1. k \in 1..(n - 1) /\ r[k] = s[k]
          BY <2>3, <3>8, <4>2
        <5>2. s[k] \in U
          BY <3>7, <5>1
        <5>3. s[k] \in T /\ s[k] # x /\ s[k] \in Nat /\ x \in Nat /\ x <= s[k]
          BY <2>5, <3>1, <3>2, <5>2
        <5> QED
          BY <5>1, <5>3
      <4> QED
        BY <4>1, <4>2
    <3>10. r \in [1..n -> T]
      BY <3>8, <3>9
    <3>11. \A m, k \in 1..n : m < k => r[m] > r[k]
      <4> SUFFICES ASSUME NEW m \in 1..n, NEW k \in 1..n, m < k PROVE r[m] > r[k]
        OBVIOUS
      <4>1. m # n
        BY <2>3
      <4>2. CASE k = n
        BY <3>8, <3>9, <4>1, <4>2
      <4>3. CASE k # n
        BY <3>7, <3>9, <4>1, <4>3
      <4> QED
        BY <4>2, <4>3
    <3>12. DOMAIN r = 1..n
      BY <3>8
    <3> QED
      BY <2>4, <3>10, <3>11, <3>12
  <2> QED
    BY <2>6, <2>7
<1>3. Ordered(S)
  BY <1>1, <1>2
<1>4. NewestFirst(S) \in [1..Cardinality(S) -> S]
  BY <1>3 DEF NewestFirst
<1>5. S # {} => Cardinality(S) > 0
  BY <1>1, FS_EmptySet
<1> QED
  BY <1>1, <1>4, <1>5

---------------------------------------------------------------------------
(* Types. *)

RowSet == [from : Users \cup Chats \cup {Me, None}, to : Peers \cup {Me, None},
           type : {"contact", "chat"}, read : BOOLEAN]
LineSet == [latest : Ids \cup Notes \cup {None}, init : BOOLEAN]

\* What TypeOK says of the tables, and of what is under way.
LEMMA Types ==
  ASSUME TypeOK
  PROVE  /\ DOMAIN messages \subseteq Ids \cup Notes /\ messages \in [DOMAIN messages -> RowSet]
         /\ DOMAIN contacts \subseteq Peers /\ contacts \in [DOMAIN contacts -> LineSet]
         /\ asked \in Seq(Request) /\ coming \in Seq(Answer)
         /\ DOMAIN box \subseteq Ids /\ gone \subseteq DOMAIN box /\ seen \subseteq DOMAIN box
         /\ toldGone \subseteq DOMAIN box /\ toldRead \subseteq DOMAIN box
         /\ mine \subseteq (DOMAIN box) \X Acknowledgements
  BY DEF TypeOK, RowSet, LineSet

\* The kinds of answers.
LEMMA AnswerKinds ==
  ASSUME NEW e \in Answer
  PROVE  /\ e.op = "messages" => e.list \in Seq(Copy)
         /\ e.op = "new" => e.message \in Copy
         /\ e.op = "shortMessage" => e.id \in Ids /\ e.from \in Users
         /\ e.op = "shortChatMessage" => e.id \in Ids /\ e.from \in Users /\ e.chat \in Chats
         /\ e.op \in {"sent", "read", "deleted"} => e.id \in Ids
         /\ e.op = "contactLink" => e.user \in Users
         /\ e.op = "dialogs" => /\ DOMAIN e.latest \subseteq Peers
                                /\ \A p \in DOMAIN e.latest : e.latest[p] \in Ids
<1>1. \/ e \in [op : {"messages"}, list : Seq(Copy)] \/ e \in [op : {"new"}, message : Copy]
      \/ e \in [op : {"shortMessage"}, id : Ids, from : Users]
      \/ e \in [op : {"shortChatMessage"}, id : Ids, from : Users, chat : Chats]
      \/ e \in [op : {"sent", "read", "deleted"}, id : Ids]
      \/ e \in [op : {"contactLink"}, user : Users]
      \/ e \in [op : {"dialogs"}, latest : UNION {[S -> Ids] : S \in SUBSET Peers}]
      \/ e \in [op : {"contacts", "participants"}]
  BY DEF Answer
<1>2. CASE e \in [op : {"messages"}, list : Seq(Copy)]
  BY <1>2
<1>3. CASE e \in [op : {"new"}, message : Copy]
  BY <1>3
<1>4. CASE e \in [op : {"shortMessage"}, id : Ids, from : Users]
  BY <1>4
<1>5. CASE e \in [op : {"shortChatMessage"}, id : Ids, from : Users, chat : Chats]
  BY <1>5
<1>6. CASE e \in [op : {"sent", "read", "deleted"}, id : Ids]
  BY <1>6
<1>7. CASE e \in [op : {"contactLink"}, user : Users]
  BY <1>7
<1>8. CASE e \in [op : {"dialogs"}, latest : UNION {[S -> Ids] : S \in SUBSET Peers}]
  <2>1. e.op = "dialogs" /\ e.latest \in UNION {[S -> Ids] : S \in SUBSET Peers}
    BY <1>8
  <2>2. PICK S \in SUBSET Peers : e.latest \in [S -> Ids]
    BY <2>1
  <2>3. DOMAIN e.latest \subseteq Peers /\ \A p \in DOMAIN e.latest : e.latest[p] \in Ids
    BY <2>2
  <2> QED
    BY <2>1, <2>3
<1>9. CASE e \in [op : {"contacts", "participants"}]
  BY <1>9
<1> QED
  BY <1>1, <1>2, <1>3, <1>4, <1>5, <1>6, <1>7, <1>8, <1>9

\* What an answer inserts is a sequence.
LEMMA ListDomain ==
  ASSUME NEW e \in Answer
  PROVE  \E n \in Nat : DOMAIN ListOf(e) = 1..n
<1>1. CASE e.op = "messages"
  <2>1. ListOf(e) = e.list
    BY <1>1 DEF ListOf
  <2> QED
    BY <1>1, <2>1, AnswerKinds
<1>2. CASE e.op \in {"new", "shortMessage", "shortChatMessage"}
  <2>1. \E m : ListOf(e) = <<m>>
    BY <1>2 DEF ListOf
  <2>2. DOMAIN ListOf(e) = 1..1
    BY <2>1
  <2> QED
    BY <2>2
<1>3. CASE e.op \notin {"messages", "new", "shortMessage", "shortChatMessage"}
  <2>1. ListOf(e) = <<>>
    BY <1>3 DEF ListOf
  <2>2. DOMAIN ListOf(e) = 1..0
    BY <2>1
  <2> QED
    BY <2>2
<1> QED
  BY <1>1, <1>2, <1>3

---------------------------------------------------------------------------
(* The tables. *)

TablesOK ==
  /\ DOMAIN messages \subseteq Ids \cup Notes /\ messages \in [DOMAIN messages -> RowSet]
  /\ DOMAIN contacts \subseteq Peers /\ contacts \in [DOMAIN contacts -> LineSet]
Insertable(m) == (TrueCopy(m) /\ UpToDate(m)) \/ NoteCopy(m)

\* What the row of a message says, and whose line shows it.
LEMMA RowOfCopy ==
  ASSUME IInv, NEW m, Insertable(m)
  PROVE  /\ m.id \in Ids \cup Notes /\ Row(m) \in RowSet
         /\ Row(m).from = m.from /\ Row(m).to = m.to /\ Row(m).read = m.read
         /\ Row(m).type = TypeOfRow(Row(m))
         /\ m.id \in Ids =>
              /\ TrueCopy(m) /\ UpToDate(m)
              /\ \A p \in Peers : LineOf(m) = p => ConvOf(m.id) = p
         /\ m.id \notin Ids => m.to \in Chats /\ m.from \in {m.to, None}
         /\ m.id \in toldGone \cup toldRead => m.id \in Ids
<1>1. DOMAIN box \subseteq Ids /\ toldGone \subseteq DOMAIN box /\ toldRead \subseteq DOMAIN box
  BY Types DEF IInv
<1>2. Ids \cap Notes = {} /\ None \notin Peers \cup {Me} /\ Me \notin Peers
  BY NumbersAssumption, PeersAssumption
<1>3. /\ Row(m).from = m.from /\ Row(m).to = m.to /\ Row(m).read = m.read
      /\ Row(m).type = TypeOfRow(m)
  BY DEF Row
<1>4. TypeOfRow(Row(m)) = TypeOfRow(m) /\ TypeOfRow(m) \in {"contact", "chat"}
  BY <1>3 DEF TypeOfRow
<1>5. CASE NoteCopy(m)
  <2>1. m.id \in Notes /\ m.to \in Chats /\ m.from \in {m.to, None} /\ m.read \in BOOLEAN
    BY <1>5 DEF NoteCopy
  <2>2. Row(m) \in RowSet
    BY <1>3, <1>4, <2>1 DEF Row, RowSet, Peers
  <2> QED
    BY <1>1, <1>2, <1>3, <1>4, <2>1, <2>2
<1>6. CASE TrueCopy(m) /\ UpToDate(m)
  <2>1. /\ m.id \in DOMAIN box /\ m.from = box[m.id].from /\ m.read \in BOOLEAN
        /\ m.to = box[m.id].to \/ (m.to = None /\ box[m.id].to = Me)
    BY <1>6 DEF TrueCopy
  <2>2. /\ box[m.id].from \in Users \cup {Me}
        /\ box[m.id].to \in Chats \cup Users \cup {Me}
        /\ box[m.id].to \in Peers \cup {Me}
    BY <2>1 DEF IInv, Stored, BoxOK, Peers
  <2>3. m.from \in Users \cup Chats \cup {Me, None} /\ m.to \in Peers \cup {Me, None}
    BY <2>1, <2>2
  <2>4. Row(m) \in RowSet
    BY <1>3, <1>4, <2>1, <2>3 DEF Row, RowSet
  <2>5. ASSUME NEW p \in Peers, LineOf(m) = p PROVE ConvOf(m.id) = p
    <3>1. CASE m.to = None
      <4>1. m.from = p /\ box[m.id].to = Me
        BY <1>2, <2>1, <2>2, <2>5, <3>1 DEF LineOf
      <4> QED
        BY <2>1, <4>1 DEF ConvOf
    <3>2. CASE m.to # None
      <4>1. m.to = p /\ box[m.id].to = p /\ p # Me
        BY <1>2, <2>1, <2>5, <3>2 DEF LineOf
      <4> QED
        BY <4>1 DEF ConvOf
    <3> QED
      BY <3>1, <3>2
  <2> QED
    BY <1>1, <1>3, <1>4, <1>6, <2>1, <2>4, <2>5
<1> QED
  BY <1>5, <1>6 DEF Insertable

\* insertMessage keeps the tables true, whatever copies come in whatever order.
LEMMA Inserts ==
  ASSUME IInv, NEW list, NEW len \in Nat, DOMAIN list = 1..len,
         \A k \in 1..len : Insertable(list[k]),
         InsertMessages(list), UNCHANGED <<box, told>>
  PROVE  TablesOK' /\ Stored'
<1>1. /\ DOMAIN messages \subseteq Ids \cup Notes /\ messages \in [DOMAIN messages -> RowSet]
      /\ DOMAIN contacts \subseteq Peers /\ contacts \in [DOMAIN contacts -> LineSet]
  BY Types DEF IInv
<1>2. box' = box /\ toldGone' = toldGone /\ toldRead' = toldRead
  BY DEF told
<1> DEFINE new == {k \in DOMAIN list : list[k].kind # "service" /\ list[k].id \notin DOMAIN messages}
           nth(i) == CHOOSE k \in new : list[k].id = i
<1>3. messages' = [i \in DOMAIN messages \cup {list[k].id : k \in new} |->
                     IF i \in DOMAIN messages THEN messages[i] ELSE Row(list[nth(i)])]
  BY DEF InsertMessages, AddRows
<1>4. new \subseteq 1..len
  OBVIOUS
<1>5. \A i \in {list[k].id : k \in new} : nth(i) \in new /\ list[nth(i)].id = i
  OBVIOUS
<1> HIDE DEF new, nth
<1>6. \A i \in DOMAIN messages' :
        \/ i \in DOMAIN messages /\ messages'[i] = messages[i]
        \/ \E k \in 1..len : list[k].id = i /\ messages'[i] = Row(list[k])
  BY <1>3, <1>4, <1>5
<1>7. DOMAIN messages' \subseteq Ids \cup Notes /\ messages' \in [DOMAIN messages' -> RowSet]
  <2>1. \A i \in DOMAIN messages' : i \in Ids \cup Notes /\ messages'[i] \in RowSet
    BY <1>1, <1>6, RowOfCopy
  <2>2. messages' = [i \in DOMAIN messages' |-> messages'[i]]
    BY <1>3
  <2> QED
    BY <2>1, <2>2
<1>8. \A i \in DOMAIN messages' : (RowTrue(i))'
  <2> SUFFICES ASSUME NEW i \in DOMAIN messages' PROVE (RowTrue(i))'
    OBVIOUS
  <2>1. CASE i \in DOMAIN messages /\ messages'[i] = messages[i]
    <3>1. RowTrue(i)
      BY <2>1 DEF IInv, Stored
    <3> QED
      BY <1>2, <2>1, <3>1 DEF RowTrue
  <2>2. CASE \E k \in 1..len : list[k].id = i /\ messages'[i] = Row(list[k])
    <3>1. PICK k \in 1..len : list[k].id = i /\ messages'[i] = Row(list[k])
      BY <2>2
    <3>2. PICK m : m = list[k]
      OBVIOUS
    <3>3. Insertable(m) /\ m.id = i /\ messages'[i] = Row(m)
      BY <3>1, <3>2
    <3>4. /\ Row(m).from = m.from /\ Row(m).to = m.to /\ Row(m).type = TypeOfRow(Row(m))
          /\ m.id \in Ids => TrueCopy(m)
          /\ m.id \notin Ids => m.to \in Chats /\ m.from \in {m.to, None}
      BY <3>3, RowOfCopy
    <3> QED
      BY <1>2, <3>3, <3>4 DEF RowTrue, TrueCopy
  <2> QED
    BY <1>6, <2>1, <2>2
<1>9. ToldStays'
  <2> SUFFICES ASSUME NEW i \in DOMAIN messages'
               PROVE  i \notin toldGone /\ (i \in toldRead => messages'[i].read)
    BY <1>2 DEF ToldStays
  <2>1. CASE i \in DOMAIN messages /\ messages'[i] = messages[i]
    BY <2>1 DEF IInv, Stored, ToldStays
  <2>2. CASE \E k \in 1..len : list[k].id = i /\ messages'[i] = Row(list[k])
    <3>1. PICK k \in 1..len : list[k].id = i /\ messages'[i] = Row(list[k])
      BY <2>2
    <3>2. PICK m : m = list[k]
      OBVIOUS
    <3>3. Insertable(m) /\ m.id = i /\ messages'[i] = Row(m)
      BY <3>1, <3>2
    <3>4. /\ Row(m).read = m.read /\ (m.id \in Ids => UpToDate(m))
          /\ m.id \in toldGone \cup toldRead => m.id \in Ids
      BY <3>3, RowOfCopy
    <3> QED
      BY <3>3, <3>4 DEF UpToDate
  <2> QED
    BY <1>6, <2>1, <2>2
<1> DEFINE for(p) == {k \in DOMAIN list : LineOf(list[k]) = p}
           first(p) == CHOOSE k \in for(p) : \A j \in for(p) : k <= j
<1>10. contacts' = [p \in DOMAIN contacts |->
                      IF for(p) = {} THEN contacts[p]
                      ELSE [contacts[p] EXCEPT !.latest = list[first(p)].id]]
  BY DEF InsertMessages, ShowLatest
<1>11. \A p : for(p) \subseteq 1..len /\ (for(p) # {} => first(p) \in for(p))
  <2> SUFFICES ASSUME NEW p PROVE for(p) \subseteq 1..len /\ (for(p) # {} => first(p) \in for(p))
    OBVIOUS
  <2>1. for(p) \subseteq 1..len /\ for(p) \subseteq Nat
    OBVIOUS
  <2>2. PICK S : S = for(p)
    OBVIOUS
  <2>3. S # {} => \E k \in S : \A j \in S : k <= j
    BY <2>1, <2>2, Smallest
  <2> QED
    BY <2>1, <2>2, <2>3
<1>12. \A p, k : k \in for(p) => LineOf(list[k]) = p
  OBVIOUS
<1> HIDE DEF for, first
<1>13. \A p \in DOMAIN contacts' :
         /\ p \in DOMAIN contacts /\ contacts'[p] \in LineSet
         /\ \/ contacts'[p].latest = contacts[p].latest
            \/ \E k \in 1..len : LineOf(list[k]) = p /\ contacts'[p].latest = list[k].id
  <2> SUFFICES ASSUME NEW p \in DOMAIN contacts
               PROVE  /\ contacts'[p] \in LineSet
                      /\ \/ contacts'[p].latest = contacts[p].latest
                         \/ \E k \in 1..len : LineOf(list[k]) = p /\ contacts'[p].latest = list[k].id
    BY <1>10
  <2>1. contacts[p] \in LineSet
    BY <1>1
  <2>2. CASE for(p) = {}
    BY <1>10, <2>1, <2>2
  <2>3. CASE for(p) # {}
    <3>1. PICK k \in 1..len : k = first(p) /\ LineOf(list[k]) = p
      BY <1>11, <1>12, <2>3
    <3>2. contacts'[p] = [contacts[p] EXCEPT !.latest = list[k].id]
      BY <1>10, <2>3, <3>1
    <3>3. list[k].id \in Ids \cup Notes
      BY RowOfCopy
    <3> QED
      BY <2>1, <3>1, <3>2, <3>3 DEF LineSet
  <2> QED
    BY <2>2, <2>3
<1>14. DOMAIN contacts' \subseteq Peers /\ contacts' \in [DOMAIN contacts' -> LineSet]
  BY <1>1, <1>10, <1>13
<1>15. \A p \in DOMAIN contacts' : (LineTrue(p))'
  <2> SUFFICES ASSUME NEW p \in DOMAIN contacts', contacts'[p].latest \in Ids
               PROVE  /\ contacts'[p].latest \in DOMAIN box
                      /\ ConvOf(contacts'[p].latest) = p
    BY <1>2 DEF LineTrue, ConvOf
  <2>1. CASE contacts'[p].latest = contacts[p].latest
    BY <1>13, <2>1 DEF IInv, Stored, LineTrue
  <2>2. CASE \E k \in 1..len : LineOf(list[k]) = p /\ contacts'[p].latest = list[k].id
    <3>1. PICK k \in 1..len : LineOf(list[k]) = p /\ contacts'[p].latest = list[k].id
      BY <2>2
    <3>2. PICK m : m = list[k]
      OBVIOUS
    <3>3. Insertable(m) /\ LineOf(m) = p /\ contacts'[p].latest = m.id /\ p \in Peers
      BY <1>1, <1>13, <3>1, <3>2
    <3>4. TrueCopy(m) /\ ConvOf(m.id) = p
      BY <3>3, RowOfCopy
    <3> QED
      BY <3>3, <3>4 DEF TrueCopy
  <2> QED
    BY <1>13, <2>1, <2>2
<1>16. BoxOK'
  BY <1>2 DEF IInv, Stored, BoxOK
<1> QED
  BY <1>7, <1>8, <1>9, <1>14, <1>15, <1>16 DEF TablesOK, Stored

\* Rows and lines that go take nothing with them.
LEMMA Removes ==
  ASSUME IInv, NEW G, messages' = RowsWithout(G), UNCHANGED <<box, toldRead>>,
         toldGone' \subseteq toldGone \cup G,
         DOMAIN contacts' \subseteq DOMAIN contacts, contacts' \in [DOMAIN contacts' -> LineSet],
         \A p \in DOMAIN contacts' : contacts'[p].latest = contacts[p].latest
  PROVE  TablesOK' /\ Stored'
<1>1. /\ DOMAIN messages' = DOMAIN messages \ G
      /\ \A i \in DOMAIN messages' : messages'[i] = messages[i]
      /\ messages' = [i \in DOMAIN messages \ G |-> messages[i]]
  BY DEF RowsWithout
<1>2. TablesOK'
  BY <1>1, Types DEF IInv, TablesOK
<1>3. \A i \in DOMAIN messages' : (RowTrue(i))'
  BY <1>1 DEF IInv, Stored, RowTrue
<1>4. ToldStays'
  BY <1>1 DEF IInv, Stored, ToldStays
<1>5. BoxOK' /\ \A p \in DOMAIN contacts' : (LineTrue(p))'
  BY DEF IInv, Stored, BoxOK, LineTrue, ConvOf
<1> QED
  BY <1>2, <1>3, <1>4, <1>5 DEF Stored

\* A message that has been read is marked so.
LEMMA Marks ==
  ASSUME IInv, NEW i,
         messages' = [j \in DOMAIN messages |->
                        IF j = i THEN [messages[j] EXCEPT !.read = TRUE] ELSE messages[j]],
         UNCHANGED <<contacts, box, toldGone>>, toldRead' = toldRead \cup {i}
  PROVE  TablesOK' /\ Stored'
<1>1. messages \in [DOMAIN messages -> RowSet]
  BY Types DEF IInv
<1>2. DOMAIN messages' = DOMAIN messages
  OBVIOUS
<1>3. \A j \in DOMAIN messages :
        /\ messages'[j] \in RowSet /\ messages'[j].from = messages[j].from
        /\ messages'[j].to = messages[j].to /\ messages'[j].type = messages[j].type
        /\ j = i => messages'[j].read
        /\ j # i => messages'[j] = messages[j]
  <2> SUFFICES ASSUME NEW j \in DOMAIN messages
               PROVE  /\ messages'[j] \in RowSet /\ messages'[j].from = messages[j].from
                      /\ messages'[j].to = messages[j].to /\ messages'[j].type = messages[j].type
                      /\ j = i => messages'[j].read
                      /\ j # i => messages'[j] = messages[j]
    OBVIOUS
  <2>1. messages[j] \in RowSet
    BY <1>1
  <2>2. CASE j = i
    <3>1. messages'[j] = [messages[j] EXCEPT !.read = TRUE]
      BY <2>2
    <3> QED
      BY <2>1, <2>2, <3>1 DEF RowSet
  <2>3. CASE j # i
    <3>1. messages'[j] = messages[j]
      BY <2>3
    <3> QED
      BY <2>1, <2>3, <3>1
  <2> QED
    BY <2>2, <2>3
<1>4. TablesOK'
  <2>1. messages' \in [DOMAIN messages' -> RowSet]
    BY <1>2, <1>3
  <2> QED
    BY <1>2, <2>1, Types DEF IInv, TablesOK
<1>5. \A j \in DOMAIN messages' : (RowTrue(j))'
  <2> SUFFICES ASSUME NEW j \in DOMAIN messages PROVE (RowTrue(j))'
    BY <1>2
  <2>1. RowTrue(j)
    BY DEF IInv, Stored
  <2>2. /\ messages'[j].from = messages[j].from
        /\ messages'[j].to = messages[j].to /\ messages'[j].type = messages[j].type
    BY <1>3
  <2> QED
    BY <2>1, <2>2 DEF RowTrue, TypeOfRow
<1>6. ToldStays'
  BY <1>2, <1>3 DEF IInv, Stored, ToldStays
<1>7. BoxOK' /\ \A p \in DOMAIN contacts' : (LineTrue(p))'
  BY DEF IInv, Stored, BoxOK, LineTrue, ConvOf
<1> QED
  BY <1>4, <1>5, <1>6, <1>7 DEF Stored

\* Lines come with a message of theirs or none.
LEMMA Lists ==
  ASSUME IInv, UNCHANGED <<messages, box, told>>,
         DOMAIN contacts' \subseteq Peers, contacts' \in [DOMAIN contacts' -> LineSet],
         \A p \in DOMAIN contacts' :
           \/ p \in DOMAIN contacts /\ contacts'[p].latest = contacts[p].latest
           \/ contacts'[p].latest = None
           \/ contacts'[p].latest \in DOMAIN box /\ ConvOf(contacts'[p].latest) = p
  PROVE  TablesOK' /\ Stored'
<1>1. None \notin Ids
  BY NumbersAssumption
<1>2. TablesOK'
  BY Types DEF IInv, TablesOK
<1>3. \A p \in DOMAIN contacts' : (LineTrue(p))'
  BY <1>1 DEF IInv, Stored, LineTrue, ConvOf
<1>4. BoxOK' /\ ToldStays' /\ \A i \in DOMAIN messages' : (RowTrue(i))'
  BY DEF IInv, Stored, BoxOK, ToldStays, RowTrue, told
<1> QED
  BY <1>2, <1>3, <1>4 DEF Stored

\* The server's messages grow, and the tables keep to them.
LEMMA Grows ==
  ASSUME IInv, UNCHANGED <<messages, contacts, told>>,
         DOMAIN box \subseteq DOMAIN box', \A i \in DOMAIN box : box'[i] = box[i], BoxOK'
  PROVE  TablesOK' /\ Stored'
<1>1. TablesOK'
  BY Types DEF IInv, TablesOK
<1>2. \A p \in DOMAIN contacts' : (LineTrue(p))'
  <2> SUFFICES ASSUME NEW p \in DOMAIN contacts PROVE (LineTrue(p))'
    OBVIOUS
  <2>1. LineTrue(p)
    BY DEF IInv, Stored
  <2> QED
    BY <2>1 DEF LineTrue, ConvOf
<1>3. \A i \in DOMAIN messages' : (RowTrue(i))'
  <2> SUFFICES ASSUME NEW i \in DOMAIN messages PROVE (RowTrue(i))'
    OBVIOUS
  <2>1. RowTrue(i)
    BY DEF IInv, Stored
  <2> QED
    BY <2>1 DEF RowTrue
<1>4. ToldStays'
  BY DEF IInv, Stored, ToldStays, told
<1> QED
  BY <1>1, <1>2, <1>3, <1>4 DEF Stored

---------------------------------------------------------------------------
(* What is under way. *)

\* It stays true of a server that forgets nothing.
LEMMA StaysTrue ==
  ASSUME DOMAIN box \subseteq DOMAIN box', \A i \in DOMAIN box : box'[i] = box[i],
         gone \subseteq gone', seen \subseteq seen',
         NEW e, TrueAnswer(e)
  PROVE  (TrueAnswer(e))'
<1>1. \A k \in DOMAIN ListOf(e) : (TrueCopy(ListOf(e)[k]))'
  BY DEF TrueAnswer, TrueCopy
<1>2. ASSUME e.op = "dialogs", NEW p \in DOMAIN e.latest
      PROVE  e.latest[p] \in DOMAIN box' /\ (ConvOf(e.latest[p]))' = p
  BY <1>2 DEF TrueAnswer, ConvOf
<1> QED
  BY <1>1, <1>2 DEF TrueAnswer

\* A part of it that is lost takes nothing from the rest.
LEMMA Loses ==
  ASSUME IInv, UNCHANGED <<box, gone, seen, told>>, coming' \in Seq(Answer),
         \A n \in DOMAIN coming' : n \in DOMAIN coming /\ coming'[n] = coming[n]
  PROVE  OnTheWay'
<1>1. coming \in Seq(Answer) /\ coming' \in Seq(Answer)
  BY Types DEF IInv
<1>2. \A n \in DOMAIN coming' : (TrueAnswer(coming[n]))'
  <2> SUFFICES ASSUME NEW n \in DOMAIN coming' PROVE (TrueAnswer(coming[n]))'
    OBVIOUS
  <2>1. PICK e : e = coming[n]
    OBVIOUS
  <2>2. TrueAnswer(e) /\ coming'[n] = e
    BY <2>1 DEF IInv, OnTheWay
  <2>3. (TrueAnswer(e))'
    BY <2>2, StaysTrue
  <2> QED
    BY <2>2, <2>3
<1>3. \A n \in DOMAIN coming' : \A j \in 1..(n - 1) : j \in DOMAIN coming'
  BY <1>1
<1> QED
  BY <1>2, <1>3 DEF IInv, OnTheWay, UpToDate, InView, told

\* What is taken from its head has been told from then on.
LEMMA Takes ==
  ASSUME IInv, coming # <<>>, coming' = Tail(coming), UNCHANGED <<box, gone, seen>>,
         \A i \in toldGone' : i \in toldGone \/ (Head(coming).op = "deleted" /\ i = Head(coming).id),
         \A i \in toldRead' : i \in toldRead \/ (Head(coming).op = "read" /\ i = Head(coming).id)
  PROVE  coming' \in Seq(Answer) /\ OnTheWay'
<1>1. coming \in Seq(Answer) /\ coming' \in Seq(Answer) /\ Head(coming) = coming[1]
      /\ 1 \in DOMAIN coming
  BY Types DEF IInv
<1>2. \A n \in DOMAIN coming' : n + 1 \in DOMAIN coming /\ coming'[n] = coming[n + 1]
                                /\ 1 \in 1..((n + 1) - 1)
                                /\ \A j \in 1..(n - 1) : j + 1 \in 1..((n + 1) - 1) /\ j \in DOMAIN coming'
  BY <1>1
<1>3. \A n \in DOMAIN coming' : (TrueAnswer(coming[n]))'
  <2> SUFFICES ASSUME NEW n \in DOMAIN coming' PROVE (TrueAnswer(coming[n]))'
    OBVIOUS
  <2>1. PICK e : e = coming'[n]
    OBVIOUS
  <2>2. TrueAnswer(e)
    <3>1. n + 1 \in DOMAIN coming /\ e = coming[n + 1]
      BY <1>2, <2>1
    <3> QED
      BY <3>1 DEF IInv, OnTheWay
  <2>3. (TrueAnswer(e))'
    BY <2>2, StaysTrue
  <2> QED
    BY <2>1, <2>3
<1>4. toldGone' \subseteq gone' /\ toldRead' \subseteq seen'
  BY <1>1 DEF IInv, OnTheWay, TrueAnswer
<1>5. ASSUME NEW n \in DOMAIN coming', NEW k \in DOMAIN ListOf(coming'[n])
      PROVE  /\ (UpToDate(ListOf(coming[n])[k]))'
             /\ \A j \in 1..(n - 1) : InView(coming'[j], ListOf(coming'[n])[k])
  <2>1. PICK e : e = coming'[n]
    OBVIOUS
  <2>2. PICK m : m = ListOf(e)[k]
    OBVIOUS
  <2>3. n + 1 \in DOMAIN coming /\ e = coming[n + 1]
    BY <1>2, <2>1
  <2>4. k \in DOMAIN ListOf(e)
    BY <2>1
  <2>5. UpToDate(m) /\ \A j \in 1..((n + 1) - 1) : InView(coming[j], m)
    BY <2>2, <2>3, <2>4 DEF IInv, OnTheWay
  <2>6. InView(Head(coming), m)
    BY <1>1, <1>2, <2>5
  <2>7. m.id \notin toldGone' /\ (m.id \in toldRead' => m.read)
    BY <2>5, <2>6 DEF UpToDate, InView
  <2>8. \A j \in 1..(n - 1) : InView(coming'[j], m)
    BY <1>2, <2>5
  <2> QED
    BY <2>1, <2>2, <2>7, <2>8 DEF UpToDate
<1> QED
  BY <1>1, <1>3, <1>4, <1>5 DEF OnTheWay

\* The server sends nothing that has been told to be otherwise, and if it tells more it
\* does so behind what is under way.
LEMMA Sends ==
  ASSUME IInv, NEW e \in Answer, coming' = coming \/ coming' = Append(coming, e), UNCHANGED told,
         DOMAIN box \subseteq DOMAIN box', \A i \in DOMAIN box : box'[i] = box[i],
         gone \subseteq gone', seen \subseteq seen', (TrueAnswer(e))',
         \A k \in DOMAIN ListOf(e) :
           ListOf(e)[k].id \notin gone /\ (ListOf(e)[k].id \in seen => ListOf(e)[k].read)
  PROVE  coming' \in Seq(Answer) /\ OnTheWay'
<1>1. coming \in Seq(Answer)
  BY Types DEF IInv
<1>2. PICK len \in Nat : len = Len(coming) /\ DOMAIN coming = 1..len
  BY <1>1
<1>3. coming' \in Seq(Answer)
  BY <1>1
<1>4. \A n \in DOMAIN coming' :
        /\ \/ n \in 1..len /\ coming'[n] = coming[n]
           \/ n = len + 1 /\ coming'[n] = e
        /\ \A j \in 1..(n - 1) : j \in 1..len /\ coming'[j] = coming[j]
  BY <1>1, <1>2
<1>5. \A n \in DOMAIN coming' : (TrueAnswer(coming[n]))'
  <2> SUFFICES ASSUME NEW n \in DOMAIN coming' PROVE (TrueAnswer(coming[n]))'
    OBVIOUS
  <2>1. PICK d : d = coming'[n]
    OBVIOUS
  <2>2. TrueAnswer(d) \/ d = e
    BY <1>2, <1>4, <2>1 DEF IInv, OnTheWay
  <2>3. (TrueAnswer(d))'
    <3>1. CASE d = e
      BY <3>1
    <3>2. CASE TrueAnswer(d)
      BY <3>2, StaysTrue
    <3> QED
      BY <2>2, <3>1, <3>2
  <2> QED
    BY <2>1, <2>3
<1>6. toldGone' \subseteq gone' /\ toldRead' \subseteq seen'
  BY DEF IInv, OnTheWay, told
<1>7. ASSUME NEW n \in DOMAIN coming', NEW k \in DOMAIN ListOf(coming'[n])
      PROVE  /\ (UpToDate(ListOf(coming[n])[k]))'
             /\ \A j \in 1..(n - 1) : InView(coming'[j], ListOf(coming'[n])[k])
  <2>1. PICK d : d = coming'[n]
    OBVIOUS
  <2>2. PICK m : m = ListOf(d)[k]
    OBVIOUS
  <2>3. k \in DOMAIN ListOf(d)
    BY <2>1
  <2>4. UpToDate(m) /\ \A j \in 1..(n - 1) : InView(coming[j], m)
    <3>1. CASE n \in 1..len /\ d = coming[n]
      BY <1>2, <2>2, <2>3, <3>1 DEF IInv, OnTheWay
    <3>2. CASE d = e
      <4>1. m.id \notin gone /\ (m.id \in seen => m.read)
        BY <2>2, <2>3, <3>2
      <4>2. UpToDate(m)
        BY <4>1 DEF UpToDate, IInv, OnTheWay
      <4>3. \A j \in 1..len : InView(coming[j], m)
        BY <1>2, <4>1 DEF InView, IInv, OnTheWay, TrueAnswer
      <4> QED
        BY <1>4, <4>2, <4>3
    <3> QED
      BY <1>4, <2>1, <3>1, <3>2
  <2>5. (UpToDate(m))'
    BY <2>4 DEF UpToDate, told
  <2>6. \A j \in 1..(n - 1) : InView(coming'[j], m)
    BY <1>4, <2>4
  <2> QED
    BY <2>1, <2>2, <2>5, <2>6
<1> QED
  BY <1>3, <1>5, <1>6, <1>7 DEF OnTheWay

---------------------------------------------------------------------------
(* What the user does. *)

\* What is under way stays, and so do the tables.
LEMMA Same ==
  ASSUME IInv
  PROVE  /\ UNCHANGED <<messages, contacts, box, told>> => TablesOK' /\ Stored'
         /\ UNCHANGED <<coming, box, gone, seen, told>> => coming' \in Seq(Answer) /\ OnTheWay'
<1>1. ASSUME UNCHANGED <<messages, contacts, box, told>> PROVE TablesOK' /\ Stored'
  <2>1. BoxOK'
    BY <1>1 DEF IInv, Stored, BoxOK
  <2> QED
    BY <1>1, <2>1, Grows
<1>2. ASSUME UNCHANGED <<coming, box, gone, seen, told>>
      PROVE  coming' \in Seq(Answer) /\ OnTheWay'
  <2>1. coming' \in Seq(Answer)
    BY <1>2, Types DEF IInv
  <2> QED
    BY <1>2, <2>1, Loses
<1> QED
  BY <1>1, <1>2

\* The parts of IInv put together.
LEMMA Together ==
  ASSUME IInv, TablesOK', Stored', OnTheWay', coming' \in Seq(Answer), asked' \in Seq(Request),
         net' \in {"off", "online", "cut"}, DOMAIN box' \subseteq Ids,
         gone' \subseteq DOMAIN box', seen' \subseteq DOMAIN box',
         mine' \subseteq (DOMAIN box') \X Acknowledgements, runs' \in Nat, deeds' \in Nat
  PROVE  IInv'
<1>1. toldGone' \subseteq gone' /\ toldRead' \subseteq seen'
  BY DEF OnTheWay
<1>2. TypeOK'
  BY <1>1 DEF TypeOK, TablesOK, RowSet, LineSet
<1> QED
  BY <1>2 DEF IInv

\* The other variables.
LEMMA Others ==
  ASSUME IInv
  PROVE  /\ net \in {"off", "online", "cut"} /\ DOMAIN box \subseteq Ids
         /\ gone \subseteq DOMAIN box /\ seen \subseteq DOMAIN box
         /\ mine \subseteq (DOMAIN box) \X Acknowledgements
         /\ runs \in Nat /\ deeds \in Nat /\ runs + 1 \in Nat /\ deeds + 1 \in Nat
         /\ asked \in Seq(Request) /\ coming \in Seq(Answer)
         /\ contacts \in [DOMAIN contacts -> LineSet] /\ DOMAIN contacts \subseteq Peers
         /\ messages \in [DOMAIN messages -> RowSet] /\ DOMAIN messages \subseteq Ids \cup Notes
<1>1. TypeOK
  BY DEF IInv
<1>2. /\ net \in {"off", "online", "cut"} /\ DOMAIN box \subseteq Ids
      /\ gone \subseteq DOMAIN box /\ seen \subseteq DOMAIN box
  BY <1>1 DEF TypeOK
<1>3. mine \subseteq (DOMAIN box) \X Acknowledgements
  BY <1>1, Types
<1>4. runs \in Nat /\ deeds \in Nat /\ runs + 1 \in Nat /\ deeds + 1 \in Nat
  BY <1>1 DEF TypeOK
<1> QED
  BY <1>1, <1>2, <1>3, <1>4, Types

\* What has been sent is still at the server when it has more.
LEMMA SentStays ==
  ASSUME IInv, DOMAIN box \subseteq DOMAIN box'
  PROVE  mine \subseteq (DOMAIN box') \X Acknowledgements
<1>1. mine \subseteq (DOMAIN box) \X Acknowledgements
  BY Others
<1> QED
  BY <1>1

\* A request is written or lost.
LEMMA Asks ==
  ASSUME IInv, NEW r \in Request, Ask(r)
  PROVE  asked' \in Seq(Request)
<1>1. asked \in Seq(Request)
  BY Others
<1> QED
  BY <1>1 DEF Ask

\* The requests.
LEMMA Requests ==
  /\ [op |-> "dialogs"] \in Request /\ [op |-> "contacts"] \in Request
  /\ \A p \in Peers : [op |-> "send", peer |-> p] \in Request
  /\ \A p \in Peers : [op |-> "clear", peer |-> p] \in Request
  /\ \A p \in Peers, n \in Nat : [op |-> "history", peer |-> p, offset |-> n] \in Request
  /\ \A i \in Ids \cup Notes : [op |-> "get", id |-> i] \in Request
  /\ \A i \in Ids \cup Notes : [op |-> "delete", id |-> i] \in Request
  /\ \A i \in Ids \cup Notes, p \in Peers : [op |-> "forward", id |-> i, peer |-> p] \in Request
  BY DEF Request

\* The rows a page shows are finitely many.
LEMMA ShownFinite ==
  ASSUME IInv, NEW p
  PROVE  Cardinality(Shown(p)) \in Nat
<1>1. IsFiniteSet(Ids \cup Notes)
  BY NumbersAssumption, FS_Union
<1>2. Shown(p) \subseteq Ids \cup Notes
  BY Types DEF IInv, Shown
<1>3. IsFiniteSet(Shown(p))
  BY <1>1, <1>2, FS_Subset
<1> QED
  BY <1>3, FS_CardinalityType

\* Steps that only ask.
LEMMA OnlyAsks ==
  ASSUME IInv, NEW r \in Request, Ask(r), deeds' \in Nat,
         UNCHANGED <<net, tables, coming, server, told, mine, runs>>
  PROVE  IInv'
<1>1. asked' \in Seq(Request)
  BY Asks
<1>2. UNCHANGED <<net, messages, contacts, coming, box, gone, seen, told, mine, runs>>
  BY DEF tables, server
<1>3. TablesOK' /\ Stored' /\ coming' \in Seq(Answer) /\ OnTheWay'
  BY <1>2, Same
<1> QED
  BY <1>1, <1>2, <1>3, Together, Others

\* Steps that remove rows and ask.
LEMMA RemovesAndAsks ==
  ASSUME IInv, NEW G, messages' = RowsWithout(G), NEW r \in Request, Ask(r), deeds' \in Nat,
         DOMAIN contacts' \subseteq DOMAIN contacts, contacts' \in [DOMAIN contacts' -> LineSet],
         \A p \in DOMAIN contacts' : contacts'[p].latest = contacts[p].latest,
         UNCHANGED <<net, coming, server, told, mine, runs>>
  PROVE  IInv'
<1>1. asked' \in Seq(Request)
  BY Asks
<1>2. UNCHANGED <<net, coming, box, gone, seen, told, mine, runs>>
  BY DEF server
<1>3. toldGone' \subseteq toldGone \cup G /\ UNCHANGED <<box, toldRead>>
  BY <1>2 DEF told
<1>4. TablesOK' /\ Stored'
  BY <1>3, Removes
<1>5. coming' \in Seq(Answer) /\ OnTheWay'
  BY <1>2, Same
<1> QED
  BY <1>1, <1>2, <1>4, <1>5, Together, Others

\* Start, and the requests of a page.
LEMMA UserAsks ==
  ASSUME IInv, NEW p \in Peers
  PROVE  /\ LoadMore(p) => IInv'
         /\ SendMessage(p) => IInv'
         /\ \A i \in DOMAIN messages : ForwardMessage(i, p) => IInv'
<1>1. ASSUME LoadMore(p) PROVE IInv'
  <2>1. PICK r : r = [op |-> "history", peer |-> p, offset |-> Cardinality(Shown(p))]
    OBVIOUS
  <2>2. r \in Request
    BY <2>1, Requests, ShownFinite
  <2> QED
    BY <1>1, <2>1, <2>2, OnlyAsks, Others DEF LoadMore, Deed
<1>2. ASSUME SendMessage(p) PROVE IInv'
  <2>1. PICK r : r = [op |-> "send", peer |-> p]
    OBVIOUS
  <2>2. r \in Request
    BY <2>1, Requests
  <2> QED
    BY <1>2, <2>1, <2>2, OnlyAsks, Others DEF SendMessage, Deed
<1>3. ASSUME NEW i \in DOMAIN messages, ForwardMessage(i, p) PROVE IInv'
  <2>1. PICK r : r = [op |-> "forward", id |-> i, peer |-> p]
    OBVIOUS
  <2>2. i \in Ids \cup Notes
    BY Others
  <2>3. r \in Request
    BY <2>1, <2>2, Requests
  <2> QED
    BY <1>3, <2>1, <2>3, OnlyAsks, Others DEF ForwardMessage, Deed
<1> QED
  BY <1>1, <1>2, <1>3

\* The program starts.
LEMMA Starts == ASSUME IInv, Start PROVE IInv'
<1>1. /\ net' = "online" /\ asked' = <<[op |-> "dialogs"], [op |-> "contacts"]>>
      /\ UNCHANGED <<messages, contacts, coming, box, gone, seen, told, mine, runs, deeds>>
  BY DEF Start, tables, server
<1>2. asked' \in Seq(Request)
  BY <1>1, Requests
<1>3. TablesOK' /\ Stored' /\ coming' \in Seq(Answer) /\ OnTheWay'
  BY <1>1, Same
<1> QED
  BY <1>1, <1>2, <1>3, Together, Others

\* A page that is opened, and what the user deletes.
LEMMA UserRemoves ==
  ASSUME IInv, NEW p \in Peers
  PROVE  /\ OpenPage(p) => IInv'
         /\ ClearContactHistory(p) => IInv'
<1>1. ASSUME OpenPage(p) PROVE IInv'
  <2>1. PICK r : r = [op |-> "history", peer |-> p, offset |-> 0]
    OBVIOUS
  <2>2. r \in Request
    BY <2>1, Requests
  <2>3. p \in DOMAIN contacts /\ deeds' \in Nat /\ Ask(r)
        /\ UNCHANGED <<net, coming, server, told, mine, runs>>
    BY <1>1, <2>1, Others DEF OpenPage, Deed
  <2>4. CASE UNCHANGED tables
    BY <2>2, <2>3, <2>4, OnlyAsks
  <2>5. CASE messages' = RowsWithout(OfFreshPage(p)) /\ contacts' = [contacts EXCEPT ![p].init = FALSE]
    <3>1. DOMAIN contacts' = DOMAIN contacts
      BY <2>5
    <3>2. \A q \in DOMAIN contacts : contacts'[q] \in LineSet /\ contacts'[q].latest = contacts[q].latest
      <4> SUFFICES ASSUME NEW q \in DOMAIN contacts
                   PROVE  contacts'[q] \in LineSet /\ contacts'[q].latest = contacts[q].latest
        OBVIOUS
      <4>1. contacts[q] \in LineSet
        BY Others
      <4>2. CASE q = p
        <5>1. contacts'[q] = [contacts[q] EXCEPT !.init = FALSE]
          BY <2>5, <4>2
        <5> QED
          BY <4>1, <5>1 DEF LineSet
      <4>3. CASE q # p
        BY <2>5, <4>1, <4>3
      <4> QED
        BY <4>2, <4>3
    <3>3. contacts' \in [DOMAIN contacts' -> LineSet]
      BY <2>5, <3>1, <3>2
    <3> QED
      BY <2>2, <2>3, <2>5, <3>1, <3>2, <3>3, RemovesAndAsks
  <2> QED
    BY <1>1, <2>4, <2>5 DEF OpenPage
<1>2. ASSUME ClearContactHistory(p) PROVE IInv'
  <2>1. PICK r : r = [op |-> "clear", peer |-> p]
    OBVIOUS
  <2>2. r \in Request
    BY <2>1, Requests
  <2>3. contacts' \in [DOMAIN contacts' -> LineSet]
    BY <1>2, Others DEF ClearContactHistory
  <2> QED
    BY <1>2, <2>1, <2>2, <2>3, RemovesAndAsks, Others DEF ClearContactHistory, Deed
<1> QED
  BY <1>1, <1>2

\* A message the user deletes.
LEMMA UserDeletesOne == ASSUME IInv, NEW i \in DOMAIN messages, UserDeletes(i) PROVE IInv'
<1>1. PICK r : r = [op |-> "delete", id |-> i]
  OBVIOUS
<1>2. r \in Request
  BY <1>1, Requests, Others
<1>3. contacts' \in [DOMAIN contacts' -> LineSet]
  BY Others DEF UserDeletes
<1> QED
  BY <1>1, <1>2, <1>3, RemovesAndAsks, Others DEF UserDeletes, DeleteMessage, Deed

\* A line that goes takes no row with it.
LEMMA LineGoes ==
  ASSUME IInv, NEW p, contacts' = ContactsWithout(p), UNCHANGED <<messages, box, told>>
  PROVE  TablesOK' /\ Stored'
<1>1. DOMAIN contacts' \subseteq DOMAIN contacts
      /\ \A q \in DOMAIN contacts' : contacts'[q] = contacts[q]
  BY DEF ContactsWithout
<1>2. contacts' \in [DOMAIN contacts' -> LineSet] /\ DOMAIN contacts' \subseteq Peers
  BY <1>1, Others DEF ContactsWithout
<1> QED
  BY <1>1, <1>2, Lists

\* A contact or a group that is deleted, and the note of a member.
LEMMA UserChanges ==
  ASSUME IInv
  PROVE  /\ \A p \in Peers : DeletePeer(p) => IInv'
         /\ \A c \in Chats, n \in Notes : NoteMember(c, n) => IInv'
<1>1. ASSUME NEW p \in Peers, DeletePeer(p) PROVE IInv'
  <2>1. /\ contacts' = ContactsWithout(p) /\ deeds' = deeds + 1
        /\ UNCHANGED <<net, messages, asked, coming, box, gone, seen, told, mine, runs>>
    BY <1>1 DEF DeletePeer, Deed, server
  <2>2. TablesOK' /\ Stored'
    BY <2>1, LineGoes
  <2>3. coming' \in Seq(Answer) /\ OnTheWay'
    BY <2>1, Same
  <2> QED
    BY <2>1, <2>2, <2>3, Together, Others
<1>2. ASSUME NEW c \in Chats, NEW n \in Notes, NoteMember(c, n) PROVE IInv'
  <2>1. PICK from \in {c, None} :
          InsertMessage([id |-> n, from |-> from, to |-> c, kind |-> "text", read |-> FALSE])
    BY <1>2 DEF NoteMember
  <2>2. PICK m : m = [id |-> n, from |-> from, to |-> c, kind |-> "text", read |-> FALSE]
    OBVIOUS
  <2>3. PICK list : list = <<m>>
    OBVIOUS
  <2>4. InsertMessages(list) /\ DOMAIN list = 1..1 /\ list[1] = m
    BY <2>1, <2>2, <2>3 DEF InsertMessage
  <2>5. Insertable(m)
    BY <2>2 DEF Insertable, NoteCopy
  <2>6. deeds' = deeds + 1 /\ UNCHANGED <<net, asked, coming, box, gone, seen, told, mine, runs>>
    BY <1>2 DEF NoteMember, Deed, server
  <2>7. TablesOK' /\ Stored'
    <3>1. 1 \in Nat /\ \A k \in 1..1 : Insertable(list[k])
      BY <2>4, <2>5
    <3>2. UNCHANGED <<box, told>>
      BY <2>6
    <3> QED
      BY <2>4, <3>1, <3>2, Inserts
  <2>8. coming' \in Seq(Answer) /\ OnTheWay'
    BY <2>6, Same
  <2> QED
    BY <2>6, <2>7, <2>8, Together, Others
<1> QED
  BY <1>1, <1>2

\* The program ends, the user logs out.
LEMMA Ends == ASSUME IInv, Exit PROVE IInv'
<1>1. /\ net' = "off" /\ runs' = runs + 1 /\ asked' = <<>> /\ coming' = <<>> /\ mine' = {}
      /\ UNCHANGED <<box, gone, seen, told, deeds>>
  BY DEF Exit, server
<1>2. <<>> \in Seq(Answer) /\ <<>> \in Seq(Request) /\ DOMAIN <<>> = {}
  OBVIOUS
<1>3. coming' \in Seq(Answer) /\ OnTheWay'
  BY <1>1, <1>2, Loses
<1>4. TablesOK' /\ Stored'
  <2>1. CASE UNCHANGED tables
    BY <1>1, <2>1, Same DEF tables
  <2>2. CASE messages' = <<>> /\ contacts' = <<>>
    <3>1. DOMAIN messages' = {} /\ DOMAIN contacts' = {}
      BY <1>2, <2>2
    <3>2. messages' \in [DOMAIN messages' -> RowSet] /\ contacts' \in [DOMAIN contacts' -> LineSet]
      BY <2>2, <3>1
    <3>3. BoxOK'
      BY <1>1 DEF IInv, Stored, BoxOK
    <3> QED
      BY <3>1, <3>2, <3>3 DEF TablesOK, Stored, ToldStays
  <2> QED
    BY <2>1, <2>2 DEF Exit
<1> QED
  BY <1>1, <1>2, <1>3, <1>4, Together, Others

---------------------------------------------------------------------------
(* What arrives. *)

\* What came first is an answer, true, and what it inserts may be inserted.
LEMMA First ==
  ASSUME IInv, coming # <<>>
  PROVE  /\ Event \in Answer /\ TrueAnswer(Event)
         /\ \E len \in Nat : /\ DOMAIN ListOf(Event) = 1..len
                             /\ \A k \in 1..len : Insertable(ListOf(Event)[k])
<1>1. coming \in Seq(Answer) /\ 1 \in DOMAIN coming /\ Head(coming) = coming[1]
  BY Others
<1>2. PICK e : e = coming[1]
  OBVIOUS
<1>3. e \in Answer /\ Event = e
  BY <1>1, <1>2 DEF Event
<1>4. TrueAnswer(e) /\ \A k \in DOMAIN ListOf(e) : UpToDate(ListOf(e)[k])
  BY <1>1, <1>2 DEF IInv, OnTheWay
<1>5. PICK len \in Nat : DOMAIN ListOf(e) = 1..len
  BY <1>3, ListDomain
<1>6. \A k \in 1..len : Insertable(ListOf(e)[k])
  BY <1>4, <1>5 DEF TrueAnswer, Insertable
<1> QED
  BY <1>3, <1>4, <1>5, <1>6

\* What stays when an answer is taken.
LEMMA Taking ==
  ASSUME IInv, coming # <<>>, Taken, UNCHANGED <<told, Elsewhere>>,
         asked' \in Seq(Request), TablesOK', Stored'
  PROVE  IInv'
<1>1. UNCHANGED <<net, box, gone, seen, told, mine, runs, deeds>>
  BY DEF Elsewhere, server
<1>2. toldGone' = toldGone /\ toldRead' = toldRead
  BY DEF told
<1>3. coming' \in Seq(Answer) /\ OnTheWay'
  BY <1>1, <1>2, Takes DEF Taken
<1> QED
  BY <1>1, <1>3, Together, Others

\* The four that insert messages.
LEMMA Inserting ==
  ASSUME IInv, coming # <<>>, Taken, InsertMessages(ListOf(Event)), UNCHANGED <<asked, told, Elsewhere>>
  PROVE  IInv'
<1>1. PICK len \in Nat : DOMAIN ListOf(Event) = 1..len /\ \A k \in 1..len : Insertable(ListOf(Event)[k])
  BY First
<1>2. PICK list : list = ListOf(Event)
  OBVIOUS
<1>3. DOMAIN list = 1..len /\ (\A k \in 1..len : Insertable(list[k])) /\ InsertMessages(list)
  BY <1>1, <1>2
<1>4. UNCHANGED <<box, told>>
  BY DEF Elsewhere, server
<1>5. TablesOK' /\ Stored'
  BY <1>3, <1>4, Inserts
<1>6. asked' \in Seq(Request) /\ UNCHANGED <<told, Elsewhere>>
  BY Others
<1> QED
  BY <1>5, <1>6, Taking

\* They insert what ListOf says of them.
LEMMA InsertsItsList ==
  OnMessages \/ OnNewMessage \/ OnUpdateShortMessage \/ OnUpdateShortChatMessage
    => /\ coming # <<>> /\ Taken /\ UNCHANGED <<asked, told, Elsewhere>>
       /\ InsertMessages(ListOf(Event))
<1>1. ASSUME OnMessages PROVE InsertMessages(ListOf(Event))
  <2>1. ListOf(Event) = Event.list
    BY <1>1 DEF OnMessages, Arrives, Event, ListOf
  <2> QED
    BY <1>1, <2>1 DEF OnMessages
<1>2. ASSUME OnNewMessage PROVE InsertMessages(ListOf(Event))
  <2>1. ListOf(Event) = <<Event.message>>
    BY <1>2 DEF OnNewMessage, Arrives, Event, ListOf
  <2> QED
    BY <1>2, <2>1 DEF OnNewMessage, InsertMessage
<1>3. ASSUME OnUpdateShortMessage PROVE InsertMessages(ListOf(Event))
  <2>1. ListOf(Event) = <<[id |-> Event.id, from |-> Event.from, to |-> None,
                           kind |-> "text", read |-> FALSE]>>
    BY <1>3 DEF OnUpdateShortMessage, Arrives, Event, ListOf
  <2> QED
    BY <1>3, <2>1 DEF OnUpdateShortMessage, InsertMessage
<1>4. ASSUME OnUpdateShortChatMessage PROVE InsertMessages(ListOf(Event))
  <2>1. ListOf(Event) = <<[id |-> Event.id, from |-> Event.from, to |-> Event.chat,
                           kind |-> "text", read |-> TRUE]>>
    BY <1>4 DEF OnUpdateShortChatMessage, Arrives, Event, ListOf
  <2> QED
    BY <1>4, <2>1 DEF OnUpdateShortChatMessage, InsertMessage
<1>5. OnMessages \/ OnNewMessage \/ OnUpdateShortMessage \/ OnUpdateShortChatMessage
        => coming # <<>> /\ Taken /\ UNCHANGED <<asked, told, Elsewhere>>
  BY DEF OnMessages, OnNewMessage, OnUpdateShortMessage, OnUpdateShortChatMessage, Arrives
<1> QED
  BY <1>1, <1>2, <1>3, <1>4, <1>5

\* Answers and updates with messages.
LEMMA MessagesCome ==
  ASSUME IInv
  PROVE  /\ OnMessages => IInv'
         /\ OnNewMessage => IInv'
         /\ OnUpdateShortMessage => IInv'
         /\ OnUpdateShortChatMessage => IInv'
  BY InsertsItsList, Inserting

\* Those that only ask for more.
LEMMA AnswersAsk ==
  ASSUME IInv
  PROVE  /\ OnSentMessage => IInv'
         /\ OnChatParticipants => IInv'
<1>1. ASSUME coming # <<>>, Taken, NEW r \in Request, Ask(r), UNCHANGED <<tables, told, Elsewhere>>
      PROVE  IInv'
  <2>1. asked' \in Seq(Request)
    BY <1>1, Asks
  <2>2. UNCHANGED <<messages, contacts, box, told>>
    BY <1>1 DEF tables, Elsewhere, server
  <2>3. TablesOK' /\ Stored'
    BY <2>2, Same
  <2>4. UNCHANGED <<told, Elsewhere>>
    BY <1>1
  <2> QED
    BY <1>1, <2>1, <2>3, <2>4, Taking
<1>2. ASSUME OnSentMessage PROVE IInv'
  <2>1. Event.id \in Ids
    BY <1>2, First, AnswerKinds DEF OnSentMessage, Arrives, Event
  <2>2. [op |-> "get", id |-> Event.id] \in Request
    BY <2>1, Requests
  <2> QED
    BY <1>1, <1>2, <2>2 DEF OnSentMessage, Arrives
<1>3. ASSUME OnChatParticipants PROVE IInv'
  <2>1. [op |-> "dialogs"] \in Request
    BY Requests
  <2> QED
    BY <1>1, <1>3, <2>1 DEF OnChatParticipants, Arrives
<1> QED
  BY <1>2, <1>3

\* An update that a message is read.
LEMMA ReadsCome == ASSUME IInv, OnReadMessages PROVE IInv'
<1>1. /\ coming # <<>> /\ Taken /\ Event.op = "read"
      /\ toldRead' = toldRead \cup {Event.id} /\ toldGone' = toldGone
      /\ UNCHANGED <<net, asked, contacts, box, gone, seen, mine, runs, deeds>>
  BY DEF OnReadMessages, Arrives, Event, Elsewhere, server
<1>2. PICK i : i = Event.id
  OBVIOUS
<1>3. /\ messages' = [j \in DOMAIN messages |->
                        IF j = i THEN [messages[j] EXCEPT !.read = TRUE] ELSE messages[j]]
      /\ toldRead' = toldRead \cup {i} /\ UNCHANGED <<contacts, box, toldGone>>
  BY <1>1, <1>2 DEF OnReadMessages
<1>4. TablesOK' /\ Stored'
  BY <1>3, Marks
<1>5. coming' \in Seq(Answer) /\ OnTheWay'
  BY <1>1, Takes DEF Taken, Event
<1> QED
  BY <1>1, <1>4, <1>5, Together, Others

\* An update that a message is deleted.
LEMMA DeletesCome == ASSUME IInv, OnDeleteMessages PROVE IInv'
<1>1. /\ coming # <<>> /\ Taken /\ Event.op = "deleted"
      /\ messages' = RowsWithout({Event.id}) /\ Ask([op |-> "delete", id |-> Event.id])
      /\ toldGone' = toldGone \cup {Event.id} /\ toldRead' = toldRead
      /\ UNCHANGED <<net, contacts, box, gone, seen, mine, runs, deeds>>
  BY DEF OnDeleteMessages, DeleteMessage, Arrives, Event, Elsewhere, server
<1>2. Event.id \in Ids
  BY <1>1, First, AnswerKinds
<1>3. [op |-> "delete", id |-> Event.id] \in Request
  BY <1>2, Requests
<1>4. asked' \in Seq(Request)
  BY <1>1, <1>3, Asks
<1>5. contacts' \in [DOMAIN contacts' -> LineSet]
  BY <1>1, Others
<1>6. TablesOK' /\ Stored'
  BY <1>1, <1>5, Removes
<1>7. coming' \in Seq(Answer) /\ OnTheWay'
  BY <1>1, Takes DEF Taken, Event
<1> QED
  BY <1>1, <1>4, <1>6, <1>7, Together, Others

\* Those that change the list of conversations.
LEMMA ListsCome ==
  ASSUME IInv
  PROVE  /\ OnContactLink => IInv'
         /\ OnDialogs => IInv'
         /\ OnContacts => IInv'
<1>1. ASSUME coming # <<>>, Taken, UNCHANGED <<messages, asked, told, Elsewhere>>,
             TablesOK', Stored'
      PROVE  IInv'
  <2>1. asked' \in Seq(Request) /\ UNCHANGED <<told, Elsewhere>>
    BY <1>1, Others
  <2> QED
    BY <1>1, <2>1, Taking
<1>2. ASSUME OnContactLink PROVE IInv'
  <2>1. coming # <<>> /\ Taken /\ UNCHANGED <<messages, asked, told, Elsewhere>>
        /\ contacts' = ContactsWithout(Event.user)
    BY <1>2 DEF OnContactLink, Arrives
  <2>2. UNCHANGED <<messages, box, told>>
    BY <2>1 DEF Elsewhere, server
  <2>3. TablesOK' /\ Stored'
    BY <2>1, <2>2, LineGoes
  <2> QED
    BY <1>1, <2>1, <2>3
<1>3. ASSUME OnDialogs PROVE IInv'
  <2>1. coming # <<>> /\ Event.op = "dialogs" /\ Taken
        /\ UNCHANGED <<messages, asked, told, Elsewhere>>
    BY <1>3 DEF OnDialogs, Arrives, Event
  <2>2. UNCHANGED <<messages, box, told>>
    BY <2>1 DEF Elsewhere, server
  <2>3. Event \in Answer /\ TrueAnswer(Event)
    BY <2>1, First
  <2>4. DOMAIN Event.latest \subseteq Peers /\ \A p \in DOMAIN Event.latest : Event.latest[p] \in Ids
    BY <2>1, <2>3, AnswerKinds
  <2>5. \A p \in DOMAIN Event.latest : Event.latest[p] \in DOMAIN box /\ ConvOf(Event.latest[p]) = p
    BY <2>1, <2>3 DEF TrueAnswer
  <2>6. contacts' = [p \in DOMAIN contacts \cup DOMAIN Event.latest |->
                    IF p \in DOMAIN Event.latest \ (DOMAIN contacts \cap Chats)
                      THEN [latest |-> Event.latest[p], init |-> TRUE] ELSE contacts[p]]
    BY <1>3 DEF OnDialogs
  <2>7. \A p \in DOMAIN contacts' :
          \/ p \in DOMAIN Event.latest /\ contacts'[p] = [latest |-> Event.latest[p], init |-> TRUE]
          \/ p \in DOMAIN contacts /\ contacts'[p] = contacts[p]
    BY <2>6
  <2>8. DOMAIN contacts' \subseteq Peers
    BY <2>4, <2>6, Others
  <2>9. \A p \in DOMAIN contacts' : contacts'[p] \in LineSet
    <3> SUFFICES ASSUME NEW p \in DOMAIN contacts' PROVE contacts'[p] \in LineSet
      OBVIOUS
    <3>1. CASE p \in DOMAIN Event.latest /\ contacts'[p] = [latest |-> Event.latest[p], init |-> TRUE]
      BY <2>4, <3>1 DEF LineSet
    <3>2. CASE p \in DOMAIN contacts /\ contacts'[p] = contacts[p]
      BY <3>2, Others
    <3> QED
      BY <2>7, <3>1, <3>2
  <2>10. contacts' \in [DOMAIN contacts' -> LineSet]
    BY <2>6, <2>9
  <2>11. TablesOK' /\ Stored'
    <3>1. \A p \in DOMAIN contacts' :
            \/ p \in DOMAIN contacts /\ contacts'[p].latest = contacts[p].latest
            \/ contacts'[p].latest \in DOMAIN box /\ ConvOf(contacts'[p].latest) = p
      BY <2>5, <2>7
    <3> QED
      BY <2>2, <2>8, <2>10, <3>1, Lists
  <2> QED
    BY <1>1, <2>1, <2>11
<1>4. ASSUME OnContacts PROVE IInv'
  <2>1. coming # <<>> /\ Taken /\ UNCHANGED <<messages, asked, told, Elsewhere>>
        /\ contacts' = [p \in Contacts |-> [latest |-> None, init |-> FALSE]]
    BY <1>4 DEF OnContacts, Arrives
  <2>2. UNCHANGED <<messages, box, told>>
    BY <2>1 DEF Elsewhere, server
  <2>3. DOMAIN contacts' \subseteq Peers
    BY <2>1, PeersAssumption DEF Peers
  <2>4. contacts' \in [DOMAIN contacts' -> LineSet]
    BY <2>1 DEF LineSet
  <2>5. \A p \in DOMAIN contacts' : contacts'[p].latest = None
    BY <2>1
  <2>6. TablesOK' /\ Stored'
    BY <2>2, <2>3, <2>4, <2>5, Lists
  <2> QED
    BY <1>1, <2>1, <2>6
<1> QED
  BY <1>2, <1>3, <1>4

---------------------------------------------------------------------------
(* The server. *)

\* A message whose conversation is between the account and a user, or in a chat.
Between(from, to) ==
  \/ from \in Users \cup {Me} /\ to \in Chats
  \/ from = Me /\ to \in Users
  \/ from \in Users /\ to = Me
MessageKinds == {"text", "service"}

\* What a new message of the server changes, and what it leaves.
LEMMA Posts ==
  ASSUME IInv, NEW i \in Fresh, NEW from, NEW to, Between(from, to),
         NEW kind \in MessageKinds, Post(i, from, to, kind)
  PROVE  /\ i \in Ids /\ i \notin DOMAIN box /\ i \notin gone /\ i \notin seen
         /\ DOMAIN box' = DOMAIN box \cup {i} /\ DOMAIN box' \subseteq Ids
         /\ \A j \in DOMAIN box : box'[j] = box[j]
         /\ box'[i].from = from /\ box'[i].to = to
         /\ from \in Users \cup {Me} /\ to \in Peers \cup {Me}
         /\ BoxOK'
<1>1. i \in Ids /\ i \notin DOMAIN box
  BY DEF Fresh
<1>2. DOMAIN box \subseteq Ids /\ i \notin gone /\ i \notin seen
  BY <1>1, Others
<1>3. /\ DOMAIN box' = DOMAIN box \cup {i} /\ \A j \in DOMAIN box : box'[j] = box[j]
      /\ box'[i] = [from |-> from, to |-> to, kind |-> kind]
  BY <1>1 DEF Post
<1>4. from \in Users \cup {Me} /\ to \in Peers \cup {Me}
  BY DEF Between, Peers
<1>5. BoxOK'
  <2>1. BoxOK
    BY DEF IInv, Stored
  <2>2. ASSUME NEW j \in DOMAIN box'
        PROVE  /\ box'[j].from \in Users \cup {Me} /\ box'[j].kind \in {"text", "service"}
               /\ \/ box'[j].to \in Chats
                  \/ box'[j].from = Me /\ box'[j].to \in Users
                  \/ box'[j].from \in Users /\ box'[j].to = Me
    <3>1. CASE j = i
      BY <1>3, <1>4, <3>1 DEF Between, MessageKinds
    <3>2. CASE j \in DOMAIN box
      BY <1>3, <2>1, <3>2 DEF BoxOK
    <3> QED
      BY <1>3, <3>1, <3>2
  <2> QED
    BY <2>2 DEF BoxOK
<1> QED
  BY <1>1, <1>2, <1>3, <1>4, <1>5

\* What the server does with an answer or an update that says no more than it holds.
LEMMA ServerSteps ==
  ASSUME IInv, UNCHANGED <<tables, told>>,
         NEW e \in Answer, coming' = coming \/ coming' = Append(coming, e),
         DOMAIN box \subseteq DOMAIN box', \A i \in DOMAIN box : box'[i] = box[i], BoxOK',
         gone \subseteq gone', seen \subseteq seen', (TrueAnswer(e))',
         \A k \in DOMAIN ListOf(e) :
           ListOf(e)[k].id \notin gone /\ (ListOf(e)[k].id \in seen => ListOf(e)[k].read),
         net' = net, asked' \in Seq(Request), DOMAIN box' \subseteq Ids,
         gone' \subseteq DOMAIN box', seen' \subseteq DOMAIN box',
         mine' \subseteq (DOMAIN box') \X Acknowledgements, runs' = runs, deeds' \in Nat
  PROVE  IInv'
<1>1. UNCHANGED <<messages, contacts, told>>
  BY DEF tables
<1>2. TablesOK' /\ Stored'
  BY <1>1, Grows
<1>3. coming' \in Seq(Answer) /\ OnTheWay'
  BY Sends
<1> QED
  BY <1>2, <1>3, Together, Others

\* The same when it sends nothing that states a message.
LEMMA QuietSteps ==
  ASSUME IInv, UNCHANGED <<tables, told>>,
         NEW e \in Answer, coming' = coming \/ coming' = Append(coming, e),
         ListOf(e) = <<>>, e.op # "dialogs",
         e.op = "deleted" => e.id \in gone', e.op = "read" => e.id \in seen',
         DOMAIN box \subseteq DOMAIN box', \A i \in DOMAIN box : box'[i] = box[i], BoxOK',
         gone \subseteq gone', seen \subseteq seen',
         net' = net, asked' \in Seq(Request), DOMAIN box' \subseteq Ids,
         gone' \subseteq DOMAIN box', seen' \subseteq DOMAIN box',
         mine' \subseteq (DOMAIN box') \X Acknowledgements, runs' = runs, deeds' \in Nat
  PROVE  IInv'
<1>1. DOMAIN ListOf(e) = {}
  OBVIOUS
<1>2. (TrueAnswer(e))'
  BY <1>1 DEF TrueAnswer
<1> QED
  BY <1>1, <1>2, ServerSteps

\* An answer or an update that states one message which is new.
LEMMA NewMessage ==
  ASSUME IInv, NEW i \in Fresh, NEW from, NEW to, Between(from, to),
         NEW kind \in MessageKinds, Post(i, from, to, kind),
         NEW e \in Answer, coming' = coming \/ coming' = Append(coming, e),
         NEW m, ListOf(e) = <<m>>, e.op \notin {"dialogs", "deleted", "read"},
         m.id = i, m.from = from, m.to = to \/ (m.to = None /\ to = Me), m.read \in BOOLEAN,
         UNCHANGED <<net, tables, gone, seen, told, runs>>,
         mine' \subseteq (DOMAIN box') \X Acknowledgements, asked' \in Seq(Request), deeds' \in Nat
  PROVE  IInv'
<1>1. /\ i \in Ids /\ i \notin DOMAIN box /\ i \notin gone /\ i \notin seen
      /\ DOMAIN box' = DOMAIN box \cup {i} /\ DOMAIN box' \subseteq Ids
      /\ \A j \in DOMAIN box : box'[j] = box[j]
      /\ box'[i].from = from /\ box'[i].to = to
      /\ BoxOK'
  BY Posts
<1>2. DOMAIN ListOf(e) = {1} /\ ListOf(e)[1] = m
  OBVIOUS
<1>3. (TrueCopy(m))'
  BY <1>1 DEF TrueCopy
<1>4. (TrueAnswer(e))'
  BY <1>2, <1>3 DEF TrueAnswer
<1>5. gone' \subseteq DOMAIN box' /\ seen' \subseteq DOMAIN box'
  BY <1>1, Others
<1>6. \A k \in DOMAIN ListOf(e) :
        ListOf(e)[k].id \notin gone /\ (ListOf(e)[k].id \in seen => ListOf(e)[k].read)
  BY <1>1, <1>2
<1> QED
  BY <1>1, <1>4, <1>5, <1>6, ServerSteps

\* Someone writes.
LEMMA OthersWrite ==
  ASSUME IInv, NEW i \in Fresh, NEW from \in Peers \cup {Me}, NEW to \in Peers \cup {Me},
         NEW kind \in Kinds, from \notin Chats, SomeoneWrites(i, from, to, kind)
  PROVE  IInv'
<1>1. kind \in MessageKinds
  BY NumbersAssumption DEF MessageKinds
<1>2. Between(from, to)
  <2>1. from \in Users \cup {Me} /\ (to \in Chats \/ to \in Users \/ to = Me)
    BY DEF Peers
  <2>2. to \in Chats \/ (from = Me) # (to = Me)
    BY DEF SomeoneWrites
  <2> QED
    BY <2>1, <2>2 DEF Between
<1>3. /\ Post(i, from, to, kind) /\ deeds' = deeds + 1
      /\ UNCHANGED <<net, tables, asked, gone, seen, told, mine, runs>>
  BY DEF SomeoneWrites, Deed
<1>4. i \in Ids /\ DOMAIN box \subseteq DOMAIN box' /\ from \in Users \cup {Me}
  BY <1>1, <1>2, <1>3, Posts
<1>5. mine' \subseteq (DOMAIN box') \X Acknowledgements /\ asked' \in Seq(Request) /\ deeds' \in Nat
  <2>1. mine \subseteq (DOMAIN box') \X Acknowledgements
    BY <1>4, SentStays
  <2>2. asked' \in Seq(Request) /\ deeds' \in Nat
    BY <1>3, Others
  <2> QED
    BY <1>3, <2>1, <2>2
<1>6. CASE Push([op |-> "new",
                 message |-> [id |-> i, from |-> from, to |-> to, kind |-> kind, read |-> FALSE]])
  <2>1. PICK m : m = [id |-> i, from |-> from, to |-> to, kind |-> kind, read |-> FALSE]
    OBVIOUS
  <2>2. m \in Copy
    BY <1>1, <1>4, <2>1 DEF Copy, MessageKinds
  <2>3. PICK e : e = [op |-> "new", message |-> m]
    OBVIOUS
  <2>4. e \in Answer /\ e.op = "new"
    BY <2>2, <2>3 DEF Answer
  <2>5. ListOf(e) = <<m>>
    BY <2>3 DEF ListOf
  <2>6. coming' = coming \/ coming' = Append(coming, e)
    BY <1>6, <2>1, <2>3 DEF Push
  <2>7. m.id = i /\ m.from = from /\ m.to = to /\ m.read \in BOOLEAN
    BY <2>1
  <2> QED
    BY <1>1, <1>2, <1>3, <1>5, <2>4, <2>5, <2>6, <2>7, NewMessage
<1>7. CASE /\ from # Me /\ to = Me
           /\ Push([op |-> "shortMessage", id |-> i, from |-> from])
  <2>1. PICK m : m = [id |-> i, from |-> from, to |-> None, kind |-> "text", read |-> FALSE]
    OBVIOUS
  <2>2. PICK e : e = [op |-> "shortMessage", id |-> i, from |-> from]
    OBVIOUS
  <2>3. e \in Answer /\ e.op = "shortMessage"
    BY <1>4, <1>7, <2>2 DEF Answer
  <2>4. ListOf(e) = <<m>>
    BY <2>1, <2>2 DEF ListOf
  <2>5. coming' = coming \/ coming' = Append(coming, e)
    BY <1>7, <2>2 DEF Push
  <2>6. m.id = i /\ m.from = from /\ m.to = None /\ to = Me /\ m.read \in BOOLEAN
    BY <1>7, <2>1
  <2> QED
    BY <1>1, <1>2, <1>3, <1>5, <2>3, <2>4, <2>5, <2>6, NewMessage
<1>8. CASE /\ from # Me /\ to \in Chats
           /\ Push([op |-> "shortChatMessage", id |-> i, from |-> from, chat |-> to])
  <2>1. PICK m : m = [id |-> i, from |-> from, to |-> to, kind |-> "text", read |-> TRUE]
    OBVIOUS
  <2>2. PICK e : e = [op |-> "shortChatMessage", id |-> i, from |-> from, chat |-> to]
    OBVIOUS
  <2>3. e \in Answer /\ e.op = "shortChatMessage"
    BY <1>4, <1>8, <2>2 DEF Answer
  <2>4. ListOf(e) = <<m>>
    BY <2>1, <2>2 DEF ListOf
  <2>5. coming' = coming \/ coming' = Append(coming, e)
    BY <1>8, <2>2 DEF Push
  <2>6. m.id = i /\ m.from = from /\ m.to = to /\ m.read \in BOOLEAN
    BY <2>1
  <2> QED
    BY <1>1, <1>2, <1>3, <1>5, <2>3, <2>4, <2>5, <2>6, NewMessage
<1> QED
  BY <1>6, <1>7, <1>8 DEF SomeoneWrites

\* Someone reads or deletes a message, a contact or a chat changes.
LEMMA OthersAct ==
  ASSUME IInv
  PROVE  /\ \A i \in DOMAIN box \ (gone \cup seen) : SomeoneReads(i) => IInv'
         /\ \A i \in DOMAIN box \ gone : OtherPhoneDeletes(i) => IInv'
         /\ OthersChange => IInv'
<1>1. ASSUME NEW e \in Answer, e.op \in {"read", "deleted", "contactLink", "participants"},
             Push(e), e.op = "deleted" => e.id \in gone', e.op = "read" => e.id \in seen',
             gone \subseteq gone', seen \subseteq seen',
             gone' \subseteq DOMAIN box, seen' \subseteq DOMAIN box, deeds' = deeds + 1,
             UNCHANGED <<net, tables, asked, box, told, mine, runs>>
      PROVE  IInv'
  <2>1. ListOf(e) = <<>> /\ e.op # "dialogs"
    BY <1>1 DEF ListOf
  <2>2. coming' = coming \/ coming' = Append(coming, e)
    BY <1>1 DEF Push
  <2>3. BoxOK'
    BY <1>1 DEF IInv, Stored, BoxOK
  <2>4. /\ asked' \in Seq(Request) /\ deeds' \in Nat /\ mine' \subseteq (DOMAIN box') \X Acknowledgements
        /\ DOMAIN box' \subseteq Ids
    BY <1>1, Others
  <2> QED
    BY <1>1, <2>1, <2>2, <2>3, <2>4, QuietSteps
<1>2. ASSUME NEW i \in DOMAIN box \ (gone \cup seen), SomeoneReads(i) PROVE IInv'
  <2>1. PICK e : e = [op |-> "read", id |-> i]
    OBVIOUS
  <2>2. e \in Answer /\ e.op = "read" /\ e.id = i
    BY <2>1, Others DEF Answer
  <2>3. /\ seen' = seen \cup {i} /\ gone' = gone /\ Push(e) /\ deeds' = deeds + 1
        /\ UNCHANGED <<net, tables, asked, box, told, mine, runs>>
    BY <1>2, <2>1 DEF SomeoneReads, Deed
  <2> QED
    BY <1>1, <2>2, <2>3, Others
<1>3. ASSUME NEW i \in DOMAIN box \ gone, OtherPhoneDeletes(i) PROVE IInv'
  <2>1. PICK e : e = [op |-> "deleted", id |-> i]
    OBVIOUS
  <2>2. e \in Answer /\ e.op = "deleted" /\ e.id = i
    BY <2>1, Others DEF Answer
  <2>3. /\ gone' = gone \cup {i} /\ seen' = seen /\ Push(e) /\ deeds' = deeds + 1
        /\ UNCHANGED <<net, tables, asked, box, told, mine, runs>>
    BY <1>3, <2>1 DEF OtherPhoneDeletes, Deed
  <2> QED
    BY <1>1, <2>2, <2>3, Others
<1>4. ASSUME OthersChange PROVE IInv'
  <2>1. PICK e \in Answer : e.op \in {"contactLink", "participants"} /\ Push(e)
    <3>1. CASE \E u \in Users : Push([op |-> "contactLink", user |-> u])
      <4>1. PICK u \in Users : Push([op |-> "contactLink", user |-> u])
        BY <3>1
      <4>2. PICK e : e = [op |-> "contactLink", user |-> u]
        OBVIOUS
      <4>3. e \in Answer /\ e.op = "contactLink"
        BY <4>2 DEF Answer
      <4> QED
        BY <4>1, <4>2, <4>3
    <3>2. CASE Push([op |-> "participants"])
      <4>1. [op |-> "participants"] \in Answer
        BY DEF Answer
      <4> QED
        BY <3>2, <4>1
    <3> QED
      BY <1>4, <3>1, <3>2 DEF OthersChange
  <2>2. deeds' = deeds + 1 /\ UNCHANGED <<net, tables, asked, box, gone, seen, told, mine, runs>>
    BY <1>4 DEF OthersChange, Deed, server
  <2> QED
    BY <1>1, <2>1, <2>2, Others
<1> QED
  BY <1>2, <1>3, <1>4

\* The kinds of requests.
LEMMA RequestKinds ==
  ASSUME NEW r \in Request
  PROVE  /\ r.op = "history" => r.peer \in Peers /\ r.offset \in Nat
         /\ r.op \in {"send", "clear", "forward"} => r.peer \in Peers
         /\ r.op \in {"forward", "get", "delete"} => r.id \in Ids \cup Notes
<1>1. \/ r \in [op : {"dialogs", "contacts"}]
      \/ r \in [op : {"history"}, peer : Peers, offset : Nat]
      \/ r \in [op : {"send", "clear"}, peer : Peers]
      \/ r \in [op : {"forward"}, id : Ids \cup Notes, peer : Peers]
      \/ r \in [op : {"get", "delete"}, id : Ids \cup Notes]
  BY DEF Request
<1>2. CASE r \in [op : {"dialogs", "contacts"}]
  BY <1>2
<1>3. CASE r \in [op : {"history"}, peer : Peers, offset : Nat]
  BY <1>3
<1>4. CASE r \in [op : {"send", "clear"}, peer : Peers]
  BY <1>4
<1>5. CASE r \in [op : {"forward"}, id : Ids \cup Notes, peer : Peers]
  BY <1>5
<1>6. CASE r \in [op : {"get", "delete"}, id : Ids \cup Notes]
  BY <1>6
<1> QED
  BY <1>1, <1>2, <1>3, <1>4, <1>5, <1>6

\* What the server says of a message it keeps is so.
SaysSo(m) == /\ m \in Copy /\ TrueCopy(m) /\ m.id \notin gone /\ (m.id \in seen => m.read)
LEMMA Snapshots ==
  ASSUME IInv, NEW i \in DOMAIN box \ gone
  PROVE  SaysSo(Snapshot(i))
<1>1. i \in Ids
  BY Others
<1>2. /\ box[i].from \in Users \cup {Me} /\ box[i].kind \in {"text", "service"}
      /\ box[i].to \in Chats \cup Users \cup {Me}
  BY DEF IInv, Stored, BoxOK
<1>3. PICK m : m = Snapshot(i)
  OBVIOUS
<1>4. m = [id |-> i, from |-> box[i].from, to |-> box[i].to, kind |-> box[i].kind, read |-> i \in seen]
  BY <1>3 DEF Snapshot
<1>5. (i \in seen) \in BOOLEAN
  OBVIOUS
<1>6. m.id = i /\ m.from = box[i].from /\ m.to = box[i].to /\ m.kind = box[i].kind
  BY <1>4
<1>7. m.read \in BOOLEAN /\ (i \in seen => m.read)
  BY <1>4, <1>5
<1>8. m \in Copy
  BY <1>1, <1>2, <1>4, <1>5 DEF Copy, Peers
<1>9. TrueCopy(m)
  BY <1>6, <1>7 DEF TrueCopy
<1> QED
  BY <1>3, <1>6, <1>7, <1>8, <1>9 DEF SaysSo

\* The messages of a conversation the server keeps, in order.
LEMMA KeptInOrder ==
  ASSUME IInv, NEW p
  PROVE  /\ Kept(p) \subseteq DOMAIN box \ gone
         /\ \A i \in Kept(p) : ConvOf(i) = p
         /\ \E c \in Nat : /\ NewestFirst(Kept(p)) \in [1..c -> Kept(p)]
                           /\ Kept(p) # {} => c > 0
<1>1. Kept(p) \subseteq DOMAIN box \ gone /\ \A i \in Kept(p) : ConvOf(i) = p
  BY DEF Kept
<1>2. Kept(p) \subseteq Ids
  BY <1>1, Others
<1>3. Kept(p) \subseteq Nat /\ IsFiniteSet(Kept(p))
  BY <1>2, NumbersAssumption, FS_Subset
<1> QED
  BY <1>1, <1>3, InOrder

\* A page of a history is a list of such messages.
LEMMA Pages ==
  ASSUME IInv, NEW p \in Peers, NEW offset \in Nat
  PROVE  /\ PageOf(p, offset) \in Seq(Copy)
         /\ \A k \in DOMAIN PageOf(p, offset) : SaysSo(PageOf(p, offset)[k])
<1>1. PICK c \in Nat : NewestFirst(Kept(p)) \in [1..c -> Kept(p)]
  BY KeptInOrder
<1>2. PICK all : all = NewestFirst(Kept(p))
  OBVIOUS
<1>3. all \in [1..c -> Kept(p)] /\ Len(all) = c
  BY <1>1, <1>2
<1>4. PICK last : last = IF offset + Page < Len(all) THEN offset + Page ELSE Len(all)
  OBVIOUS
<1>5. last \in Nat /\ last <= c
  BY <1>3, <1>4, NumbersAssumption
<1>6. PICK page : page = [n \in 1..(last - offset) |-> Snapshot(all[offset + n])]
  OBVIOUS
<1>7. page = PageOf(p, offset)
  BY <1>2, <1>4, <1>6 DEF PageOf
<1>8. ASSUME NEW n \in 1..(last - offset) PROVE SaysSo(page[n])
  <2>1. offset + n \in 1..c
    BY <1>5
  <2>2. all[offset + n] \in DOMAIN box \ gone
    BY <1>3, <2>1, KeptInOrder
  <2>3. SaysSo(Snapshot(all[offset + n]))
    BY <2>2, Snapshots
  <2> QED
    BY <1>6, <2>3
<1>9. \A n \in 1..(last - offset) : page[n] \in Copy
  BY <1>8 DEF SaysSo
<1>10. PICK len \in Nat : 1..(last - offset) = 1..len
  <2>1. CASE last >= offset
    BY <1>5, <2>1
  <2>2. CASE last < offset
    <3>1. 1..(last - offset) = 1..0
      BY <1>5, <2>2
    <3> QED
      BY <3>1
  <2> QED
    BY <1>5, <2>1, <2>2
<1>11. page \in [1..len -> Copy]
  BY <1>6, <1>9, <1>10
<1>12. page \in Seq(Copy)
  BY <1>11
<1>13. DOMAIN page = 1..(last - offset)
  BY <1>6
<1> QED
  BY <1>7, <1>8, <1>12, <1>13

\* An answer that states messages as the server keeps them.
LEMMA ListAnswers ==
  ASSUME IInv, NEW list \in Seq(Copy), \A k \in DOMAIN list : SaysSo(list[k]),
         Push([op |-> "messages", list |-> list]),
         asked' \in Seq(Request), UNCHANGED <<net, tables, server, told, mine, runs, deeds>>
  PROVE  IInv'
<1>1. PICK e : e = [op |-> "messages", list |-> list]
  OBVIOUS
<1>2. e \in Answer /\ e.op = "messages"
  BY <1>1 DEF Answer
<1>3. ListOf(e) = list
  BY <1>1 DEF ListOf
<1>4. TrueAnswer(e)
  BY <1>2, <1>3 DEF TrueAnswer, SaysSo
<1>5. UNCHANGED <<box, gone, seen>>
  BY DEF server
<1>6. (TrueAnswer(e))'
  BY <1>4, <1>5, StaysTrue
<1>7. coming' = coming \/ coming' = Append(coming, e)
  BY <1>1 DEF Push
<1>8. BoxOK'
  BY <1>5 DEF IInv, Stored, BoxOK
<1>9. \A k \in DOMAIN ListOf(e) :
        ListOf(e)[k].id \notin gone /\ (ListOf(e)[k].id \in seen => ListOf(e)[k].read)
  BY <1>3 DEF SaysSo
<1>10. /\ net' = net /\ DOMAIN box' \subseteq Ids /\ gone' \subseteq DOMAIN box'
       /\ seen' \subseteq DOMAIN box' /\ mine' \subseteq (DOMAIN box') \X Acknowledgements
       /\ runs' = runs /\ deeds' \in Nat /\ UNCHANGED <<tables, told>>
  BY <1>5, Others
<1> QED
  BY <1>2, <1>5, <1>6, <1>7, <1>8, <1>9, <1>10, ServerSteps

\* An answer with the latest message of each conversation.
LEMMA DialogsAnswer ==
  ASSUME IInv, Push([op |-> "dialogs",
                     latest |-> [p \in {q \in Peers : Kept(q) # {}} |-> NewestFirst(Kept(p))[1]]]),
         asked' \in Seq(Request), UNCHANGED <<net, tables, server, told, mine, runs, deeds>>
  PROVE  IInv'
<1>1. PICK latest : latest = [p \in {q \in Peers : Kept(q) # {}} |-> NewestFirst(Kept(p))[1]]
  OBVIOUS
<1>2. DOMAIN latest \subseteq Peers /\ \A p \in DOMAIN latest : latest[p] \in Kept(p)
  <2>1. DOMAIN latest \subseteq Peers /\ \A p \in DOMAIN latest : Kept(p) # {}
    BY <1>1
  <2>2. ASSUME NEW p \in DOMAIN latest PROVE latest[p] \in Kept(p)
    <3>1. PICK c \in Nat : NewestFirst(Kept(p)) \in [1..c -> Kept(p)] /\ c > 0
      BY <2>1, KeptInOrder
    <3>2. 1 \in 1..c
      BY <3>1
    <3>3. latest[p] = NewestFirst(Kept(p))[1]
      BY <1>1
    <3> QED
      BY <3>1, <3>2, <3>3
  <2> QED
    BY <2>1, <2>2
<1>3. \A p \in DOMAIN latest : latest[p] \in DOMAIN box /\ latest[p] \in Ids /\ ConvOf(latest[p]) = p
  BY <1>2, KeptInOrder, Others
<1>4. PICK e : e = [op |-> "dialogs", latest |-> latest]
  OBVIOUS
<1>5. latest \in UNION {[S -> Ids] : S \in SUBSET Peers}
  <2>1. latest = [p \in DOMAIN latest |-> latest[p]]
    BY <1>1
  <2>2. latest \in [DOMAIN latest -> Ids] /\ DOMAIN latest \in SUBSET Peers
    BY <1>2, <1>3, <2>1
  <2> QED
    BY <2>2
<1>6. e \in Answer /\ e.op = "dialogs" /\ e.latest = latest
  BY <1>4, <1>5 DEF Answer
<1>7. ListOf(e) = <<>> /\ DOMAIN <<>> = {}
  BY <1>4 DEF ListOf
<1>8. TrueAnswer(e)
  BY <1>3, <1>6, <1>7 DEF TrueAnswer
<1>9. UNCHANGED <<box, gone, seen>>
  BY DEF server
<1>10. (TrueAnswer(e))'
  BY <1>8, <1>9, StaysTrue
<1>11. coming' = coming \/ coming' = Append(coming, e)
  BY <1>1, <1>4 DEF Push
<1>12. BoxOK'
  BY <1>9 DEF IInv, Stored, BoxOK
<1>13. DOMAIN ListOf(e) = {}
  BY <1>7
<1>14. /\ net' = net /\ DOMAIN box' \subseteq Ids /\ gone' \subseteq DOMAIN box'
       /\ seen' \subseteq DOMAIN box' /\ mine' \subseteq (DOMAIN box') \X Acknowledgements
       /\ runs' = runs /\ deeds' \in Nat /\ UNCHANGED <<tables, told>>
  BY <1>9, Others
<1> QED
  BY <1>6, <1>9, <1>10, <1>11, <1>12, <1>13, <1>14, ServerSteps

\* A request that sends a message.
LEMMA Delivers ==
  ASSUME IInv, NEW i \in Fresh, NEW p \in Peers, Post(i, Me, p, "text"),
         asked' \in Seq(Request), UNCHANGED <<net, tables, gone, seen, told, runs, deeds>>
  PROVE  /\ Push([op |-> "sent", id |-> i]) /\ mine' = mine \cup {<<i, "sentMessage">>} => IInv'
         /\ UNCHANGED coming /\ mine' = mine \cup {<<i, "sentMessageLink">>} => IInv'
         /\ /\ Push([op |-> "new", message |-> [id |-> i, from |-> Me, to |-> p,
                                                kind |-> "text", read |-> FALSE]])
            /\ mine' = mine \cup {<<i, "statedMessage">>}
            => IInv'
<1>1. Between(Me, p) /\ "text" \in MessageKinds
  BY DEF Between, Peers, MessageKinds
<1>2. /\ i \in Ids /\ DOMAIN box' = DOMAIN box \cup {i} /\ DOMAIN box' \subseteq Ids
      /\ \A j \in DOMAIN box : box'[j] = box[j]
      /\ BoxOK'
  BY <1>1, Posts
<1>3. /\ gone' \subseteq DOMAIN box' /\ seen' \subseteq DOMAIN box'
      /\ deeds' \in Nat /\ DOMAIN box \subseteq DOMAIN box'
  BY <1>2, Others
<1>8. \A by \in Acknowledgements :
         mine \cup {<<i, by>>} \subseteq (DOMAIN box') \X Acknowledgements
  <2>1. mine \subseteq (DOMAIN box') \X Acknowledgements
    BY <1>3, SentStays
  <2>2. i \in DOMAIN box'
    BY <1>2
  <2> QED
    BY <2>1, <2>2
<1>4. ASSUME NEW e, e = [op |-> "sent", id |-> i],
             coming' = coming \/ coming' = Append(coming, e), NEW by \in Acknowledgements,
             mine' \subseteq mine \cup {<<i, by>>}
      PROVE  IInv'
  <2>1. e \in Answer /\ e.op = "sent"
    BY <1>2, <1>4 DEF Answer
  <2>2. ListOf(e) = <<>>
    BY <1>4 DEF ListOf
  <2>3. mine' \subseteq (DOMAIN box') \X Acknowledgements
    BY <1>4, <1>8
  <2>4. UNCHANGED <<tables, told>> /\ gone \subseteq gone' /\ seen \subseteq seen' /\ net' = net
        /\ runs' = runs
    OBVIOUS
  <2> QED
    BY <1>2, <1>3, <1>4, <2>1, <2>2, <2>3, <2>4, QuietSteps
<1>5. ASSUME Push([op |-> "sent", id |-> i]), mine' = mine \cup {<<i, "sentMessage">>}
      PROVE  IInv'
  <2>1. PICK e : e = [op |-> "sent", id |-> i]
    OBVIOUS
  <2>2. coming' = coming \/ coming' = Append(coming, e)
    BY <1>5, <2>1 DEF Push
  <2> QED
    BY <1>4, <1>5, <2>1, <2>2 DEF Acknowledgements
<1>6. ASSUME UNCHANGED coming, mine' = mine \cup {<<i, "sentMessageLink">>} PROVE IInv'
  <2>1. PICK e : e = [op |-> "sent", id |-> i]
    OBVIOUS
  <2> QED
    BY <1>4, <1>6, <2>1 DEF Acknowledgements
<1>7. ASSUME Push([op |-> "new", message |-> [id |-> i, from |-> Me, to |-> p,
                                              kind |-> "text", read |-> FALSE]]),
             mine' = mine \cup {<<i, "statedMessage">>}
      PROVE  IInv'
  <2>1. PICK m : m = [id |-> i, from |-> Me, to |-> p, kind |-> "text", read |-> FALSE]
    OBVIOUS
  <2>2. m \in Copy
    BY <1>2, <2>1 DEF Copy
  <2>3. PICK e : e = [op |-> "new", message |-> m]
    OBVIOUS
  <2>4. e \in Answer /\ e.op = "new"
    BY <2>2, <2>3 DEF Answer
  <2>5. ListOf(e) = <<m>>
    BY <2>3 DEF ListOf
  <2>6. coming' = coming \/ coming' = Append(coming, e)
    BY <1>7, <2>1, <2>3 DEF Push
  <2>7. m.id = i /\ m.from = Me /\ m.to = p /\ m.read \in BOOLEAN
    BY <2>1
  <2>8. mine' \subseteq (DOMAIN box') \X Acknowledgements
    BY <1>7, <1>8 DEF Acknowledgements
  <2> QED
    BY <1>1, <1>3, <2>4, <2>5, <2>6, <2>7, <2>8, NewMessage
<1> QED
  BY <1>5, <1>6, <1>7

\* A request that changes at most what the server keeps and reads.
LEMMA KeepsQuiet ==
  ASSUME IInv, UNCHANGED <<net, tables, coming, box, seen, told, mine, runs, deeds>>,
         gone \subseteq gone', gone' \subseteq DOMAIN box, asked' \in Seq(Request)
  PROVE  IInv'
<1>1. PICK e : e = [op |-> "contacts"]
  OBVIOUS
<1>2. e \in Answer /\ e.op = "contacts"
  BY <1>1 DEF Answer
<1>3. ListOf(e) = <<>>
  BY <1>1 DEF ListOf
<1>4. BoxOK'
  BY DEF IInv, Stored, BoxOK
<1>5. /\ DOMAIN box' \subseteq Ids /\ seen' \subseteq DOMAIN box' /\ mine' \subseteq (DOMAIN box') \X Acknowledgements
      /\ deeds' \in Nat /\ gone' \subseteq DOMAIN box'
  BY Others
<1> QED
  BY <1>2, <1>3, <1>4, <1>5, QuietSteps

\* The requests, as the server executes them.
LEMMA Answers == ASSUME IInv, ServerAnswers PROVE IInv'
<1>1. asked \in Seq(Request) /\ asked # <<>> /\ asked' = Tail(asked)
      /\ UNCHANGED <<net, tables, told, runs, deeds>>
  BY Others DEF ServerAnswers
<1>2. asked' \in Seq(Request) /\ Head(asked) \in Request
  BY <1>1
<1>3. PICK r \in Request : r = Requested
  BY <1>2 DEF Requested
<1>4. /\ r.op = "history" => r.peer \in Peers /\ r.offset \in Nat
      /\ r.op \in {"send", "clear", "forward"} => r.peer \in Peers
  BY RequestKinds
<1>5. CASE /\ r.op = "history"
           /\ Push([op |-> "messages", list |-> PageOf(r.peer, r.offset)])
           /\ UNCHANGED <<server, mine>>
  <2>1. PICK list : list = PageOf(r.peer, r.offset)
    OBVIOUS
  <2>2. list \in Seq(Copy) /\ \A k \in DOMAIN list : SaysSo(list[k])
    BY <1>4, <1>5, <2>1, Pages
  <2> QED
    BY <1>1, <1>2, <1>5, <2>1, <2>2, ListAnswers
<1>6. CASE /\ Push([op |-> "dialogs",
                    latest |-> [p \in {q \in Peers : Kept(q) # {}} |-> NewestFirst(Kept(p))[1]]])
           /\ UNCHANGED <<server, mine>>
  BY <1>1, <1>2, <1>6, DialogsAnswer
<1>7. CASE Push([op |-> "contacts"]) /\ UNCHANGED <<server, mine>>
  <2>1. PICK e : e = [op |-> "contacts"]
    OBVIOUS
  <2>2. e \in Answer /\ e.op = "contacts"
    BY <2>1 DEF Answer
  <2>3. ListOf(e) = <<>>
    BY <2>1 DEF ListOf
  <2>4. coming' = coming \/ coming' = Append(coming, e)
    BY <1>7, <2>1 DEF Push
  <2>5. UNCHANGED <<box, gone, seen>>
    BY <1>7 DEF server
  <2>6. BoxOK'
    BY <2>5 DEF IInv, Stored, BoxOK
  <2>7. /\ DOMAIN box' \subseteq Ids /\ gone' \subseteq DOMAIN box' /\ seen' \subseteq DOMAIN box'
        /\ mine' \subseteq (DOMAIN box') \X Acknowledgements /\ deeds' \in Nat
    BY <1>1, <1>7, <2>5, Others
  <2> QED
    BY <1>1, <1>2, <2>2, <2>3, <2>4, <2>5, <2>6, <2>7, QuietSteps
<1>8. CASE /\ Push([op |-> "messages",
                    list |-> IF r.id \in DOMAIN box \ gone THEN <<Snapshot(r.id)>> ELSE <<>>])
           /\ UNCHANGED <<server, mine>>
  <2>1. PICK list : list = IF r.id \in DOMAIN box \ gone THEN <<Snapshot(r.id)>> ELSE <<>>
    OBVIOUS
  <2>2. list \in Seq(Copy) /\ \A k \in DOMAIN list : SaysSo(list[k])
    <3>1. CASE r.id \in DOMAIN box \ gone
      <4>1. PICK m : m = Snapshot(r.id) /\ SaysSo(m)
        BY <3>1, Snapshots
      <4>2. list = <<m>> /\ m \in Copy
        BY <2>1, <3>1, <4>1 DEF SaysSo
      <4> QED
        BY <4>1, <4>2
    <3>2. CASE r.id \notin DOMAIN box \ gone
      <4>1. list = <<>> /\ <<>> \in Seq(Copy) /\ DOMAIN <<>> = {}
        BY <2>1, <3>2
      <4> QED
        BY <4>1
    <3> QED
      BY <3>1, <3>2
  <2> QED
    BY <1>1, <1>2, <1>8, <2>1, <2>2, ListAnswers
<1>9. ASSUME NEW i \in Fresh, r.op = "send", Post(i, Me, r.peer, "text"),
             \/ Push([op |-> "sent", id |-> i]) /\ mine' = mine \cup {<<i, "sentMessage">>}
             \/ UNCHANGED coming /\ mine' = mine \cup {<<i, "sentMessageLink">>},
             UNCHANGED <<gone, seen>>
      PROVE  IInv'
  BY <1>1, <1>2, <1>4, <1>9, Delivers
<1>10. ASSUME NEW i \in Fresh, r.op = "forward", Post(i, Me, r.peer, "text"),
              Push([op |-> "new", message |-> [id |-> i, from |-> Me, to |-> r.peer,
                                               kind |-> "text", read |-> FALSE]]),
              mine' = mine \cup {<<i, "statedMessage">>}, UNCHANGED <<gone, seen>>
       PROVE  IInv'
  BY <1>1, <1>2, <1>4, <1>10, Delivers
<1>11. CASE UNCHANGED <<coming, server, mine>>
  <2>1. UNCHANGED <<net, tables, coming, box, seen, told, mine, runs, deeds>> /\ gone' = gone
    BY <1>1, <1>11 DEF server
  <2> QED
    BY <1>2, <2>1, KeepsQuiet, Others
<1>12. CASE gone' = gone \cup ({r.id} \cap DOMAIN box) /\ UNCHANGED <<coming, box, seen, mine>>
  BY <1>1, <1>2, <1>12, KeepsQuiet, Others
<1>13. CASE gone' = gone \cup Kept(r.peer) /\ UNCHANGED <<coming, box, seen, mine>>
  BY <1>1, <1>2, <1>13, KeepsQuiet, Others DEF Kept
<1> QED
  BY <1>3, <1>5, <1>6, <1>7, <1>8, <1>9, <1>10, <1>11, <1>12, <1>13 DEF ServerAnswers

\* A connection that is lost.
LEMMA Cuts == ASSUME IInv, ConnectionLost PROVE IInv'
<1>1. PICK n \in 0..Len(coming) : coming' = SubSeq(coming, 1, n)
  BY DEF ConnectionLost
<1>2. /\ net' = "cut" /\ asked' = <<>>
      /\ UNCHANGED <<messages, contacts, box, gone, seen, told, mine, runs, deeds>>
  BY DEF ConnectionLost, tables, server
<1>3. coming \in Seq(Answer)
  BY Others
<1>4. coming' \in Seq(Answer) /\ \A k \in DOMAIN coming' : k \in DOMAIN coming /\ coming'[k] = coming[k]
  BY <1>1, <1>3
<1>5. OnTheWay'
  BY <1>2, <1>4, Loses
<1>6. TablesOK' /\ Stored'
  BY <1>2, Same
<1>7. asked' \in Seq(Request)
  BY <1>2
<1> QED
  BY <1>2, <1>4, <1>5, <1>6, <1>7, Together, Others

---------------------------------------------------------------------------
\* The invariant holds at the start.
LEMMA Begins == Init => IInv
<1> SUFFICES ASSUME Init PROVE IInv
  OBVIOUS
<1>1. /\ net = "off" /\ messages = <<>> /\ contacts = <<>> /\ asked = <<>> /\ coming = <<>>
      /\ box = <<>> /\ gone = {} /\ seen = {} /\ toldGone = {} /\ toldRead = {} /\ mine = {}
      /\ runs = 1 /\ deeds = 0
  BY DEF Init
<1>2. DOMAIN messages = {} /\ DOMAIN contacts = {} /\ DOMAIN box = {} /\ DOMAIN coming = {}
  BY <1>1
<1>3. asked \in Seq(Request) /\ coming \in Seq(Answer)
  BY <1>1
<1>4. messages \in [DOMAIN messages -> RowSet] /\ contacts \in [DOMAIN contacts -> LineSet]
  BY <1>1, <1>2
<1>5. TypeOK
  BY <1>1, <1>2, <1>3, <1>4 DEF TypeOK, RowSet, LineSet
<1>6. Stored
  BY <1>1, <1>2 DEF Stored, BoxOK, ToldStays
<1>7. OnTheWay
  BY <1>1, <1>2 DEF OnTheWay
<1> QED
  BY <1>5, <1>6, <1>7 DEF IInv

\* Every step keeps it.
LEMMA Steps == IInv /\ [Next]_vars => IInv'
<1> SUFFICES ASSUME IInv, [Next]_vars PROVE IInv'
  OBVIOUS
<1>1. CASE User
  <2>1. CASE Start \/ Exit
    BY <2>1, Starts, Ends
  <2>2. ASSUME NEW p \in Peers,
               \/ OpenPage(p) \/ LoadMore(p) \/ SendMessage(p)
               \/ ClearContactHistory(p) \/ DeletePeer(p)
               \/ \E i \in DOMAIN messages : ForwardMessage(i, p)
        PROVE  IInv'
    <3>1. CASE LoadMore(p) \/ SendMessage(p) \/ \E i \in DOMAIN messages : ForwardMessage(i, p)
      BY <3>1, UserAsks
    <3>2. CASE OpenPage(p) \/ ClearContactHistory(p)
      BY <3>2, UserRemoves
    <3>3. CASE DeletePeer(p)
      BY <3>3, UserChanges
    <3> QED
      BY <2>2, <3>1, <3>2, <3>3
  <2>3. ASSUME NEW i \in DOMAIN messages, UserDeletes(i) PROVE IInv'
    BY <2>3, UserDeletesOne
  <2>4. ASSUME NEW c \in Chats, NEW n \in Notes, NoteMember(c, n) PROVE IInv'
    BY <2>4, UserChanges
  <2> QED
    BY <1>1, <2>1, <2>2, <2>3, <2>4 DEF User
<1>2. CASE Handle
  BY <1>2, MessagesCome, AnswersAsk, ReadsCome, DeletesCome, ListsCome DEF Handle
<1>3. CASE Server
  BY <1>3, OthersWrite, OthersAct, Answers, Cuts DEF Server
<1>4. CASE UNCHANGED vars
  <2>1. UNCHANGED <<net, tables, coming, box, seen, told, mine, runs, deeds>>
        /\ gone' = gone /\ asked' = asked
    BY <1>4 DEF vars, server
  <2> QED
    BY <2>1, KeepsQuiet, Others
<1> QED
  BY <1>1, <1>2, <1>3, <1>4 DEF Next

\* IInv is an invariant: the tables hold what the server's messages, and what it has
\* told, say, whatever is lost, late or asked twice.
THEOREM MessageStoreInvariant == Spec => []IInv
  BY Begins, Steps, PTL DEF Spec

\* The types of the tables, the requests and the answers.
THEOREM MessageStoreTypes == Spec => []TypeOK
<1>1. IInv => TypeOK
  BY DEF IInv
<1> QED
  BY <1>1, MessageStoreInvariant, PTL

\* A page shows the messages of its own conversation.
LEMMA PagesOf ==
  ASSUME IInv, NEW i \in DOMAIN messages, NEW p \in Peers
  PROVE  i \in Shown(p) <=> p = Home(i)
<1>1. PICK row : row = messages[i]
  OBVIOUS
<1>2. RowTrue(i) /\ BoxOK /\ row \in RowSet /\ i \in Ids \cup Notes
  BY <1>1, Others DEF IInv, Stored
<1>3. /\ Me \notin Peers /\ None \notin Peers /\ None # Me /\ Users \cap Chats = {}
      /\ Peers = Users \cup Chats
  BY PeersAssumption DEF Peers
<1>4. DOMAIN box \subseteq Ids /\ Ids \cap Notes = {}
  BY NumbersAssumption, Others
<1>5. i \in Shown(p) <=> row.type = TypeOf(p) /\ (row.from = p \/ row.to = p)
  BY <1>1 DEF Shown, Matches
<1>6. /\ row.type = IF row.to \in Chats THEN "chat" ELSE "contact"
      /\ TypeOf(p) = IF p \in Chats THEN "chat" ELSE "contact"
  BY <1>1, <1>2 DEF RowTrue, TypeOfRow, TypeOf
<1>7. CASE i \in Ids
  <2>1. /\ i \in DOMAIN box /\ row.from = box[i].from
        /\ row.to = box[i].to \/ (row.to = None /\ box[i].to = Me)
    BY <1>1, <1>2, <1>7 DEF RowTrue
  <2>2. /\ box[i].from \in Users \cup {Me}
        /\ \/ box[i].to \in Chats
           \/ box[i].from = Me /\ box[i].to \in Users
           \/ box[i].from \in Users /\ box[i].to = Me
    BY <1>2, <2>1 DEF BoxOK
  <2>3. Home(i) = IF box[i].to = Me THEN box[i].from ELSE box[i].to
    BY <2>1 DEF Home, ConvOf
  <2>4. CASE box[i].to \in Chats
    BY <1>3, <1>5, <1>6, <2>1, <2>2, <2>3, <2>4
  <2>5. CASE box[i].from = Me /\ box[i].to \in Users
    BY <1>3, <1>5, <1>6, <2>1, <2>3, <2>5
  <2>6. CASE box[i].from \in Users /\ box[i].to = Me
    BY <1>3, <1>5, <1>6, <2>1, <2>3, <2>6
  <2> QED
    BY <2>2, <2>4, <2>5, <2>6
<1>8. CASE i \notin Ids
  <2>1. row.to \in Chats /\ row.from \in {row.to, None}
    BY <1>1, <1>2, <1>8 DEF RowTrue
  <2>2. Home(i) = row.to
    BY <1>1, <1>4, <1>8 DEF Home
  <2> QED
    BY <1>3, <1>5, <1>6, <2>1, <2>2
<1> QED
  BY <1>7, <1>8

\* By whichever way a message came, the page of its conversation shows it and no other
\* does, and a line of the list shows a text of its own conversation.
THEOREM PagesAreTheirOwn == Spec => []InItsConversation
<1>1. IInv => InItsConversation
  <2> SUFFICES ASSUME IInv PROVE InItsConversation
    OBVIOUS
  <2>1. \A i \in DOMAIN messages, p \in Peers : i \in Shown(p) <=> p = Home(i)
    BY PagesOf
  <2>2. ASSUME NEW p \in DOMAIN contacts, contacts[p].latest \in DOMAIN box
        PROVE  ConvOf(contacts[p].latest) = p
    BY <2>2, Others DEF IInv, Stored, LineTrue
  <2> QED
    BY <2>1, <2>2 DEF InItsConversation
<1> QED
  BY <1>1, MessageStoreInvariant, PTL

\* What an update has told about a message holds from then on, whatever older copies
\* were under way.
THEOREM ToldIsKept == Spec => []ToldStays
<1>1. IInv => ToldStays
  BY DEF IInv, Stored
<1> QED
  BY <1>1, MessageStoreInvariant, PTL

---------------------------------------------------------------------------
(* What is lost. *)

\* What LostOnPurpose allows for a message that goes.
Purposely(i) ==
  \/ ~Running' \/ net = "cut"
  \/ LastAsked([op |-> "delete", id |-> i])
  \/ LastAsked([op |-> "clear", peer |-> Home(i)])
  \/ \E p \in {Home(i), messages[i].from} :
       LastAsked([op |-> "history", peer |-> p, offset |-> 0])

\* A request that is not lost is the last.
LEMMA AsksLast ==
  ASSUME IInv, Running, NEW r \in Request, Ask(r)
  PROVE  net = "cut" \/ LastAsked(r)
<1>1. asked \in Seq(Request) /\ net \in {"off", "online", "cut"}
  BY Others
<1>2. CASE net = "online"
  <2>1. asked' = Append(asked, r)
    BY <1>2 DEF Ask
  <2>2. asked' # <<>> /\ asked'[Len(asked')] = r
    BY <1>1, <2>1
  <2> QED
    BY <2>2 DEF LastAsked
<1> QED
  BY <1>1, <1>2 DEF Running

\* The rows a page that is opened afresh takes are of its conversation or its peer.
LEMMA FreshPageOwns ==
  ASSUME IInv, NEW p \in Peers, NEW i \in OfFreshPage(p)
  PROVE  p \in {Home(i), messages[i].from}
<1>1. i \in DOMAIN messages /\ messages[i].type = "chat" /\ (messages[i].from = p \/ messages[i].to = p)
  BY DEF OfFreshPage, Matches
<1>2. RowTrue(i) /\ i \in Ids \cup Notes
  BY <1>1, Others DEF IInv, Stored
<1>3. ASSUME messages[i].to = p PROVE Home(i) = p
  <2>1. p \in Chats
    BY <1>1, <1>2, <1>3 DEF RowTrue, TypeOfRow
  <2>2. TypeOf(p) = "chat"
    BY <2>1 DEF TypeOf
  <2>3. i \in Shown(p)
    BY <1>1, <2>2 DEF Shown, Matches
  <2> QED
    BY <1>1, <2>3, PagesOf
<1> QED
  BY <1>1, <1>3

\* What the user does loses messages on purpose.
LEMMA UserLoses ==
  ASSUME IInv, User, NEW i \in DOMAIN messages, i \notin DOMAIN messages'
  PROVE  Purposely(i)
<1>1. ~UNCHANGED tables /\ ~UNCHANGED messages
  BY DEF tables
<1>2. CASE Exit
  BY <1>2 DEF Exit, Running, Purposely
<1>3. ASSUME NEW p \in Peers, OpenPage(p) PROVE Purposely(i)
  <2>1. Running /\ i \in OfFreshPage(p) /\ Ask([op |-> "history", peer |-> p, offset |-> 0])
    BY <1>1, <1>3 DEF OpenPage, RowsWithout
  <2>2. [op |-> "history", peer |-> p, offset |-> 0] \in Request
    BY Requests
  <2>3. net = "cut" \/ LastAsked([op |-> "history", peer |-> p, offset |-> 0])
    BY <2>1, <2>2, AsksLast
  <2>4. p \in {Home(i), messages[i].from}
    BY <2>1, FreshPageOwns
  <2> QED
    BY <2>3, <2>4 DEF Purposely
<1>4. ASSUME NEW p \in Peers, ClearContactHistory(p) PROVE Purposely(i)
  <2>1. Running /\ i \in Shown(p) /\ Ask([op |-> "clear", peer |-> p])
    BY <1>4 DEF ClearContactHistory, RowsWithout
  <2>2. [op |-> "clear", peer |-> p] \in Request
    BY Requests
  <2>3. net = "cut" \/ LastAsked([op |-> "clear", peer |-> p])
    BY <2>1, <2>2, AsksLast
  <2>4. p = Home(i)
    BY <2>1, PagesOf
  <2> QED
    BY <2>3, <2>4 DEF Purposely
<1>5. ASSUME NEW j \in DOMAIN messages, UserDeletes(j) PROVE Purposely(i)
  <2>1. Running /\ i = j /\ Ask([op |-> "delete", id |-> i])
    BY <1>5 DEF UserDeletes, DeleteMessage, RowsWithout
  <2>2. [op |-> "delete", id |-> i] \in Request
    BY Requests, Others
  <2>3. net = "cut" \/ LastAsked([op |-> "delete", id |-> i])
    BY <2>1, <2>2, AsksLast
  <2> QED
    BY <2>3 DEF Purposely
<1>6. ASSUME NEW c \in Chats, NEW n \in Notes, NoteMember(c, n) PROVE FALSE
  BY <1>6 DEF NoteMember, InsertMessage, InsertMessages, AddRows
<1>7. ~Start
  BY <1>1 DEF Start
<1>8. \A p \in Peers : /\ ~LoadMore(p) /\ ~SendMessage(p) /\ ~DeletePeer(p)
                       /\ \A j \in DOMAIN messages : ~ForwardMessage(j, p)
  BY <1>1 DEF LoadMore, SendMessage, DeletePeer, ForwardMessage
<1> QED
  BY <1>2, <1>3, <1>4, <1>5, <1>6, <1>7, <1>8 DEF User

\* What arrives loses a message only by an update that deletes it.
LEMMA HandlersLose ==
  ASSUME IInv, Handle, NEW i \in DOMAIN messages, i \notin DOMAIN messages'
  PROVE  Purposely(i)
<1>1. ~UNCHANGED tables /\ ~UNCHANGED messages
  BY DEF tables
<1>2. \A list : ~InsertMessages(list)
  BY DEF InsertMessages, AddRows
<1>3. ~OnMessages /\ ~OnNewMessage /\ ~OnUpdateShortMessage /\ ~OnUpdateShortChatMessage
  BY <1>2 DEF OnMessages, OnNewMessage, OnUpdateShortMessage, OnUpdateShortChatMessage, InsertMessage
<1>4. ~OnReadMessages
  BY DEF OnReadMessages
<1>5. /\ ~OnSentMessage /\ ~OnContactLink /\ ~OnChatParticipants /\ ~OnDialogs /\ ~OnContacts
  BY <1>1 DEF OnSentMessage, OnContactLink, OnChatParticipants, OnDialogs, OnContacts
<1>6. CASE OnDeleteMessages
  <2>1. /\ Running /\ coming # <<>> /\ Event.op = "deleted"
        /\ i = Event.id /\ Ask([op |-> "delete", id |-> i])
    BY <1>6 DEF OnDeleteMessages, Arrives, Event, DeleteMessage, RowsWithout
  <2>2. [op |-> "delete", id |-> i] \in Request
    BY Requests, Others
  <2>3. net = "cut" \/ LastAsked([op |-> "delete", id |-> i])
    BY <2>1, <2>2, AsksLast
  <2> QED
    BY <2>3 DEF Purposely
<1> QED
  BY <1>3, <1>4, <1>5, <1>6 DEF Handle

\* A stored message is lost only when it is deleted or its conversation cleared or
\* fetched anew, when the page of its author is opened afresh, or at a log-out.
THEOREM LosesOnPurpose == Spec => LostOnPurpose
<1>1. ASSUME IInv, [Next]_vars
      PROVE  [\A i \in DOMAIN messages \ DOMAIN messages' : Purposely(i)]_vars
  <2> SUFFICES ASSUME Next, NEW i \in DOMAIN messages \ DOMAIN messages' PROVE Purposely(i)
    BY <1>1
  <2>1. CASE User
    BY <1>1, <2>1, UserLoses
  <2>2. CASE Handle
    BY <1>1, <2>2, HandlersLose
  <2>3. CASE Server
    <3>1. UNCHANGED tables
      BY <2>3 DEF Server, SomeoneWrites, SomeoneReads, OtherPhoneDeletes, OthersChange,
                  ServerAnswers, ConnectionLost
    <3> QED
      BY <3>1 DEF tables
  <2> QED
    BY <2>1, <2>2, <2>3 DEF Next
<1>2. IInv /\ [Next]_vars => [\A i \in DOMAIN messages \ DOMAIN messages' :
       \/ ~Running' \/ net = "cut"
       \/ LastAsked([op |-> "delete", id |-> i])
       \/ LastAsked([op |-> "clear", peer |-> Home(i)])
       \/ \E p \in {Home(i), messages[i].from} :
            LastAsked([op |-> "history", peer |-> p, offset |-> 0])]_vars
  BY <1>1 DEF Purposely
<1> QED
  BY <1>2, MessageStoreInvariant, PTL DEF Spec, LostOnPurpose

---------------------------------------------------------------------------
(* What is deleted. *)

\* A message deleted at the server that is neither stored nor under way.
Away(i) == i \in gone /\ i \notin DOMAIN messages /\ ~UnderWay(i)

\* Its number is one of the server's and not drawn again.
LEMMA AwayNumbers ==
  ASSUME IInv, NEW i, Away(i)
  PROVE  i \in DOMAIN box /\ i \in Ids /\ i \notin Notes /\ i \notin Fresh
<1>1. i \in DOMAIN box /\ i \in Ids
  BY Others DEF Away
<1> QED
  BY <1>1, NumbersAssumption DEF Fresh

\* What is lost or taken brings nothing, and neither does an answer without it.
LEMMA BringsNothing ==
  ASSUME IInv, NEW i, Away(i)
  PROVE  /\ coming' \in {coming, <<>>} => ~UnderWay(i)'
         /\ coming # <<>> /\ coming' = Tail(coming) => ~UnderWay(i)'
         /\ \A e : Push(e) /\ ~Brings(e, i) => ~UnderWay(i)'
         /\ \A n \in 0..Len(coming) : coming' = SubSeq(coming, 1, n) => ~UnderWay(i)'
<1>1. coming \in Seq(Answer)
  BY Others
<1>2. \A n \in DOMAIN coming : ~Brings(coming[n], i)
  BY DEF Away, UnderWay
<1>3. ASSUME \A n \in DOMAIN coming' : ~Brings(coming'[n], i) PROVE ~UnderWay(i)'
  BY <1>3 DEF UnderWay
<1>4. ASSUME \A n \in DOMAIN coming' : \E j \in DOMAIN coming : coming'[n] = coming[j]
      PROVE  ~UnderWay(i)'
  BY <1>2, <1>3, <1>4
<1>5. ASSUME coming' \in {coming, <<>>} PROVE ~UnderWay(i)'
  <2>1. DOMAIN <<>> = {}
    OBVIOUS
  <2> QED
    BY <1>4, <1>5, <2>1
<1>6. ASSUME coming # <<>>, coming' = Tail(coming) PROVE ~UnderWay(i)'
  <2>1. \A n \in DOMAIN coming' : n + 1 \in DOMAIN coming /\ coming'[n] = coming[n + 1]
    BY <1>1, <1>6
  <2> QED
    BY <1>4, <2>1
<1>7. ASSUME NEW e, Push(e), ~Brings(e, i) PROVE ~UnderWay(i)'
  <2>1. CASE coming' = coming
    BY <1>5, <2>1
  <2>2. CASE coming' = Append(coming, e)
    <3>1. PICK len \in Nat : len = Len(coming) /\ DOMAIN coming = 1..len
      BY <1>1
    <3>2. \A n \in DOMAIN coming' : (n \in 1..len /\ coming'[n] = coming[n]) \/ coming'[n] = e
      BY <1>1, <2>2, <3>1
    <3>3. \A n \in DOMAIN coming' : ~Brings(coming'[n], i)
      BY <1>2, <1>7, <3>1, <3>2
    <3> QED
      BY <1>3, <3>3
  <2> QED
    BY <1>7, <2>1, <2>2 DEF Push
<1>8. ASSUME NEW n \in 0..Len(coming), coming' = SubSeq(coming, 1, n) PROVE ~UnderWay(i)'
  <2>1. \A k \in DOMAIN coming' : k \in DOMAIN coming /\ coming'[k] = coming[k]
    BY <1>1, <1>8
  <2> QED
    BY <1>4, <2>1
<1> QED
  BY <1>5, <1>6, <1>7, <1>8

\* An answer or an update whose list of messages does not hold it, or holds none.
LEMMA EmptyLists ==
  ASSUME NEW e, NEW i
  PROVE  /\ e.op \notin {"messages", "new", "shortMessage", "shortChatMessage"} => ~Brings(e, i)
         /\ \A m : ListOf(e) = <<m>> /\ m.id # i => ~Brings(e, i)
<1>1. ASSUME e.op \notin {"messages", "new", "shortMessage", "shortChatMessage"}
      PROVE  ~Brings(e, i)
  <2>1. ListOf(e) = <<>> /\ DOMAIN <<>> = {}
    BY <1>1 DEF ListOf
  <2> QED
    BY <2>1 DEF Brings
<1>2. ASSUME NEW m, ListOf(e) = <<m>>, m.id # i PROVE ~Brings(e, i)
  <2>1. DOMAIN ListOf(e) = {1} /\ ListOf(e)[1] = m
    BY <1>2
  <2> QED
    BY <1>2, <2>1 DEF Brings
<1> QED
  BY <1>1, <1>2

\* What the user does brings nothing back.
LEMMA UserBringsNothing ==
  ASSUME IInv, User, NEW i, Away(i)
  PROVE  i \notin DOMAIN messages' /\ coming' \in {coming, <<>>}
<1>1. i \notin DOMAIN messages /\ i \notin Notes
  BY AwayNumbers DEF Away
<1>2. CASE Start
  BY <1>1, <1>2 DEF Start, tables
<1>3. CASE Exit
  <2>1. DOMAIN <<>> = {}
    OBVIOUS
  <2> QED
    BY <1>1, <1>3, <2>1 DEF Exit, tables
<1>4. ASSUME NEW p \in Peers,
             \/ OpenPage(p) \/ LoadMore(p) \/ SendMessage(p)
             \/ ClearContactHistory(p) \/ DeletePeer(p)
             \/ \E j \in DOMAIN messages : ForwardMessage(j, p)
      PROVE  i \notin DOMAIN messages' /\ coming' = coming
  BY <1>1, <1>4 DEF OpenPage, LoadMore, SendMessage, ClearContactHistory, DeletePeer,
                    ForwardMessage, tables, RowsWithout
<1>5. ASSUME NEW j \in DOMAIN messages, UserDeletes(j)
      PROVE  i \notin DOMAIN messages' /\ coming' = coming
  BY <1>1, <1>5 DEF UserDeletes, DeleteMessage, RowsWithout
<1>6. ASSUME NEW c \in Chats, NEW n \in Notes, NoteMember(c, n)
      PROVE  i \notin DOMAIN messages' /\ coming' = coming
  <2>1. PICK m : m.id = n /\ InsertMessages(<<m>>)
    BY <1>6 DEF NoteMember, InsertMessage
  <2>2. PICK list : list = <<m>>
    OBVIOUS
  <2>3. InsertMessages(list) /\ DOMAIN list = {1} /\ list[1] = m
    BY <2>1, <2>2
  <2>4. DOMAIN messages' \subseteq DOMAIN messages \cup {n}
    BY <2>1, <2>3 DEF InsertMessages, AddRows
  <2> QED
    BY <1>1, <1>6, <2>4 DEF NoteMember
<1> QED
  BY <1>2, <1>3, <1>4, <1>5, <1>6 DEF User

\* What arrives brings only what it brings.
LEMMA ArrivalBringsNothing ==
  ASSUME IInv, Handle, NEW i, Away(i)
  PROVE  i \notin DOMAIN messages' /\ coming # <<>> /\ coming' = Tail(coming)
<1>1. coming # <<>> /\ coming' = Tail(coming)
  BY DEF Handle, OnMessages, OnNewMessage, OnUpdateShortMessage, OnUpdateShortChatMessage,
         OnSentMessage, OnReadMessages, OnDeleteMessages, OnContactLink, OnChatParticipants,
         OnDialogs, OnContacts, Arrives, Taken
<1>2. i \notin DOMAIN messages
  BY DEF Away
<1>3. ASSUME InsertMessages(ListOf(Event)) PROVE i \notin DOMAIN messages'
  <2>1. coming \in Seq(Answer)
    BY Others
  <2>2. 1 \in DOMAIN coming /\ Event = coming[1]
    BY <1>1, <2>1 DEF Event
  <2>3. ~Brings(Event, i)
    BY <2>2 DEF Away, UnderWay
  <2>4. PICK list : list = ListOf(Event)
    OBVIOUS
  <2>5. \A k \in DOMAIN list : list[k].id # i
    BY <2>3, <2>4 DEF Brings
  <2>6. InsertMessages(list)
    BY <1>3, <2>4
  <2>7. DOMAIN messages' \subseteq DOMAIN messages \cup {list[k].id : k \in DOMAIN list}
    BY <2>6 DEF InsertMessages, AddRows
  <2> QED
    BY <1>2, <2>5, <2>7
<1>4. CASE OnMessages \/ OnNewMessage \/ OnUpdateShortMessage \/ OnUpdateShortChatMessage
  <2>1. InsertMessages(ListOf(Event))
    BY <1>4, InsertsItsList
  <2> QED
    BY <1>1, <1>3, <2>1
<1>5. CASE OnReadMessages \/ OnDeleteMessages
  BY <1>1, <1>2, <1>5 DEF OnReadMessages, OnDeleteMessages, DeleteMessage, RowsWithout
<1>6. CASE OnSentMessage \/ OnContactLink \/ OnChatParticipants \/ OnDialogs \/ OnContacts
  BY <1>1, <1>2, <1>6 DEF OnSentMessage, OnContactLink, OnChatParticipants, OnDialogs, OnContacts, tables
<1> QED
  BY <1>1, <1>4, <1>5, <1>6 DEF Handle

\* What another user or another phone does brings new messages only.
LEMMA OthersBringNothing ==
  ASSUME IInv, NEW i, Away(i)
  PROVE  /\ \A j \in Fresh, from, to \in Peers \cup {Me}, kind \in Kinds :
              SomeoneWrites(j, from, to, kind) => ~UnderWay(i)'
         /\ \A j : SomeoneReads(j) => ~UnderWay(i)'
         /\ \A j : OtherPhoneDeletes(j) => ~UnderWay(i)'
         /\ OthersChange => ~UnderWay(i)'
<1>1. ASSUME NEW j \in Fresh, NEW from \in Peers \cup {Me}, NEW to \in Peers \cup {Me},
             NEW kind \in Kinds, SomeoneWrites(j, from, to, kind)
      PROVE  ~UnderWay(i)'
  <2>1. j # i
    BY AwayNumbers
  <2>2. PICK e, m : Push(e) /\ ListOf(e) = <<m>> /\ m.id = j
    <3>1. CASE Push([op |-> "new", message |-> [id |-> j, from |-> from, to |-> to,
                                                kind |-> kind, read |-> FALSE]])
      <4>1. PICK m : m = [id |-> j, from |-> from, to |-> to, kind |-> kind, read |-> FALSE]
        OBVIOUS
      <4>2. PICK e : e = [op |-> "new", message |-> m]
        OBVIOUS
      <4>3. ListOf(e) = <<m>> /\ m.id = j
        BY <4>1, <4>2 DEF ListOf
      <4> QED
        BY <3>1, <4>1, <4>2, <4>3
    <3>2. CASE Push([op |-> "shortMessage", id |-> j, from |-> from])
      <4>1. PICK m : m = [id |-> j, from |-> from, to |-> None, kind |-> "text", read |-> FALSE]
        OBVIOUS
      <4>2. PICK e : e = [op |-> "shortMessage", id |-> j, from |-> from]
        OBVIOUS
      <4>3. ListOf(e) = <<m>> /\ m.id = j
        BY <4>1, <4>2 DEF ListOf
      <4> QED
        BY <3>2, <4>2, <4>3
    <3>3. CASE Push([op |-> "shortChatMessage", id |-> j, from |-> from, chat |-> to])
      <4>1. PICK m : m = [id |-> j, from |-> from, to |-> to, kind |-> "text", read |-> TRUE]
        OBVIOUS
      <4>2. PICK e : e = [op |-> "shortChatMessage", id |-> j, from |-> from, chat |-> to]
        OBVIOUS
      <4>3. ListOf(e) = <<m>> /\ m.id = j
        BY <4>1, <4>2 DEF ListOf
      <4> QED
        BY <3>3, <4>2, <4>3
    <3> QED
      BY <1>1, <3>1, <3>2, <3>3 DEF SomeoneWrites
  <2>3. ~Brings(e, i)
    BY <2>1, <2>2, EmptyLists
  <2> QED
    BY <2>2, <2>3, BringsNothing
<1>2. ASSUME NEW e, Push(e), e.op \in {"read", "deleted", "contactLink", "participants"}
      PROVE  ~UnderWay(i)'
  <2>1. ~Brings(e, i)
    BY <1>2, EmptyLists
  <2> QED
    BY <1>2, <2>1, BringsNothing
<1>3. ASSUME NEW j, SomeoneReads(j) PROVE ~UnderWay(i)'
  <2>1. PICK e : e = [op |-> "read", id |-> j]
    OBVIOUS
  <2>2. e.op = "read"
    BY <2>1
  <2> QED
    BY <1>2, <1>3, <2>1, <2>2 DEF SomeoneReads
<1>4. ASSUME NEW j, OtherPhoneDeletes(j) PROVE ~UnderWay(i)'
  <2>1. PICK e : e = [op |-> "deleted", id |-> j]
    OBVIOUS
  <2>2. e.op = "deleted"
    BY <2>1
  <2> QED
    BY <1>2, <1>4, <2>1, <2>2 DEF OtherPhoneDeletes
<1>5. ASSUME OthersChange PROVE ~UnderWay(i)'
  <2>1. CASE Push([op |-> "participants"])
    <3>1. PICK e : e = [op |-> "participants"]
      OBVIOUS
    <3>2. e.op = "participants"
      BY <3>1
    <3> QED
      BY <1>2, <2>1, <3>1, <3>2
  <2>2. CASE \E u \in Users : Push([op |-> "contactLink", user |-> u])
    <3>1. PICK u \in Users : Push([op |-> "contactLink", user |-> u])
      BY <2>2
    <3>2. PICK e : e = [op |-> "contactLink", user |-> u]
      OBVIOUS
    <3>3. e.op = "contactLink"
      BY <3>2
    <3> QED
      BY <1>2, <3>1, <3>2, <3>3
  <2> QED
    BY <1>5, <2>1, <2>2 DEF OthersChange
<1> QED
  BY <1>1, <1>3, <1>4, <1>5

\* The server executes a request and answers with nothing it has deleted.
LEMMA AnswersBringNothing ==
  ASSUME IInv, ServerAnswers, NEW i, Away(i)
  PROVE  ~UnderWay(i)'
<1>1. i \in gone /\ \A j \in Fresh : j # i
  BY AwayNumbers DEF Away
<1>2. PICK r : r = Requested /\ r \in Request
  <2>1. asked \in Seq(Request) /\ asked # <<>>
    BY Others DEF ServerAnswers
  <2>2. Requested \in Request
    BY <2>1 DEF Requested
  <2> QED
    BY <2>2
<1>3. ASSUME NEW list \in Seq(Copy), \A k \in DOMAIN list : SaysSo(list[k]),
             Push([op |-> "messages", list |-> list])
      PROVE  ~UnderWay(i)'
  <2>1. PICK e : e = [op |-> "messages", list |-> list]
    OBVIOUS
  <2>2. ListOf(e) = list
    BY <2>1 DEF ListOf
  <2>3. ~Brings(e, i)
    BY <1>1, <1>3, <2>2 DEF Brings, SaysSo
  <2> QED
    BY <1>3, <2>1, <2>3, BringsNothing
<1>4. ASSUME NEW e, Push(e),
             e.op \notin {"messages", "new", "shortMessage", "shortChatMessage"}
      PROVE  ~UnderWay(i)'
  BY <1>4, BringsNothing, EmptyLists
<1>5. CASE coming' = coming
  BY <1>5, BringsNothing
<1>6. CASE r.op = "history" /\ Push([op |-> "messages", list |-> PageOf(r.peer, r.offset)])
  <2>1. PICK list : list = PageOf(r.peer, r.offset)
    OBVIOUS
  <2>2. list \in Seq(Copy) /\ \A k \in DOMAIN list : SaysSo(list[k])
    BY <1>2, <1>6, <2>1, RequestKinds, Pages
  <2> QED
    BY <1>3, <1>6, <2>1, <2>2
<1>7. ASSUME NEW l, Push([op |-> "dialogs", latest |-> l]) PROVE ~UnderWay(i)'
  <2>1. PICK e : e = [op |-> "dialogs", latest |-> l]
    OBVIOUS
  <2>2. e.op = "dialogs"
    BY <2>1
  <2> QED
    BY <1>4, <1>7, <2>1, <2>2
<1>8. CASE Push([op |-> "contacts"])
  <2>1. PICK e : e = [op |-> "contacts"]
    OBVIOUS
  <2>2. e.op = "contacts"
    BY <2>1
  <2> QED
    BY <1>4, <1>8, <2>1, <2>2
<1>9. CASE Push([op |-> "messages",
                 list |-> IF r.id \in DOMAIN box \ gone THEN <<Snapshot(r.id)>> ELSE <<>>])
  <2>1. PICK list : list = IF r.id \in DOMAIN box \ gone THEN <<Snapshot(r.id)>> ELSE <<>>
    OBVIOUS
  <2>2. PICK e : e = [op |-> "messages", list |-> list]
    OBVIOUS
  <2>3. ~Brings(e, i)
    <3>1. CASE r.id \in DOMAIN box \ gone
      <4>1. PICK m : m = Snapshot(r.id) /\ m.id # i
        BY <1>1, <3>1, Snapshots DEF SaysSo
      <4>2. ListOf(e) = <<m>>
        BY <2>1, <2>2, <3>1, <4>1 DEF ListOf
      <4> QED
        BY <4>1, <4>2, EmptyLists
    <3>2. CASE r.id \notin DOMAIN box \ gone
      <4>1. ListOf(e) = <<>> /\ DOMAIN <<>> = {}
        BY <2>1, <2>2, <3>2 DEF ListOf
      <4> QED
        BY <4>1 DEF Brings
    <3> QED
      BY <3>1, <3>2
  <2> QED
    BY <1>9, <2>1, <2>2, <2>3, BringsNothing
<1>10. ASSUME NEW j, Push([op |-> "sent", id |-> j]) PROVE ~UnderWay(i)'
  <2>1. PICK e : e = [op |-> "sent", id |-> j]
    OBVIOUS
  <2>2. e.op = "sent"
    BY <2>1
  <2> QED
    BY <1>4, <1>10, <2>1, <2>2
<1>11. ASSUME NEW j \in Fresh,
              Push([op |-> "new", message |-> [id |-> j, from |-> Me, to |-> r.peer,
                                               kind |-> "text", read |-> FALSE]])
       PROVE  ~UnderWay(i)'
  <2>1. PICK m : m = [id |-> j, from |-> Me, to |-> r.peer, kind |-> "text", read |-> FALSE]
    OBVIOUS
  <2>2. PICK e : e = [op |-> "new", message |-> m]
    OBVIOUS
  <2>3. ListOf(e) = <<m>> /\ m.id # i
    BY <1>1, <2>1, <2>2 DEF ListOf
  <2>4. ~Brings(e, i)
    BY <2>3, EmptyLists
  <2> QED
    BY <1>11, <2>1, <2>2, <2>4, BringsNothing
<1> QED
  BY <1>2, <1>5, <1>6, <1>7, <1>8, <1>9, <1>10, <1>11 DEF ServerAnswers

\* A message deleted at the server comes back only with an answer composed before it
\* was: when it is neither stored nor under way, no step of the user, the server or a
\* handler stores it or sends it again.
THEOREM DeletedStaysAway == Spec => DeletedForGood
<1>1. ASSUME IInv, [Next]_vars
      PROVE  [\A i \in gone \ DOMAIN messages :
                ~UnderWay(i) => i \notin DOMAIN messages' /\ ~UnderWay(i)']_vars
  <2> SUFFICES ASSUME Next, NEW i \in gone \ DOMAIN messages, ~UnderWay(i)
               PROVE  i \notin DOMAIN messages' /\ ~UnderWay(i)'
    BY <1>1
  <2>1. Away(i)
    BY DEF Away
  <2>2. CASE User
    BY <1>1, <2>1, <2>2, UserBringsNothing, BringsNothing
  <2>3. CASE Handle
    BY <1>1, <2>1, <2>3, ArrivalBringsNothing, BringsNothing
  <2>4. CASE Server
    <3>1. UNCHANGED tables
      BY <2>4 DEF Server, SomeoneWrites, SomeoneReads, OtherPhoneDeletes, OthersChange,
                  ServerAnswers, ConnectionLost
    <3>2. ASSUME ConnectionLost PROVE ~UnderWay(i)'
      BY <1>1, <2>1, <3>2, BringsNothing DEF ConnectionLost
    <3>3. ~UnderWay(i)'
      BY <1>1, <2>1, <2>4, <3>2, OthersBringNothing, AnswersBringNothing DEF Server
    <3> QED
      BY <2>1, <3>1, <3>3 DEF tables, Away
  <2> QED
    BY <2>2, <2>3, <2>4 DEF Next
<1> QED
  BY <1>1, MessageStoreInvariant, PTL DEF Spec, DeletedForGood
=============================================================================
