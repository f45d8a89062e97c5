-------------------------- MODULE DownloadsProofs --------------------------
(***************************************************************************)
(* Proofs about Downloads for any DCs, photos, sizes, parts and bounds.    *)
(* IInv is inductive: a download stands in the tables once, and an answer  *)
(* that finds its download continues it where it stands.                   *)
(***************************************************************************)
EXTENDS Downloads, FiniteSetTheorems, SequenceTheorems, TLAPS

Made == DOMAIN photo
UnderWay == queries \cup replies

\* The tables hold downloads that were made, and none has more than its photo.
OnlyMade ==
  /\ \A dc \in Dcs : \A i \in DOMAIN waiting[dc] : waiting[dc][i] \in Made
  /\ \A x \in DOMAIN inFlight : inFlight[x] \in Made
  /\ active \subseteq Made
  /\ \A f \in Files : IF f \in Made THEN offset[f] <= SizeOf[photo[f]] ELSE offset[f] = 0

\* What is asked for and known is what the download needs next.
AsksNext ==
  \A q \in UnderWay :
    /\ q.file \in Made /\ q.id <= lastId
    /\ q.id \in DOMAIN inFlight => inFlight[q.id] = q.file /\ offset[q.file] = q.offset

\* Who waits for a session that nobody connects has seen an attempt fail.
WaitsForSomething ==
  \A dc \in Dcs :
    /\ link[dc] \in {"none", "unconnected"} =>
         \A i \in DOMAIN waiting[dc] : waiting[dc][i] \in victims
    /\ link[dc] = "connected" => waiting[dc] = <<>>

\* PlacedOnce without its cardinality.
Waits(f) == \E dc \in Dcs : \E i \in DOMAIN waiting[dc] : waiting[dc][i] = f
Flies(f) == \E x \in DOMAIN inFlight : inFlight[x] = f
OnePlace ==
  /\ \A x, y \in DOMAIN inFlight : inFlight[x] = inFlight[y] => x = y
  /\ \A c, d \in Dcs : \A i \in DOMAIN waiting[c], j \in DOMAIN waiting[d] :
        waiting[c][i] = waiting[d][j] => c = d /\ i = j
  /\ \A f \in Files : ~(Waits(f) /\ Flies(f))
SomePlace == \A f \in active \ victims : Waits(f) \/ Flies(f)

IInv ==
  /\ TypeOK /\ OnlyMade /\ AsksNext /\ WaitsForSomething /\ OnePlace /\ SomePlace

---------------------------------------------------------------------------
(* Types. *)

Contents == Seq(Photos \X (Nat \ {0}))

\* What TypeOK says of the tables.
LEMMA Types ==
  ASSUME TypeOK
  PROVE  /\ link \in [Dcs -> Links] /\ waiting \in [Dcs -> Seq(Files)]
         /\ photo \in Seq(Photos) /\ Len(photo) <= MaxFiles /\ offset \in [Files -> Nat]
         /\ active \subseteq Files /\ victims \subseteq Files
         /\ inFlight \in [DOMAIN inFlight -> Files] /\ DOMAIN inFlight \subseteq 1..lastId
         /\ queries \subseteq Query /\ replies \subseteq Query /\ lastId \in Nat
         /\ bytes \in [Files -> Contents]
  BY DEF TypeOK, Contents

\* The downloads made so far.
LEMMA MadeType ==
  ASSUME TypeOK
  PROVE  /\ Made = 1..Len(photo) /\ Made \subseteq Files /\ Len(photo) \in Nat
         /\ \A f \in Made : photo[f] \in Photos
         /\ Len(photo) + 1 \notin Made
  BY Types, BoundsAssumption DEF Made, Files

\* What Api::uploadGetFile does for a list: a new id for each download of it, a
\* query with the offset the download has, and the rest of the table as it was.
Drawn(list, at, table) ==
  /\ lastId' \in Nat /\ lastId <= lastId' /\ \A i \in DOMAIN list : lastId + i <= lastId'
  /\ inFlight' \in [DOMAIN inFlight' -> Files] /\ DOMAIN inFlight' \subseteq 1..lastId'
  /\ \A x \in DOMAIN table : x \in DOMAIN inFlight' /\ inFlight'[x] = table[x]
  /\ \A i \in DOMAIN list : lastId + i \in DOMAIN inFlight' /\ inFlight'[lastId + i] = list[i]
  /\ \A x \in DOMAIN inFlight' : x \in DOMAIN table \/ \E i \in DOMAIN list : x = lastId + i
  /\ queries' \subseteq Query
  /\ \A q \in queries' : \/ q \in queries
                         \/ \E i \in DOMAIN list : /\ q.id = lastId + i /\ q.file = list[i]
                                                   /\ q.offset = at[list[i]]

\* SendParts does so.
LEMMA PartsSent ==
  ASSUME TypeOK, NEW dc \in Dcs, NEW list \in Seq(Files), NEW at \in [Files -> Nat],
         NEW table, table \in [DOMAIN table -> Files], DOMAIN table \subseteq DOMAIN inFlight,
         NEW up \in BOOLEAN, SendParts(dc, list, at, table, up)
  PROVE  Drawn(list, at, table)
<1> DEFINE n == Len(list)
           q(i) == [id |-> lastId + i, dc |-> dc, file |-> list[i], offset |-> at[list[i]]]
<1>1. n \in Nat /\ DOMAIN list = 1..n /\ \A i \in 1..n : list[i] \in Files
  OBVIOUS
<1>2. lastId \in Nat /\ DOMAIN table \subseteq 1..lastId /\ queries \subseteq Query
  BY Types
<1>3. /\ lastId' = lastId + n
      /\ inFlight' = [x \in DOMAIN table \cup {lastId + i : i \in 1..n} |->
                        IF x > lastId THEN list[x - lastId] ELSE table[x]]
      /\ queries' = IF up THEN queries \cup {q(i) : i \in 1..n} ELSE queries
  BY DEF SendParts
<1> HIDE DEF n
<1>4. lastId' \in Nat /\ lastId <= lastId' /\ \A i \in DOMAIN list : lastId + i <= lastId'
  BY <1>1, <1>2, <1>3
<1>5. DOMAIN inFlight' = DOMAIN table \cup {lastId + i : i \in 1..n}
  BY <1>3
<1>6. \A x \in DOMAIN table : x \in DOMAIN inFlight' /\ inFlight'[x] = table[x]
  BY <1>2, <1>3, <1>5
<1>7. \A i \in DOMAIN list : lastId + i \in DOMAIN inFlight' /\ inFlight'[lastId + i] = list[i]
  <2> SUFFICES ASSUME NEW i \in 1..n
               PROVE  lastId + i \in DOMAIN inFlight' /\ inFlight'[lastId + i] = list[i]
    BY <1>1
  <2>1. lastId + i > lastId /\ (lastId + i) - lastId = i
    BY <1>1, <1>2
  <2>2. lastId + i \in DOMAIN inFlight'
    BY <1>5
  <2> QED
    BY <1>3, <2>1, <2>2
<1>8. \A x \in DOMAIN inFlight' : x \in DOMAIN table \/ \E i \in DOMAIN list : x = lastId + i
  BY <1>1, <1>5
<1>9. \A x \in DOMAIN inFlight' : inFlight'[x] \in Files
  BY <1>1, <1>6, <1>7, <1>8
<1>10. inFlight' \in [DOMAIN inFlight' -> Files]
  BY <1>3, <1>5, <1>9
<1>11. DOMAIN inFlight' \subseteq 1..lastId'
  BY <1>1, <1>2, <1>3, <1>8
<1>12. \A i \in 1..n : q(i) \in Query
  <2> SUFFICES ASSUME NEW i \in 1..n PROVE q(i) \in Query
    OBVIOUS
  <2>1. lastId + i \in Nat /\ list[i] \in Files /\ at[list[i]] \in Nat
    BY <1>1, <1>2
  <2> QED
    BY <2>1 DEF Query
<1>13. queries' \subseteq Query
  BY <1>2, <1>3, <1>12
<1>14. \A x \in queries' : \/ x \in queries
                           \/ \E i \in DOMAIN list : /\ x.id = lastId + i /\ x.file = list[i]
                                                     /\ x.offset = at[list[i]]
  <2> SUFFICES ASSUME NEW x \in queries', x \notin queries
               PROVE  \E i \in DOMAIN list : /\ x.id = lastId + i /\ x.file = list[i]
                                              /\ x.offset = at[list[i]]
    OBVIOUS
  <2>1. \A i \in 1..n : q(i).id = lastId + i /\ q(i).file = list[i] /\ q(i).offset = at[list[i]]
    OBVIOUS
  <2>2. PICK i \in 1..n : x = q(i)
    BY <1>3
  <2> HIDE DEF q
  <2> QED
    BY <1>1, <2>1, <2>2
<1> QED
  BY <1>4, <1>6, <1>7, <1>8, <1>10, <1>11, <1>13, <1>14 DEF Drawn

---------------------------------------------------------------------------
(* The beginning, and the steps of the server, the network and the user. *)

\* Nothing is under way at first.
LEMMA Begins == Init => IInv
<1> SUFFICES ASSUME Init PROVE IInv
  OBVIOUS
<1>1. DOMAIN photo = {} /\ DOMAIN inFlight = {} /\ DOMAIN disk = {} /\ Len(photo) = 0
  BY DEF Init
<1>2. photo \in Seq(Photos) /\ <<>> \in Seq(Files)
  BY DEF Init
<1>3. \A dc \in Dcs : waiting[dc] = <<>> /\ DOMAIN waiting[dc] = {}
  BY DEF Init
<1>4. managed \in BOOLEAN /\ crashed \in BOOLEAN
  BY DEF Init
<1>5. inFlight \in [DOMAIN inFlight -> Files]
  BY DEF Init
<1>6. waiting \in [Dcs -> Seq(Files)] /\ link \in [Dcs -> Links]
  BY <1>2 DEF Init, Links
<1>7. TypeOK
  <2>1. <<>> \in Contents
    BY DEF Contents
  <2>2. bytes \in [Files -> Contents]
    BY <2>1 DEF Init
  <2>3. origin \in [DOMAIN disk -> Origin]
    BY <1>1 DEF Init
  <2> QED
    BY <1>1, <1>2, <1>4, <1>5, <1>6, <2>2, <2>3, BoundsAssumption DEF Init, TypeOK, Contents
<1>8. OnlyMade /\ AsksNext /\ WaitsForSomething /\ OnePlace /\ SomePlace
  BY <1>1, <1>3 DEF Init, OnlyMade, AsksNext, WaitsForSomething, OnePlace, SomePlace, Made,
                    UnderWay, Waits, Flies
<1> QED
  BY <1>7, <1>8 DEF IInv

\* Queries and answers come and go: IInv stays when no more is asked than was.
LEMMA LessAsked ==
  ASSUME IInv, UNCHANGED <<managed, photo, memory, stored, lastId, victims>>,
         UnderWay' \subseteq UnderWay, queries' \subseteq Query, replies' \subseteq Query,
         crashed' \in BOOLEAN, runs' \in Nat, lost' \in Nat, recomposed' \in Nat
  PROVE  IInv'
<1>1. TypeOK'
  BY DEF IInv, TypeOK, memory, stored
<1>2. AsksNext'
  BY DEF IInv, AsksNext, Made, memory
<1>3. OnlyMade' /\ WaitsForSomething' /\ OnePlace' /\ SomePlace'
  BY DEF IInv, OnlyMade, WaitsForSomething, OnePlace, SomePlace, Made, Waits, Flies, memory
<1> QED
  BY <1>1, <1>2, <1>3 DEF IInv

\* The steps of the server, and a step that stutters.
LEMMA ServerSteps ==
  ASSUME IInv, NEW q \in queries
  PROVE  /\ ServerSendsPart(q) => IInv'
         /\ ServerRefuses(q) => IInv'
<1> USE DEF Uncounted, counts
<1>1. queries \subseteq Query /\ replies \subseteq Query /\ crashed \in BOOLEAN
      /\ runs \in Nat /\ lost \in Nat /\ recomposed \in Nat
  BY DEF IInv, TypeOK
<1>2. ASSUME ServerSendsPart(q) PROVE IInv'
  BY <1>1, <1>2, LessAsked DEF ServerSendsPart, UnderWay
<1>3. ASSUME ServerRefuses(q) PROVE IInv'
  BY <1>1, <1>3, LessAsked DEF ServerRefuses, UnderWay
<1> QED
  BY <1>2, <1>3

\* An answer to nobody crashes the program.
LEMMA UnknownAnswer ==
  ASSUME IInv, NEW r, OnUnknownAnswer(r)
  PROVE  IInv'
<1>1. queries \subseteq Query /\ replies \subseteq Query
      /\ runs \in Nat /\ lost \in Nat /\ recomposed \in Nat
  BY DEF IInv, TypeOK
<1> QED
  BY <1>1, LessAsked DEF OnUnknownAnswer, UnderWay, wire, counts

\* A step that changes nothing.
LEMMA Stutters == IInv /\ UNCHANGED vars => IInv'
<1>1. ASSUME IInv PROVE queries \subseteq Query /\ replies \subseteq Query
        /\ crashed \in BOOLEAN /\ runs \in Nat /\ lost \in Nat /\ recomposed \in Nat
  BY <1>1 DEF IInv, TypeOK
<1> QED
  BY <1>1, LessAsked DEF vars, UnderWay, wire, counts

\* A query that gets another id is in no table any more.
LEMMA Recomposed ==
  ASSUME IInv, NEW q \in queries, Recompose(q)
  PROVE  IInv'
<1>1. PICK n : n = [q EXCEPT !.id = lastId + 1]
  OBVIOUS
<1>2. q \in Query /\ lastId \in Nat /\ DOMAIN inFlight \subseteq 1..lastId
  BY Types DEF IInv
<1>3. n.id = lastId + 1 /\ n.file = q.file /\ n \in Query
  BY <1>1, <1>2 DEF Query
<1>4. /\ lastId' = lastId + 1 /\ queries' = (queries \ {q}) \cup {n}
      /\ UNCHANGED <<Uncounted, replies, runs, lost>> /\ recomposed' = recomposed + 1
  BY <1>1 DEF Recompose
<1>5. queries' \subseteq Query
  BY <1>3, <1>4, Types DEF IInv
<1>6. TypeOK'
  <2>1. DOMAIN inFlight \subseteq 1..lastId' /\ lastId' \in Nat
    BY <1>2, <1>4
  <2>2. recomposed' \in Nat
    BY <1>4 DEF IInv, TypeOK
  <2> QED
    BY <1>4, <1>5, <2>1, <2>2 DEF IInv, TypeOK, Uncounted, memory, stored
<1>7. AsksNext'
  <2> SUFFICES ASSUME NEW p \in UnderWay'
               PROVE  /\ p.file \in Made /\ p.id <= lastId + 1
                      /\ p.id \in DOMAIN inFlight => inFlight[p.id] = p.file /\ offset[p.file] = p.offset
    BY <1>4 DEF AsksNext, Uncounted, memory, Made
  <2>1. CASE p \in UnderWay
    <3>1. p.id \in Nat
      BY <2>1, Types DEF IInv, UnderWay, Query
    <3> QED
      BY <1>2, <2>1, <3>1 DEF IInv, AsksNext
  <2>2. CASE p = n
    <3>1. q.file \in Made
      BY DEF IInv, AsksNext, UnderWay
    <3>2. lastId + 1 \notin DOMAIN inFlight /\ lastId + 1 <= lastId + 1
      BY <1>2
    <3> QED
      BY <1>3, <2>2, <3>1, <3>2
  <2> QED
    BY <1>4, <2>1, <2>2 DEF UnderWay
<1>8. OnlyMade' /\ WaitsForSomething' /\ OnePlace' /\ SomePlace'
  BY <1>4 DEF IInv, OnlyMade, WaitsForSomething, OnePlace, SomePlace, Made, Waits, Flies, memory,
              Uncounted
<1> QED
  BY <1>6, <1>7, <1>8 DEF IInv

\* A lost connection leaves the downloads where they stand, and notes who waited.
LEMMA Disconnected ==
  ASSUME IInv, NEW dc \in Dcs, ConnectionLost(dc)
  PROVE  IInv'
<1>1. /\ link' = [link EXCEPT ![dc] = "unconnected"]
      /\ victims' = victims \cup {waiting[dc][i] : i \in DOMAIN waiting[dc]}
      /\ lost' = lost + 1 /\ queries' \subseteq queries /\ replies' \subseteq replies
      /\ UNCHANGED <<managed, photo, offset, bytes, active, waiting, inFlight, open, stored,
                     lastId, crashed, runs, recomposed>>
  BY DEF ConnectionLost
<1>2. link \in [Dcs -> Links] /\ waiting \in [Dcs -> Seq(Files)] /\ victims \subseteq Files
  BY Types DEF IInv
<1>3. link' \in [Dcs -> Links]
  BY <1>1, <1>2 DEF Links
<1>4. \A i \in DOMAIN waiting[dc] : waiting[dc][i] \in Files
  BY <1>2
<1>5. victims' \subseteq Files /\ victims \subseteq victims'
  BY <1>1, <1>2, <1>4
<1>6. TypeOK'
  <2>1. lost' \in Nat /\ queries' \subseteq Query /\ replies' \subseteq Query
    BY <1>1, Types DEF IInv, TypeOK
  <2> QED
    BY <1>1, <1>3, <1>5, <2>1 DEF IInv, TypeOK, stored
<1>7. AsksNext' /\ OnlyMade' /\ OnePlace' /\ SomePlace'
  BY <1>1, <1>5 DEF IInv, AsksNext, UnderWay, OnlyMade, OnePlace, SomePlace, Made, Waits, Flies
<1>8. WaitsForSomething'
  BY <1>1, <1>2, <1>5 DEF IInv, WaitsForSomething
<1> QED
  BY <1>6, <1>7, <1>8 DEF IInv

\* A program that ends leaves nothing under way.
LEMMA Ended ==
  ASSUME IInv, Exit
  PROVE  IInv'
<1>1. DOMAIN inFlight' = {} /\ inFlight' = <<>>
  BY DEF Exit
<1>2. \A dc \in Dcs : waiting'[dc] = <<>> /\ DOMAIN waiting'[dc] = {}
  BY DEF Exit
<1>3. <<>> \in Seq(Files)
  OBVIOUS
<1>4. waiting' \in [Dcs -> Seq(Files)] /\ link' \in [Dcs -> Links]
  BY <1>3 DEF Exit, Links
<1>5. inFlight' \in [DOMAIN inFlight' -> Files]
  BY <1>1
<1>6. managed' \in BOOLEAN /\ crashed' \in BOOLEAN
  BY DEF Exit, IInv, TypeOK
<1>7. runs' \in Nat
  BY DEF Exit, IInv, TypeOK
<1>8. TypeOK'
  BY <1>1, <1>4, <1>5, <1>6, <1>7 DEF Exit, IInv, TypeOK, stored
<1>9. OnlyMade' /\ AsksNext' /\ WaitsForSomething' /\ OnePlace' /\ SomePlace'
  BY <1>1, <1>2 DEF Exit, IInv, OnlyMade, AsksNext, WaitsForSomething, OnePlace, SomePlace, Made,
                    UnderWay, Waits, Flies
<1> QED
  BY <1>8, <1>9 DEF IInv
---------------------------------------------------------------------------
(* Asking. *)

\* Who flies after a list has been sent.
AskedOnce(list, table) ==
  /\ \A x \in DOMAIN inFlight' : inFlight'[x] \in Made'
  /\ \A x, y \in DOMAIN inFlight' : inFlight'[x] = inFlight'[y] => x = y
  /\ \A f \in Files : (Flies(f))' <=> \/ \E x \in DOMAIN table : table[x] = f
                                      \/ \E i \in DOMAIN list : list[i] = f

\* What is asked for anew stands in the table once and is known there.
LEMMA Asked ==
  ASSUME IInv, NEW list \in Seq(Files), NEW at \in [Files -> Nat],
         NEW table, DOMAIN table \subseteq DOMAIN inFlight,
         \A x \in DOMAIN table : table[x] = inFlight[x] /\ at[table[x]] = offset[table[x]],
         Drawn(list, at, table),
         \A i, j \in DOMAIN list : list[i] = list[j] => i = j,
         \A x \in DOMAIN table : \A i \in DOMAIN list : table[x] # list[i],
         \A i \in DOMAIN list : list[i] \in Made', Made \subseteq Made',
         offset' = at, replies' \subseteq replies
  PROVE  AsksNext' /\ AskedOnce(list, table)
<1>1. TypeOK
  BY DEF IInv
<1>2. /\ lastId' \in Nat /\ lastId <= lastId' /\ \A i \in DOMAIN list : lastId + i <= lastId'
      /\ \A x \in DOMAIN table : x \in DOMAIN inFlight' /\ inFlight'[x] = table[x]
      /\ \A i \in DOMAIN list : lastId + i \in DOMAIN inFlight' /\ inFlight'[lastId + i] = list[i]
      /\ \A x \in DOMAIN inFlight' : x \in DOMAIN table \/ \E i \in DOMAIN list : x = lastId + i
      /\ \A q \in queries' : \/ q \in queries
                             \/ \E i \in DOMAIN list : /\ q.id = lastId + i /\ q.file = list[i]
                                                       /\ q.offset = at[list[i]]
  BY DEF Drawn
<1>3. lastId \in Nat /\ queries \subseteq Query /\ replies \subseteq Query
  BY <1>1, Types
<1>4. \A x \in DOMAIN table : table[x] \in Made
  BY DEF IInv, OnlyMade
<1>5. \A x \in DOMAIN inFlight' : inFlight'[x] \in Made'
  BY <1>2, <1>4
<1>6. \A x, y \in DOMAIN table : table[x] = table[y] => x = y
  BY DEF IInv, OnePlace
<1>7. \A x, y \in DOMAIN inFlight' : inFlight'[x] = inFlight'[y] => x = y
  BY <1>2, <1>6
<1>8. \A f \in Files : (Flies(f))' <=> \/ \E x \in DOMAIN table : table[x] = f
                                       \/ \E i \in DOMAIN list : list[i] = f
  BY <1>2 DEF Flies
<1>9. AsksNext'
  <2> SUFFICES ASSUME NEW q \in UnderWay'
               PROVE  /\ q.file \in Made' /\ q.id <= lastId'
                      /\ q.id \in DOMAIN inFlight' =>
                           inFlight'[q.id] = q.file /\ at[q.file] = q.offset
    BY DEF AsksNext
  <2>1. CASE q \in UnderWay
    <3>1. q.id \in Nat /\ q.file \in Made /\ q.id <= lastId
          /\ (q.id \in DOMAIN inFlight => inFlight[q.id] = q.file /\ offset[q.file] = q.offset)
      BY <1>3, <2>1 DEF UnderWay, Query, IInv, AsksNext
    <3>2. q.id <= lastId'
      BY <1>2, <1>3, <3>1
    <3>3. \A i \in DOMAIN list : q.id # lastId + i
      BY <1>3, <3>1
    <3>4. ASSUME q.id \in DOMAIN inFlight'
          PROVE  inFlight'[q.id] = q.file /\ at[q.file] = q.offset
      <4>1. q.id \in DOMAIN table
        BY <1>2, <3>3, <3>4
      <4>2. q.id \in DOMAIN inFlight /\ inFlight'[q.id] = table[q.id] /\ table[q.id] = inFlight[q.id]
            /\ at[table[q.id]] = offset[table[q.id]]
        BY <1>2, <4>1
      <4> QED
        BY <3>1, <4>2
    <3> QED
      BY <3>1, <3>2, <3>4
  <2>2. CASE q \in queries' /\ q \notin queries
    <3>1. PICK i \in DOMAIN list : q.id = lastId + i /\ q.file = list[i] /\ q.offset = at[list[i]]
      BY <1>2, <2>2
    <3> QED
      BY <1>2, <3>1
  <2> QED
    BY <2>1, <2>2 DEF UnderWay
<1> QED
  BY <1>5, <1>7, <1>8, <1>9 DEF AskedOnce

\* The rows are of photos and of downloads.
LEMMA Registered ==
  ASSUME TypeOK, NEW f \in Files, NEW p \in Photos, Register(f, p) \/ RegisterOwn(f, p)
  PROVE  rows' \subseteq Row
<1>1. [id |-> p, messageid |-> f, type |-> "userprofile"] \in Row
      /\ [id |-> p, messageid |-> f, type |-> "userphotomsgid"] \in Row
  BY DEF Row
<1>2. rows \subseteq Row
  BY DEF TypeOK
<1> QED
  BY <1>1, <1>2 DEF Register, RegisterOwn

\* A new download stands nowhere yet, and is sent or waits for its session.
LEMMA Thumb ==
  ASSUME IInv, NEW p \in Photos, UploadGetFile(p), rows' \subseteq Row
  PROVE  IInv'
<1>1. PICK f : f = Len(photo) + 1
  OBVIOUS
<1>2. /\ f \in Files /\ photo' = Append(photo, p) /\ active' = active \cup {f}
      /\ Enter(f, DcOf[p])
      /\ UNCHANGED <<managed, offset, bytes, open, disk, origin, replies, crashed, victims,
                     counts>>
  BY <1>1 DEF UploadGetFile
<1> DEFINE dc == DcOf[p]
<1>3. dc \in Dcs
  BY PhotosAssumption
<1> HIDE DEF dc
<1>4. TypeOK
  BY DEF IInv
<1>5. /\ Made' = Made \cup {f} /\ f \notin Made /\ Made \subseteq Files
      /\ photo' \in Seq(Photos) /\ Len(photo') <= MaxFiles
      /\ \A g \in Made : photo'[g] = photo[g]
      /\ photo'[f] = p
  <2>1. photo \in Seq(Photos) /\ Made = 1..Len(photo) /\ Len(photo) \in Nat /\ Made \subseteq Files
    BY <1>4, Types, MadeType
  <2>2. Len(photo') = f /\ photo' \in Seq(Photos) /\ DOMAIN photo' = 1..f
    BY <1>1, <1>2, <2>1
  <2>3. \A g \in 1..Len(photo) : photo'[g] = photo[g]
    BY <1>2, <2>1
  <2>4. photo'[f] = p
    BY <1>1, <1>2, <2>1
  <2>5. f <= MaxFiles
    BY <1>2, BoundsAssumption DEF Files
  <2>6. 1..f = 1..Len(photo) \cup {f} /\ f \notin 1..Len(photo)
    BY <1>1, <2>1
  <2> QED
    BY <2>1, <2>2, <2>3, <2>4, <2>5, <2>6 DEF Made
<1>6. rows' \subseteq Row
  OBVIOUS
<1>7. active' \subseteq Files /\ active' \subseteq Made'
  BY <1>2, <1>4, <1>5, Types DEF IInv, OnlyMade
<1>8. \A g \in Files : IF g \in Made' THEN offset'[g] <= SizeOf[photo'[g]] ELSE offset'[g] = 0
  <2>1. offset[f] = 0 /\ SizeOf[p] \in Nat
    BY <1>2, <1>5, PhotosAssumption DEF IInv, OnlyMade
  <2>2. offset'[f] <= SizeOf[photo'[f]]
    BY <1>2, <1>5, <2>1
  <2>3. \A g \in Made : offset'[g] <= SizeOf[photo'[g]]
    BY <1>2, <1>5 DEF IInv, OnlyMade
  <2>4. \A g \in Files \ Made : offset'[g] = 0
    BY <1>2 DEF IInv, OnlyMade
  <2> QED
    BY <1>5, <2>2, <2>3, <2>4
<1>9. ~Waits(f) /\ ~Flies(f)
  BY <1>5 DEF IInv, OnlyMade, Waits, Flies
<1>10. /\ link \in [Dcs -> Links] /\ waiting \in [Dcs -> Seq(Files)]
       /\ inFlight \in [DOMAIN inFlight -> Files] /\ DOMAIN inFlight \subseteq 1..lastId
       /\ queries \subseteq Query /\ lastId \in Nat /\ offset \in [Files -> Nat]
  BY <1>4, Types
<1>11. /\ \A d \in Dcs : \A i \in DOMAIN waiting[d] : waiting[d][i] \in Made'
       /\ \A x \in DOMAIN inFlight : inFlight[x] \in Made'
  BY <1>5 DEF IInv, OnlyMade
<1>12. ASSUME link' \in [Dcs -> Links], waiting' \in [Dcs -> Seq(Files)],
              inFlight' \in [DOMAIN inFlight' -> Files], DOMAIN inFlight' \subseteq 1..lastId',
              queries' \subseteq Query, lastId' \in Nat,
              \A d \in Dcs : \A i \in DOMAIN waiting'[d] : waiting'[d][i] \in Made',
              \A x \in DOMAIN inFlight' : inFlight'[x] \in Made'
       PROVE  TypeOK' /\ OnlyMade'
  <2>1. TypeOK'
    BY <1>2, <1>5, <1>6, <1>7, <1>10, <1>12 DEF IInv, TypeOK, counts
  <2>2. OnlyMade'
    BY <1>7, <1>8, <1>12 DEF OnlyMade
  <2> QED
    BY <2>1, <2>2
<1>13. ASSUME UNCHANGED <<inFlight, queries, lastId>>
       PROVE  AsksNext'
  BY <1>2, <1>5, <1>13 DEF IInv, AsksNext, UnderWay
<1>14. CASE link[dc] = "connected"
  <2>1. SendParts(dc, <<f>>, offset, inFlight, TRUE) /\ link' = link /\ waiting' = waiting
    BY <1>2, <1>14 DEF Enter, dc
  <2>2. PICK list : list = <<f>>
    OBVIOUS
  <2>3. list \in Seq(Files) /\ DOMAIN list = {1} /\ list[1] = f
    BY <1>2, <2>2
  <2>4. \A x \in DOMAIN inFlight : \A i \in DOMAIN list : inFlight[x] # list[i]
    BY <1>9, <2>3 DEF Flies
  <2>5. SendParts(dc, list, offset, inFlight, TRUE)
    BY <2>1, <2>2
  <2>6. Drawn(list, offset, inFlight)
    BY <1>3, <1>4, <1>10, <2>3, <2>5, PartsSent
  <2>7. AsksNext' /\ AskedOnce(list, inFlight)
    <3>1. \A i \in DOMAIN list : list[i] \in Made'
      BY <1>5, <2>3
    <3>2. \A i, j \in DOMAIN list : list[i] = list[j] => i = j
      BY <2>3
    <3>3. Made \subseteq Made' /\ offset' = offset /\ replies' \subseteq replies
      BY <1>2, <1>5
    <3> QED
      BY <1>10, <2>3, <2>4, <2>6, <3>1, <3>2, <3>3, Asked
  <2>8. TypeOK' /\ OnlyMade'
    BY <1>10, <1>11, <1>12, <2>1, <2>6, <2>7 DEF Drawn, AskedOnce
  <2>9. \A g \in Files : /\ (Waits(g))' <=> Waits(g)
                         /\ (Flies(g))' <=> Flies(g) \/ g = f
    BY <2>1, <2>3, <2>7 DEF Waits, Flies, AskedOnce
  <2>10. WaitsForSomething'
    BY <1>2, <2>1 DEF IInv, WaitsForSomething
  <2>11. OnePlace'
    BY <1>9, <2>1, <2>7, <2>9 DEF IInv, OnePlace, AskedOnce
  <2>12. SomePlace'
    <3>1. active' \subseteq Files /\ victims' = victims
      BY <1>2, <1>7
    <3> QED
      BY <1>2, <2>9, <3>1 DEF IInv, SomePlace
  <2> QED
    BY <2>7, <2>8, <2>10, <2>11, <2>12 DEF IInv
<1>15. CASE link[dc] # "connected"
  <2>1. PICK old \in Seq(Files) :
          /\ link' = [link EXCEPT ![dc] = "connecting"]
          /\ waiting' = [waiting EXCEPT ![dc] = Append(old, f)]
          /\ UNCHANGED <<inFlight, queries, lastId>>
          /\ \/ old = waiting[dc]
             \/ DOMAIN old = {} /\ \A i \in DOMAIN waiting[dc] : waiting[dc][i] \in victims
    <3>1. CASE link[dc] = "connecting"
      <4>1. link' = link /\ waiting' = [waiting EXCEPT ![dc] = Append(waiting[dc], f)]
            /\ UNCHANGED <<inFlight, queries, lastId>>
        BY <1>2, <3>1 DEF Enter, dc
      <4>2. link' = [link EXCEPT ![dc] = "connecting"]
        BY <1>3, <1>10, <3>1, <4>1
      <4>3. waiting[dc] \in Seq(Files)
        BY <1>3, <1>10
      <4> QED
        BY <4>1, <4>2, <4>3
    <3>2. CASE link[dc] \in {"none", "unconnected"}
      <4>1. link' = [link EXCEPT ![dc] = "connecting"] /\ waiting' = [waiting EXCEPT ![dc] = <<f>>]
            /\ UNCHANGED <<inFlight, queries, lastId>>
        BY <1>2, <3>2 DEF Enter, dc
      <4>2. PICK old : old = <<>>
        OBVIOUS
      <4>3. old \in Seq(Files) /\ DOMAIN old = {} /\ Append(old, f) = <<f>>
        BY <4>2
      <4>4. \A i \in DOMAIN waiting[dc] : waiting[dc][i] \in victims
        BY <1>3, <3>2 DEF IInv, WaitsForSomething
      <4> QED
        BY <4>1, <4>3, <4>4
    <3> QED
      BY <1>3, <1>10, <1>15, <3>1, <3>2 DEF Links
  <2>2. link' \in [Dcs -> Links] /\ link'[dc] = "connecting"
        /\ \A d \in Dcs \ {dc} : link'[d] = link[d]
    BY <1>3, <1>10, <2>1 DEF Links
  <2>3. PICK m \in Nat : m = Len(old)
    BY <2>1
  <2>4. /\ DOMAIN Append(old, f) = DOMAIN old \cup {m + 1} /\ DOMAIN old = 1..m
        /\ \A i \in DOMAIN old : Append(old, f)[i] = old[i]
        /\ Append(old, f)[m + 1] = f /\ Append(old, f) \in Seq(Files)
    BY <1>2, <2>1, <2>3
  <2>5. /\ waiting' \in [Dcs -> Seq(Files)]
        /\ DOMAIN waiting'[dc] = DOMAIN old \cup {m + 1} /\ m + 1 \notin DOMAIN old
        /\ \A i \in DOMAIN old : waiting'[dc][i] = old[i]
        /\ waiting'[dc][m + 1] = f
        /\ \A d \in Dcs \ {dc} : waiting'[d] = waiting[d]
    BY <1>3, <1>10, <2>1, <2>4
  <2>6. \A d \in Dcs : \A i \in DOMAIN waiting'[d] :
           \/ waiting'[d][i] = waiting[d][i] /\ i \in DOMAIN waiting[d] /\ waiting[d][i] # f
           \/ d = dc /\ i = m + 1 /\ waiting'[d][i] = f
    <3>1. \A d \in Dcs : \A i \in DOMAIN waiting[d] : waiting[d][i] # f
      BY <1>9 DEF Waits
    <3> QED
      BY <1>3, <2>1, <2>5, <3>1
  <2>7. \A d \in Dcs : \A i \in DOMAIN waiting'[d] : waiting'[d][i] \in Made'
    BY <1>5, <1>11, <2>6
  <2>8. TypeOK' /\ OnlyMade'
    BY <1>10, <1>11, <1>12, <2>1, <2>2, <2>5, <2>7
  <2>9. WaitsForSomething'
    BY <1>2, <2>2, <2>5 DEF IInv, WaitsForSomething
  <2>10. OnePlace'
    <3>1. \A c, d \in Dcs : \A i \in DOMAIN waiting'[c], j \in DOMAIN waiting'[d] :
             waiting'[c][i] = waiting'[d][j] => c = d /\ i = j
      BY <2>6 DEF IInv, OnePlace
    <3>2. \A g \in Files : (Waits(g))' => Waits(g) \/ g = f
      BY <2>6 DEF Waits
    <3>3. \A g \in Files : (Flies(g))' <=> Flies(g)
      BY <2>1 DEF Flies
    <3> QED
      BY <1>9, <2>1, <3>1, <3>2, <3>3 DEF IInv, OnePlace
  <2>11. SomePlace'
    <3>1. \A g \in Files : Waits(g) => (Waits(g))' \/ g \in victims
      BY <1>3, <2>1, <2>5 DEF Waits
    <3>2. \A g \in Files : (Flies(g))' <=> Flies(g)
      BY <2>1 DEF Flies
    <3>3. (Waits(f))'
      BY <1>3, <2>5 DEF Waits
    <3>4. active \subseteq Files
      BY <1>4, Types
    <3> QED
      BY <1>2, <3>1, <3>2, <3>3, <3>4 DEF IInv, SomePlace
  <2> QED
    BY <1>13, <2>1, <2>8, <2>9, <2>10, <2>11 DEF IInv
<1> QED
  BY <1>14, <1>15

\* Whoever asks for a photo notes a row for it.
LEMMA Downloading ==
  ASSUME IInv, NEW p \in Photos, UploadGetFile(p),
         Register(Len(photo) + 1, p) \/ RegisterOwn(Len(photo) + 1, p)
  PROVE  IInv'
<1>1. Len(photo) + 1 \in Files
  BY DEF UploadGetFile
<1>2. rows' \subseteq Row
  BY <1>1, Registered DEF IInv
<1> QED
  BY <1>2, Thumb

\* A session that has come up asks for all who waited for it, each once.
LEMMA SessionCreated ==
  ASSUME IInv, NEW dc \in Dcs, OnUploadGetFileSessionCreated(dc)
  PROVE  IInv'
<1>1. PICK list : list = waiting[dc]
  OBVIOUS
<1>2. /\ link[dc] = "connecting" /\ link' = [link EXCEPT ![dc] = "connected"]
      /\ waiting' = [waiting EXCEPT ![dc] = <<>>]
      /\ SendParts(dc, list, offset, inFlight, TRUE)
      /\ UNCHANGED <<managed, photo, offset, bytes, active, open, stored, replies, crashed,
                     victims, counts>>
  BY <1>1 DEF OnUploadGetFileSessionCreated
<1>3. TypeOK
  BY DEF IInv
<1>4. /\ link \in [Dcs -> Links] /\ waiting \in [Dcs -> Seq(Files)]
      /\ inFlight \in [DOMAIN inFlight -> Files] /\ offset \in [Files -> Nat]
      /\ active \subseteq Files /\ photo \in Seq(Photos)
  BY <1>3, Types
<1>5. list \in Seq(Files)
  BY <1>1, <1>4
<1>6. Drawn(list, offset, inFlight)
  BY <1>2, <1>3, <1>4, <1>5, PartsSent
<1>7. Made' = Made
  BY <1>2 DEF Made
<1>8. AsksNext' /\ AskedOnce(list, inFlight)
  <2>1. \A i, j \in DOMAIN list : list[i] = list[j] => i = j
    BY <1>1 DEF IInv, OnePlace
  <2>2. \A x \in DOMAIN inFlight : \A i \in DOMAIN list : inFlight[x] # list[i]
    <3> SUFFICES ASSUME NEW x \in DOMAIN inFlight, NEW i \in DOMAIN list, inFlight[x] = list[i]
                 PROVE  FALSE
      OBVIOUS
    <3>1. Flies(list[i]) /\ Waits(list[i]) /\ list[i] \in Files
      BY <1>1, <1>5 DEF Flies, Waits
    <3> QED
      BY <3>1 DEF IInv, OnePlace
  <2>3. \A i \in DOMAIN list : list[i] \in Made'
    BY <1>1, <1>7 DEF IInv, OnlyMade
  <2>4. offset' = offset /\ replies' \subseteq replies /\ Made \subseteq Made'
    BY <1>2, <1>7
  <2> QED
    BY <1>4, <1>5, <1>6, <2>1, <2>2, <2>3, <2>4, Asked
<1>9. <<>> \in Seq(Files) /\ DOMAIN <<>> = {}
  OBVIOUS
<1>10. /\ waiting' \in [Dcs -> Seq(Files)] /\ waiting'[dc] = <<>> /\ DOMAIN waiting'[dc] = {}
       /\ \A d \in Dcs \ {dc} : waiting'[d] = waiting[d]
  BY <1>2, <1>4, <1>9
<1>11. /\ link' \in [Dcs -> Links] /\ link'[dc] = "connected"
       /\ \A d \in Dcs \ {dc} : link'[d] = link[d]
  BY <1>2, <1>4 DEF Links
<1>12. TypeOK'
  BY <1>2, <1>6, <1>10, <1>11 DEF IInv, TypeOK, stored, counts, Drawn
<1>13. OnlyMade'
  BY <1>2, <1>7, <1>8, <1>10 DEF IInv, OnlyMade, AskedOnce
<1>14. WaitsForSomething'
  BY <1>2, <1>10, <1>11 DEF IInv, WaitsForSomething
<1>15. \A f \in Files : Waits(f) <=> (Waits(f))' \/ \E i \in DOMAIN list : list[i] = f
  BY <1>1, <1>10 DEF Waits
<1>16. \A f \in Files : (Flies(f))' <=> Flies(f) \/ \E i \in DOMAIN list : list[i] = f
  BY <1>8 DEF AskedOnce, Flies
<1>17. OnePlace'
  <2>1. \A c, d \in Dcs : \A i \in DOMAIN waiting'[c], j \in DOMAIN waiting'[d] :
           waiting'[c][i] = waiting'[d][j] => c = d /\ i = j
    BY <1>10 DEF IInv, OnePlace
  <2>2. \A f \in Files : (Waits(f))' => Waits(f) /\ ~\E i \in DOMAIN list : list[i] = f
    BY <1>1, <1>10 DEF IInv, OnePlace, Waits
  <2> QED
    BY <1>8, <1>16, <2>1, <2>2 DEF IInv, OnePlace, AskedOnce
<1>18. SomePlace'
  BY <1>2, <1>4, <1>15, <1>16 DEF IInv, SomePlace
<1> QED
  BY <1>8, <1>12, <1>13, <1>14, <1>17, <1>18 DEF IInv

---------------------------------------------------------------------------
(* Receiving. *)

\* A part is a sequence of units of its photo.
LEMMA PartType ==
  ASSUME NEW p \in Photos, NEW at \in Nat
  PROVE  \E n \in Nat :
           /\ n = IF SizeOf[p] <= at THEN 0
                  ELSE IF SizeOf[p] - at < Block THEN SizeOf[p] - at ELSE Block
           /\ Part(p, at) = [i \in 1..n |-> <<p, at + i>>] /\ Len(Part(p, at)) = n
           /\ Part(p, at) \in Contents
<1>1. SizeOf[p] \in Nat /\ Block \in Nat
  BY PhotosAssumption
<1>2. PICK n : n = IF SizeOf[p] <= at THEN 0
                   ELSE IF SizeOf[p] - at < Block THEN SizeOf[p] - at ELSE Block
  OBVIOUS
<1>3. n \in Nat
  BY <1>1, <1>2
<1>4. Part(p, at) = [i \in 1..n |-> <<p, at + i>>]
  BY <1>2 DEF Part
<1>5. \A i \in 1..n : <<p, at + i>> \in Photos \X (Nat \ {0})
  <2> SUFFICES ASSUME NEW i \in 1..n PROVE <<p, at + i>> \in Photos \X (Nat \ {0})
    OBVIOUS
  <2>1. at + i \in Nat \ {0}
    BY <1>3
  <2> QED
    BY <2>1
<1>6. Part(p, at) \in Contents
  <2>1. [i \in 1..n |-> <<p, at + i>>] \in [1..n -> Photos \X (Nat \ {0})]
    BY <1>5
  <2> QED
    BY <1>3, <1>4, <2>1, SeqDef DEF Contents
<1>7. Len(Part(p, at)) = n
  BY <1>3, <1>4
<1> QED
  BY <1>2, <1>3, <1>4, <1>6, <1>7

\* It does not go beyond the end of the photo, and reaches it when it is not full.
LEMMA PartOfPhoto ==
  ASSUME NEW p \in Photos, NEW at \in Nat, at <= SizeOf[p]
  PROVE  /\ SizeOf[p] \in Nat /\ Len(Part(p, at)) \in Nat /\ Part(p, at) \in Contents
         /\ at + Len(Part(p, at)) <= SizeOf[p]
         /\ Len(Part(p, at)) # Block => at + Len(Part(p, at)) = SizeOf[p]
<1>1. SizeOf[p] \in Nat /\ Block \in Nat
  BY PhotosAssumption
<1>2. PICK n \in Nat : /\ n = IF SizeOf[p] <= at THEN 0
                              ELSE IF SizeOf[p] - at < Block THEN SizeOf[p] - at ELSE Block
                       /\ Len(Part(p, at)) = n /\ Part(p, at) \in Contents
  BY PartType
<1>3. at + n <= SizeOf[p] /\ (n # Block => at + n = SizeOf[p])
  BY <1>1, <1>2
<1> QED
  BY <1>1, <1>2, <1>3

\* What TypeOK says of the disk.
DiskOK ==
  /\ open \in DOMAIN disk \cup {None} /\ DOMAIN disk \subseteq Names
  /\ origin \in [DOMAIN disk -> Origin]
  /\ \A n \in DOMAIN disk : disk[n] \in Contents

\* A file that is opened has an origin of the right type.
LEMMA OpenedType ==
  ASSUME TypeOK, NEW f \in Files, NEW close \in BOOLEAN
  PROVE  /\ OpenedFor(f, close) \in Origin
         /\ OpenedFor(f, close).file = f /\ OpenedFor(f, close).at = offset[f]
         /\ OpenedFor(f, close).named <=> Owns(f) # {}
         /\ OpenedFor(f, close).collected <=> managed
         /\ OpenedFor(f, close).shared <=> ~close
<1>1. PICK named \in BOOLEAN : named <=> Owns(f) # {}
  OBVIOUS
<1>2. PICK shared \in BOOLEAN : shared <=> ~close
  OBVIOUS
<1>3. offset[f] \in Nat /\ managed \in BOOLEAN
  BY DEF TypeOK
<1>4. PICK o : o = [file |-> f, at |-> offset[f], named |-> named, collected |-> managed,
                    shared |-> shared]
  OBVIOUS
<1>5. o \in Origin
  BY <1>3, <1>4 DEF Origin
<1>6. o.file = f /\ o.at = offset[f] /\ o.named = named /\ o.collected = managed
      /\ o.shared = shared
  BY <1>4
<1>7. (Owns(f) # {}) = named /\ (~close) = shared
  BY <1>1, <1>2
<1>8. OpenedFor(f, close) = o
  BY <1>4, <1>7 DEF OpenedFor
<1> QED
  BY <1>1, <1>2, <1>5, <1>6, <1>8

\* A name the download may write under.
LEMMA NamesOK ==
  ASSUME TypeOK, NEW f, NEW name \in NamesFor(f)
  PROVE  name \in Names
<1>1. \A r \in rows : r.id \in Photos
  BY DEF TypeOK, Row
<1> QED
  BY <1>1 DEF NamesFor, Owns, Names

\* Writing to the open file or a new one.
LEMMA Written ==
  ASSUME TypeOK, NEW f \in Files, NEW data \in Contents, NEW partial, Store(f, data, partial)
  PROVE  DiskOK'
<1>1. DiskOK
  BY DEF TypeOK, DiskOK, Contents
<1>2. PICK close \in BOOLEAN :
        \/ /\ open = None
           /\ \E name \in NamesFor(f) :
                /\ disk' = [n \in DOMAIN disk \cup {name} |-> IF n = name THEN data ELSE disk[n]]
                /\ origin' = [n \in DOMAIN disk' |->
                                IF n = name THEN OpenedFor(f, close) ELSE origin[n]]
                /\ open' = IF close THEN None ELSE name
        \/ /\ open # None
           /\ disk' = [disk EXCEPT ![open] = @ \o data] /\ origin' = origin
           /\ open' = IF close THEN None ELSE open
  BY DEF Store
<1>3. CASE open = None
  <2>1. PICK name \in NamesFor(f) :
          /\ disk' = [n \in DOMAIN disk \cup {name} |-> IF n = name THEN data ELSE disk[n]]
          /\ origin' = [n \in DOMAIN disk' |->
                          IF n = name THEN OpenedFor(f, close) ELSE origin[n]]
          /\ open' = IF close THEN None ELSE name
    BY <1>2, <1>3
  <2>2. name \in Names /\ OpenedFor(f, close) \in Origin
    BY NamesOK, OpenedType
  <2>3. DOMAIN disk' = DOMAIN disk \cup {name}
    BY <2>1
  <2>4. open' \in DOMAIN disk' \cup {None} /\ DOMAIN disk' \subseteq Names
    BY <1>1, <2>1, <2>2, <2>3 DEF DiskOK
  <2>5. \A n \in DOMAIN disk' : disk'[n] \in Contents
    BY <1>1, <2>1, <2>3 DEF DiskOK
  <2>6. \A n \in DOMAIN disk' :
          (IF n = name THEN OpenedFor(f, close) ELSE origin[n]) \in Origin
    BY <1>1, <2>2, <2>3 DEF DiskOK
  <2>7. origin' \in [DOMAIN disk' -> Origin]
    BY <2>1, <2>6
  <2> QED
    BY <2>4, <2>5, <2>7 DEF DiskOK
<1>4. CASE open # None
  <2>1. /\ disk' = [disk EXCEPT ![open] = disk[open] \o data] /\ origin' = origin
        /\ open' = IF close THEN None ELSE open
    BY <1>2, <1>4
  <2>2. open \in DOMAIN disk /\ disk[open] \in Contents
    BY <1>1, <1>4 DEF DiskOK
  <2>3. disk[open] \o data \in Contents
    BY <2>2 DEF Contents
  <2>4. DOMAIN disk' = DOMAIN disk
    BY <2>1
  <2>5. \A n \in DOMAIN disk' : disk'[n] \in Contents
    BY <1>1, <2>1, <2>3, <2>4 DEF DiskOK
  <2> QED
    BY <1>1, <2>1, <2>2, <2>4, <2>5 DEF DiskOK
<1> QED
  BY <1>3, <1>4

\* What an answer that is known says of its download.
LEMMA Known ==
  ASSUME IInv, NEW r \in replies, r.id \in DOMAIN inFlight
  PROVE  /\ r \in Query /\ r.file \in Files /\ r.file \in Made /\ r.offset \in Nat /\ r.dc \in Dcs
         /\ inFlight[r.id] = r.file /\ offset[r.file] = r.offset
         /\ r.offset <= SizeOf[photo[r.file]]
<1>1. r \in Query
  BY Types DEF IInv
<1>2. r.file \in Files /\ r.offset \in Nat /\ r.dc \in Dcs
  BY <1>1 DEF Query
<1>3. r.file \in Made /\ inFlight[r.id] = r.file /\ offset[r.file] = r.offset
  BY DEF IInv, AsksNext, UnderWay
<1> QED
  BY <1>1, <1>2, <1>3 DEF IInv, OnlyMade

\* What the two answers to an answer have in common.
Receives(r) ==
  /\ DiskOK' /\ bytes' \in [Files -> Contents] /\ rows' = rows /\ replies' = replies \ {r}
  /\ UNCHANGED <<managed, link, photo, waiting, crashed, victims, counts>>

\* The download that is done leaves the tables.
LEMMA Done ==
  ASSUME IInv, NEW r \in replies, r.id \in DOMAIN inFlight, Receives(r), FinishDownload(r)
  PROVE  IInv'
<1>1. /\ active' = active \ {r.file} /\ inFlight' = [x \in DOMAIN inFlight \ {r.id} |-> inFlight[x]]
      /\ UNCHANGED <<offset, bytes, queries, lastId>>
  BY DEF FinishDownload, Answered
<1>2. /\ DiskOK' /\ bytes' \in [Files -> Contents] /\ rows' = rows /\ replies' = replies \ {r}
      /\ UNCHANGED <<managed, link, photo, waiting, crashed, victims, counts>>
  BY DEF Receives
<1>3. r.file \in Files /\ inFlight[r.id] = r.file
  BY Known
<1>4. inFlight \in [DOMAIN inFlight -> Files] /\ DOMAIN inFlight \subseteq 1..lastId
      /\ active \subseteq Files /\ replies \subseteq Query
  BY Types DEF IInv
<1>5. /\ DOMAIN inFlight' = DOMAIN inFlight \ {r.id}
      /\ \A x \in DOMAIN inFlight' : inFlight'[x] = inFlight[x]
  BY <1>1
<1>6. inFlight' \in [DOMAIN inFlight' -> Files] /\ DOMAIN inFlight' \subseteq 1..lastId
  BY <1>1, <1>4, <1>5
<1>7. TypeOK'
  <2>1. active' \subseteq Files /\ replies' \subseteq Query
    BY <1>1, <1>2, <1>4
  <2> QED
    BY <1>1, <1>2, <1>6, <2>1 DEF IInv, TypeOK, DiskOK, Contents, counts
<1>8. OnlyMade' /\ WaitsForSomething'
  BY <1>1, <1>2, <1>5 DEF IInv, OnlyMade, WaitsForSomething, Made
<1>9. AsksNext'
  BY <1>1, <1>2, <1>5 DEF IInv, AsksNext, UnderWay, Made
<1>10. \A f \in Files : (Waits(f))' <=> Waits(f)
  BY <1>2 DEF Waits
<1>11. \A f \in Files : (Flies(f))' => Flies(f)
  BY <1>5 DEF Flies
<1>12. \A f \in Files : Flies(f) /\ f # r.file => (Flies(f))'
  BY <1>3, <1>5 DEF Flies
<1>13. OnePlace'
  BY <1>2, <1>5, <1>10, <1>11 DEF IInv, OnePlace
<1>14. SomePlace'
  BY <1>1, <1>2, <1>4, <1>10, <1>12 DEF IInv, SomePlace
<1> QED
  BY <1>7, <1>8, <1>9, <1>13, <1>14 DEF IInv

\* The download that goes on stands in the tables under the id of its next part.
LEMMA GoesOn ==
  ASSUME IInv, NEW r \in replies, r.id \in DOMAIN inFlight, Receives(r),
         AskNext(r)
  PROVE  IInv'
<1>1. /\ DiskOK' /\ bytes' \in [Files -> Contents] /\ rows' = rows /\ replies' = replies \ {r}
      /\ UNCHANGED <<managed, link, photo, waiting, crashed, victims, counts>>
  BY DEF Receives
<1>2. PICK f, at : f = r.file /\ at = [offset EXCEPT ![r.file] = @ + Len(Bytes(r))]
  OBVIOUS
<1>3. PICK list : list = <<f>>
  OBVIOUS
<1>4. PICK table : table = [x \in DOMAIN inFlight \ {r.id} |-> inFlight[x]]
  OBVIOUS
<1>5. PICK up \in BOOLEAN : up = (link[r.dc] = "connected")
  OBVIOUS
<1>6. SendParts(r.dc, list, at, table, up) /\ offset' = at /\ active' = active
  BY <1>2, <1>3, <1>4, <1>5 DEF AskNext, Answered
<1>7. TypeOK
  BY DEF IInv
<1>8. /\ r \in Query /\ f \in Files /\ f \in Made /\ r.offset \in Nat /\ r.dc \in Dcs
      /\ inFlight[r.id] = f /\ offset[f] = r.offset /\ r.offset <= SizeOf[photo[f]]
  BY <1>2, Known
<1>9. PICK n \in Nat : n = Len(Bytes(r)) /\ r.offset + n <= SizeOf[photo[f]]
  <2>1. photo[f] \in Photos
    BY <1>7, <1>8, MadeType
  <2> QED
    BY <1>2, <1>8, <2>1, PartOfPhoto DEF Bytes
<1>10. inFlight \in [DOMAIN inFlight -> Files] /\ offset \in [Files -> Nat]
       /\ active \subseteq Files /\ replies \subseteq Query
  BY <1>7, Types
<1>11. at \in [Files -> Nat] /\ at[f] = r.offset + n /\ \A g \in Files \ {f} : at[g] = offset[g]
  BY <1>2, <1>8, <1>9, <1>10
<1>12. /\ DOMAIN table = DOMAIN inFlight \ {r.id} /\ table \in [DOMAIN table -> Files]
       /\ DOMAIN table \subseteq DOMAIN inFlight
       /\ \A x \in DOMAIN table : table[x] = inFlight[x]
  BY <1>4, <1>10
<1>13. \A x \in DOMAIN table : table[x] # f
  BY <1>8, <1>12 DEF IInv, OnePlace
<1>14. list \in Seq(Files) /\ DOMAIN list = {1} /\ list[1] = f
  BY <1>3, <1>8
<1>15. Drawn(list, at, table)
  BY <1>6, <1>7, <1>8, <1>11, <1>12, <1>14, PartsSent
<1>16. Made' = Made
  BY <1>1 DEF Made
<1>17. AsksNext' /\ AskedOnce(list, table)
  <2>1. \A x \in DOMAIN table : table[x] = inFlight[x] /\ at[table[x]] = offset[table[x]]
    BY <1>11, <1>12, <1>13
  <2>2. \A i, j \in DOMAIN list : list[i] = list[j] => i = j
    BY <1>14
  <2>3. \A x \in DOMAIN table : \A i \in DOMAIN list : table[x] # list[i]
    BY <1>13, <1>14
  <2>4. \A i \in DOMAIN list : list[i] \in Made'
    BY <1>8, <1>14, <1>16
  <2>5. Made \subseteq Made' /\ replies' \subseteq replies
    BY <1>1, <1>16
  <2> QED
    BY <1>6, <1>11, <1>12, <1>14, <1>15, <2>1, <2>2, <2>3, <2>4, <2>5, Asked
<1>18. TypeOK'
  <2>1. replies' \subseteq Query
    BY <1>1, <1>10
  <2> QED
    BY <1>1, <1>6, <1>11, <1>15, <2>1 DEF IInv, TypeOK, DiskOK, Contents, counts, Drawn
<1>19. OnlyMade'
  <2>1. at[f] <= SizeOf[photo[f]]
    BY <1>9, <1>11
  <2>2. \A g \in Files : IF g \in Made THEN at[g] <= SizeOf[photo[g]] ELSE at[g] = 0
    BY <1>8, <1>11, <2>1 DEF IInv, OnlyMade
  <2> QED
    BY <1>1, <1>6, <1>16, <1>17, <2>2 DEF IInv, OnlyMade, AskedOnce
<1>20. WaitsForSomething'
  BY <1>1 DEF IInv, WaitsForSomething
<1>21. \A g \in Files : (Waits(g))' <=> Waits(g)
  BY <1>1 DEF Waits
<1>22. \A g \in Files : (Flies(g))' <=> Flies(g)
  <2> SUFFICES ASSUME NEW g \in Files PROVE (Flies(g))' <=> Flies(g)
    OBVIOUS
  <2>1. (Flies(g))' <=> (\E x \in DOMAIN table : table[x] = g) \/ g = f
    BY <1>14, <1>17 DEF AskedOnce
  <2>2. Flies(g) <=> (\E x \in DOMAIN table : table[x] = g) \/ g = f
    BY <1>8, <1>12 DEF Flies
  <2> QED
    BY <2>1, <2>2
<1>23. OnePlace'
  BY <1>1, <1>17, <1>21, <1>22 DEF IInv, OnePlace, AskedOnce
<1>24. SomePlace'
  BY <1>1, <1>6, <1>10, <1>21, <1>22 DEF IInv, SomePlace
<1> QED
  BY <1>17, <1>18, <1>19, <1>20, <1>23, <1>24 DEF IInv

\* An answer is stored or collected, and its download goes on or is done.
LEMMA AnswerTaken ==
  ASSUME IInv, NEW r \in replies, NEW partial \in PartTypes, OnUploadGetFileAnswer(r, partial)
  PROVE  IInv'
<1>1. /\ r.id \in DOMAIN inFlight /\ replies' = replies \ {r}
      /\ UNCHANGED <<managed, link, photo, waiting, crashed, victims, counts>>
      /\ CollectPart(r, partial) \/ StorePart(r, partial)
  BY DEF OnUploadGetFileAnswer
<1>2. TypeOK /\ DiskOK
  BY DEF IInv, TypeOK, DiskOK, Contents
<1>3. /\ r \in Query /\ r.file \in Files /\ r.file \in Made /\ r.offset \in Nat
      /\ offset[r.file] = r.offset /\ r.offset <= SizeOf[photo[r.file]]
  BY <1>1, Known
<1>4. Bytes(r) \in Contents /\ bytes \in [Files -> Contents]
  <2>1. photo[r.file] \in Photos
    BY <1>2, <1>3, MadeType
  <2> QED
    BY <1>2, <1>3, <2>1, PartOfPhoto, Types DEF Bytes
<1>5. CASE CollectPart(r, partial)
  <2>1. PICK whole : whole = bytes[r.file] \o Bytes(r)
    OBVIOUS
  <2>2. bytes[r.file] \in Contents
    BY <1>3, <1>4
  <2>3. whole \in Contents
    BY <1>4, <2>1, <2>2 DEF Contents
  <2>4. CASE Len(Bytes(r)) = Block \/ offset[r.file] = 0
    <3>1. /\ bytes' = [bytes EXCEPT ![r.file] = whole]
          /\ AskNext(r) /\ UNCHANGED <<open, stored>>
      BY <1>5, <2>1, <2>4 DEF CollectPart
    <3>2. DiskOK' /\ rows' = rows
      BY <1>2, <3>1 DEF DiskOK, stored
    <3>3. bytes' \in [Files -> Contents]
      BY <1>3, <1>4, <2>3, <3>1
    <3>4. Receives(r)
      BY <1>1, <3>2, <3>3 DEF Receives
    <3> QED
      BY <1>1, <3>1, <3>4, GoesOn
  <2>5. CASE ~(Len(Bytes(r)) = Block \/ offset[r.file] = 0)
    <3>1. Store(r.file, whole, partial) /\ FinishDownload(r) /\ UNCHANGED rows
      BY <1>5, <2>1, <2>5 DEF CollectPart
    <3>2. DiskOK'
      BY <1>2, <1>3, <2>3, <3>1, Written
    <3>3. bytes' = bytes
      BY <3>1 DEF FinishDownload
    <3>4. Receives(r)
      BY <1>1, <1>4, <3>1, <3>2, <3>3 DEF Receives
    <3> QED
      BY <1>1, <3>1, <3>4, Done
  <2> QED
    BY <2>4, <2>5
<1>6. CASE StorePart(r, partial)
  <2>1. Store(r.file, Bytes(r), partial) /\ UNCHANGED rows
    BY <1>6 DEF StorePart
  <2>2. DiskOK'
    BY <1>2, <1>3, <1>4, <2>1, Written
  <2>3. bytes' = bytes
    BY <1>6 DEF StorePart, FinishDownload
  <2>4. Receives(r)
    BY <1>1, <1>4, <2>1, <2>2, <2>3 DEF Receives
  <2>5. CASE Len(Bytes(r)) = Block
    <3>1. AskNext(r)
      BY <1>6, <2>5 DEF StorePart
    <3> QED
      BY <1>1, <2>4, <3>1, GoesOn
  <2>6. CASE Len(Bytes(r)) # Block
    <3>1. FinishDownload(r)
      BY <1>6, <2>6 DEF StorePart
    <3> QED
      BY <1>1, <2>4, <3>1, Done
  <2> QED
    BY <2>5, <2>6
<1> QED
  BY <1>1, <1>5, <1>6

---------------------------------------------------------------------------
(* The theorems. *)

\* IInv holds in every state.
THEOREM DownloadsInvariant == Spec => []IInv
<1>1. IInv /\ [Next]_vars => IInv'
  <2> SUFFICES ASSUME IInv, [Next]_vars PROVE IInv'
    OBVIOUS
  <2>1. ASSUME NEW p \in Photos, OnContactsContacts(p) \/ UpdateUserPhoto(p) PROVE IInv'
    BY <2>1, Downloading DEF OnContactsContacts, UpdateUserPhoto, DownloadImageThumb
  <2>10. ASSUME NEW p \in Own, OnUsersGetUsersAnswer(p) PROVE IInv'
    BY <2>10, Downloading, PhotosAssumption DEF OnUsersGetUsersAnswer
  <2>2. ASSUME NEW dc \in Dcs, OnUploadGetFileSessionCreated(dc) PROVE IInv'
    BY <2>2, SessionCreated
  <2>3. ASSUME NEW dc \in Dcs, ConnectionLost(dc) PROVE IInv'
    BY <2>3, Disconnected
  <2>4. ASSUME NEW r \in replies, OnUnknownAnswer(r) PROVE IInv'
    BY <2>4, UnknownAnswer
  <2>5. ASSUME NEW r \in replies, NEW partial \in PartTypes, OnUploadGetFileAnswer(r, partial)
        PROVE  IInv'
    BY <2>5, AnswerTaken
  <2>6. ASSUME NEW q \in queries, ServerSendsPart(q) \/ ServerRefuses(q) PROVE IInv'
    BY <2>6, ServerSteps
  <2>7. ASSUME NEW q \in queries, Recompose(q) PROVE IInv'
    BY <2>7, Recomposed
  <2>8. CASE Exit
    BY <2>8, Ended
  <2>9. CASE UNCHANGED vars
    BY <2>9, Stutters
  <2> QED
    BY <2>1, <2>2, <2>3, <2>4, <2>5, <2>6, <2>7, <2>8, <2>9, <2>10 DEF Next
<1> QED
  BY <1>1, Begins, PTL DEF Spec

\* The variables have their types.
THEOREM DownloadsTypes == Spec => []TypeOK
<1>1. IInv => TypeOK
  BY DEF IInv
<1> QED
  BY <1>1, DownloadsInvariant, PTL

\* A download stands in the tables at one place, and at none only when it is over,
\* forgotten with the run, or was dropped after a failed attempt.
LEMMA OneIsOne == ASSUME IInv PROVE PlacedOnce
<1> SUFFICES ASSUME NEW f \in Files
             PROVE  Cardinality(Places(f)) <= 1 /\ (f \in active \ victims => Places(f) # {})
  BY DEF PlacedOnce
<1> DEFINE flying == {<<"id", x>> : x \in {y \in DOMAIN inFlight : inFlight[y] = f}}
           queued == UNION {{<<dc, i>> : i \in {j \in DOMAIN waiting[dc] : waiting[dc][j] = f}}
                              : dc \in Dcs}
<1>1. Places(f) = flying \cup queued
  BY DEF Places
<1>2. \A z \in flying : \E x \in DOMAIN inFlight : inFlight[x] = f /\ z = <<"id", x>>
  OBVIOUS
<1>3. \A z \in queued : \E dc \in Dcs : \E i \in DOMAIN waiting[dc] :
                            waiting[dc][i] = f /\ z = <<dc, i>>
  OBVIOUS
<1>4. Flies(f) => flying # {}
  BY DEF Flies
<1>5. Waits(f) => queued # {}
  <2> SUFFICES ASSUME Waits(f) PROVE queued # {}
    OBVIOUS
  <2>1. PICK dc \in Dcs : \E i \in DOMAIN waiting[dc] : waiting[dc][i] = f
    BY DEF Waits
  <2>2. PICK i \in DOMAIN waiting[dc] : waiting[dc][i] = f
    BY <2>1
  <2>3. <<dc, i>> \in {<<dc, j>> : j \in {k \in DOMAIN waiting[dc] : waiting[dc][k] = f}}
    BY <2>2
  <2>4. <<dc, i>> \in queued
    BY <2>3
  <2> QED
    BY <2>4
<1>6. \A y, z \in flying : y = z
  BY <1>2 DEF IInv, OnePlace
<1>7. \A y, z \in queued : y = z
  BY <1>3 DEF IInv, OnePlace
<1>8. ~(\E y \in flying, z \in queued : TRUE)
  BY <1>2, <1>3 DEF IInv, OnePlace, Waits, Flies
<1> HIDE DEF flying, queued
<1>9. \A y, z \in Places(f) : y = z
  BY <1>1, <1>6, <1>7, <1>8
<1>10. Cardinality(Places(f)) <= 1
  <2>1. CASE Places(f) = {}
    BY <2>1, FS_EmptySet
  <2>2. CASE Places(f) # {}
    <3>1. PICK y : Places(f) = {y}
      BY <1>9, <2>2
    <3>2. Cardinality({y}) = 1
      BY FS_Singleton
    <3> QED
      BY <3>1, <3>2
  <2> QED
    BY <2>1, <2>2
<1>11. f \in active \ victims => Places(f) # {}
  BY <1>1, <1>4, <1>5 DEF IInv, SomePlace
<1> QED
  BY <1>10, <1>11

\* However downloads, losses and restarts overlap, no part is asked for twice and no
\* download is forgotten.
THEOREM PlacedInTables == Spec => []PlacedOnce
<1>1. IInv => PlacedOnce
  BY OneIsOne
<1> QED
  BY <1>1, DownloadsInvariant, PTL

---------------------------------------------------------------------------
(* Files. *)

\* FilesGenuine said of one file: what it must hold, and that it does.
Due(o, p) == IF o.collected THEN Whole(p) ELSE Part(p, o.at)
Genuine(name, data, o, p) ==
  /\ o.named => name = p
  /\ IsPrefix(Due(o, p), data)
  /\ ~o.shared => data = Due(o, p)

\* FilesGenuine, and what it rests on: rows name the photo of their download, a file
\* is open only where one was left so, and a download in the tables has collected its
\* photo up to its offset.
FilesTrue ==
  \A name \in DOMAIN disk :
    /\ origin[name].file \in Made
    /\ Genuine(name, disk[name], origin[name], photo[origin[name].file])
OpenShared == open # None => origin[open].shared
RowsTrue == \A r \in rows : r.messageid \in Made /\ r.id = photo[r.messageid]
Start(p, m) == [i \in 1..m |-> <<p, i>>]
Collects ==
  /\ managed => \A f \in Made : Waits(f) \/ Flies(f) => bytes[f] = Start(photo[f], offset[f])
  /\ \A f \in Files \ Made : bytes[f] = <<>>
GInv == FilesTrue /\ OpenShared /\ RowsTrue /\ Collects

\* GInv says what FilesGenuine says.
LEMMA TrueIsGenuine == GInv => FilesGenuine
  BY DEF GInv, FilesTrue, Genuine, Due, FilesGenuine, Brought

\* No file and no row at first.
LEMMA NoFiles == Init => GInv
<1> SUFFICES ASSUME Init PROVE GInv
  OBVIOUS
<1>1. DOMAIN disk = {} /\ DOMAIN photo = {} /\ DOMAIN inFlight = {}
      /\ \A dc \in Dcs : DOMAIN waiting[dc] = {}
  BY DEF Init
<1>2. open = None /\ rows = {} /\ \A f \in Files : bytes[f] = <<>>
  BY DEF Init
<1> QED
  BY <1>1, <1>2 DEF GInv, FilesTrue, OpenShared, RowsTrue, Collects, Made

\* Steps that leave files, rows and parts alone and bring nobody into the tables.
LEMMA FilesLeft ==
  ASSUME GInv, UNCHANGED <<managed, photo, offset, bytes, open, stored>>,
         \A f \in Files : (Waits(f))' \/ (Flies(f))' => Waits(f) \/ Flies(f), Made \subseteq Files
  PROVE  GInv'
<1>1. Made' = Made
  BY DEF Made
<1>2. FilesTrue' /\ OpenShared' /\ RowsTrue'
  BY <1>1 DEF GInv, FilesTrue, OpenShared, RowsTrue, stored
<1>3. Collects'
  BY <1>1 DEF GInv, Collects
<1> QED
  BY <1>2, <1>3 DEF GInv

\* The same where the tables stay as they are.
LEMMA TablesLeft ==
  ASSUME IInv, GInv, UNCHANGED <<managed, photo, offset, bytes, open, stored, waiting, inFlight>>
  PROVE  GInv'
<1>1. \A f \in Files : (Waits(f))' \/ (Flies(f))' => Waits(f) \/ Flies(f)
  BY DEF Waits, Flies
<1>2. Made \subseteq Files
  BY MadeType DEF IInv
<1> QED
  BY <1>1, <1>2, FilesLeft

\* A session that comes up sends the ones that waited.
LEMMA WaitersSent ==
  ASSUME IInv, GInv, NEW dc \in Dcs, OnUploadGetFileSessionCreated(dc)
  PROVE  GInv'
<1>1. PICK list : list = waiting[dc]
  OBVIOUS
<1>2. /\ waiting' = [waiting EXCEPT ![dc] = <<>>]
      /\ SendParts(dc, list, offset, inFlight, TRUE)
      /\ UNCHANGED <<managed, photo, offset, bytes, open, stored>>
  BY <1>1 DEF OnUploadGetFileSessionCreated
<1>3. /\ TypeOK /\ waiting \in [Dcs -> Seq(Files)] /\ list \in Seq(Files)
      /\ inFlight \in [DOMAIN inFlight -> Files] /\ offset \in [Files -> Nat]
      /\ Made \subseteq Files
  BY <1>1, Types, MadeType DEF IInv
<1>4. Drawn(list, offset, inFlight)
  BY <1>2, <1>3, PartsSent
<1>5. \A f \in Files : (Flies(f))' => Flies(f) \/ Waits(f)
  BY <1>1, <1>4 DEF Drawn, Flies, Waits
<1>6. DOMAIN <<>> = {}
  OBVIOUS
<1>7. \A f \in Files : (Waits(f))' => Waits(f)
  BY <1>2, <1>3, <1>6 DEF Waits
<1> QED
  BY <1>2, <1>3, <1>5, <1>7, FilesLeft

\* The row of a new download tells its photo.
LEMMA RowTells ==
  ASSUME RowsTrue, NEW f, NEW p, Register(f, p) \/ RegisterOwn(f, p),
         Made' = Made \cup {f}, \A g \in Made : photo'[g] = photo[g], photo'[f] = p
  PROVE  RowsTrue'
<1>1. PICK type : rows' \subseteq rows \cup {[id |-> p, messageid |-> f, type |-> type]}
  BY DEF Register, RegisterOwn
<1>2. PICK own : own = [id |-> p, messageid |-> f, type |-> type]
  OBVIOUS
<1>3. own.id = p /\ own.messageid = f
  BY <1>2
<1>4. \A r \in rows' : r \in rows \/ r = own
  BY <1>1, <1>2
<1> QED
  BY <1>3, <1>4 DEF RowsTrue

\* A new download comes into the tables with nothing.
LEMMA NewFiles ==
  ASSUME IInv, GInv, NEW p \in Photos, UploadGetFile(p),
         Register(Len(photo) + 1, p) \/ RegisterOwn(Len(photo) + 1, p)
  PROVE  GInv'
<1>1. PICK f : f = Len(photo) + 1
  OBVIOUS
<1>2. /\ f \in Files /\ photo' = Append(photo, p) /\ Enter(f, DcOf[p])
      /\ Register(f, p) \/ RegisterOwn(f, p)
      /\ UNCHANGED <<managed, offset, bytes, open, disk, origin>>
  BY <1>1 DEF UploadGetFile
<1>3. PICK dc \in Dcs : dc = DcOf[p]
  BY PhotosAssumption
<1>4. /\ TypeOK /\ photo \in Seq(Photos) /\ Made = 1..Len(photo) /\ Len(photo) \in Nat
      /\ f \notin Made /\ Made \subseteq Files
  BY <1>1, Types, MadeType DEF IInv
<1>5. /\ Made' = Made \cup {f} /\ \A g \in Made : photo'[g] = photo[g]
      /\ photo'[f] = p
  <2>1. DOMAIN photo' = 1..f /\ 1..f = 1..Len(photo) \cup {f}
    BY <1>1, <1>2, <1>4
  <2>2. \A g \in 1..Len(photo) : photo'[g] = photo[g]
    BY <1>2, <1>4
  <2>3. photo'[f] = p
    BY <1>1, <1>2, <1>4
  <2> QED
    BY <1>4, <2>1, <2>2, <2>3 DEF Made
<1>6. FilesTrue' /\ OpenShared'
  <2>1. \A name \in DOMAIN disk :
           /\ origin[name].file \in Made'
           /\ Genuine(name, disk[name], origin[name], photo'[origin[name].file])
    <3> SUFFICES ASSUME NEW name \in DOMAIN disk
                 PROVE  /\ origin[name].file \in Made'
                        /\ Genuine(name, disk[name], origin[name], photo'[origin[name].file])
      OBVIOUS
    <3>1. /\ origin[name].file \in Made
          /\ Genuine(name, disk[name], origin[name], photo[origin[name].file])
      BY DEF GInv, FilesTrue
    <3>2. photo'[origin[name].file] = photo[origin[name].file]
      BY <1>5, <3>1
    <3> QED
      BY <1>5, <3>1, <3>2
  <2> QED
    BY <1>2, <2>1 DEF GInv, FilesTrue, OpenShared
<1>7. RowsTrue'
  BY <1>2, <1>5, RowTells DEF GInv
<1>8. \A g \in Files : (Waits(g))' \/ (Flies(g))' => Waits(g) \/ Flies(g) \/ g = f
  <2>1. waiting \in [Dcs -> Seq(Files)]
        /\ inFlight \in [DOMAIN inFlight -> Files] /\ offset \in [Files -> Nat]
    BY <1>4, Types
  <2>2. CASE link[dc] = "connected"
    <3>1. SendParts(dc, <<f>>, offset, inFlight, TRUE) /\ waiting' = waiting
      BY <1>2, <1>3, <2>2 DEF Enter
    <3>2. PICK list : list = <<f>>
      OBVIOUS
    <3>3. list \in Seq(Files) /\ DOMAIN list = {1} /\ list[1] = f
      BY <1>2, <3>2
    <3>4. Drawn(list, offset, inFlight)
      BY <1>4, <2>1, <3>1, <3>2, <3>3, PartsSent
    <3> QED
      BY <3>1, <3>3, <3>4 DEF Drawn, Flies, Waits
  <2>3. CASE link[dc] # "connected"
    <3>1. inFlight' = inFlight
          /\ \/ waiting' = [waiting EXCEPT ![dc] = Append(waiting[dc], f)]
             \/ waiting' = [waiting EXCEPT ![dc] = <<f>>]
      BY <1>2, <1>3, <2>3 DEF Enter
    <3>2. waiting[dc] \in Seq(Files)
      BY <2>1
    <3>3. \A i \in DOMAIN Append(waiting[dc], f) :
             \/ Append(waiting[dc], f)[i] = f
             \/ i \in DOMAIN waiting[dc] /\ Append(waiting[dc], f)[i] = waiting[dc][i]
      BY <1>2, <3>2
    <3>4. \A i \in DOMAIN <<f>> : <<f>>[i] = f
      OBVIOUS
    <3>5. \A d \in Dcs : \A i \in DOMAIN waiting'[d] :
             \/ waiting'[d][i] = f
             \/ i \in DOMAIN waiting[d] /\ waiting'[d][i] = waiting[d][i]
      BY <2>1, <3>1, <3>3, <3>4
    <3> QED
      BY <3>1, <3>5 DEF Waits, Flies
  <2> QED
    BY <2>2, <2>3
<1>9. Collects'
  <2>1. offset[f] = 0
    BY <1>2, <1>4 DEF IInv, OnlyMade
  <2>2. bytes[f] = <<>>
    BY <1>2, <1>4 DEF GInv, Collects
  <2>3. bytes[f] = Start(p, offset[f])
    BY <2>1, <2>2 DEF Start
  <2>4. managed => \A g \in Made' : (Waits(g))' \/ (Flies(g))' => bytes[g] = Start(photo'[g], offset[g])
    <3> SUFFICES ASSUME managed, NEW g \in Made', (Waits(g))' \/ (Flies(g))'
                 PROVE  bytes[g] = Start(photo'[g], offset[g])
      OBVIOUS
    <3>1. CASE g = f
      BY <1>5, <2>3, <3>1
    <3>2. CASE g # f
      <4>1. g \in Made /\ g \in Files /\ photo'[g] = photo[g]
        BY <1>4, <1>5, <3>2
      <4> QED
        BY <1>8, <3>2, <4>1 DEF GInv, Collects
    <3> QED
      BY <3>1, <3>2
  <2>5. \A g \in Files \ Made' : bytes[g] = <<>>
    BY <1>5 DEF GInv, Collects
  <2> QED
    BY <1>2, <2>4, <2>5 DEF Collects
<1> QED
  BY <1>6, <1>7, <1>9 DEF GInv

---------------------------------------------------------------------------
(* Parts. *)

\* The start of a photo and the part that follows it.
LEMMA PartFollows ==
  ASSUME NEW p \in Photos, NEW at \in Nat, at <= SizeOf[p]
  PROVE  Start(p, at) \o Part(p, at) = Start(p, at + Len(Part(p, at)))
<1>1. PICK n \in Nat : Part(p, at) = [i \in 1..n |-> <<p, at + i>>] /\ Len(Part(p, at)) = n
  BY PartType
<1>2. Len(Start(p, at)) = at
  BY DEF Start
<1>3. PICK t : t = [i \in 1..n |-> <<p, at + i>>]
  OBVIOUS
<1>4. PICK s : s = [i \in 1..at |-> <<p, i>>]
  OBVIOUS
<1>5. s \in Seq(Photos \X Nat) /\ Len(s) = at /\ \A i \in 1..at : s[i] = <<p, i>>
  <2>1. s \in [1..at -> Photos \X Nat]
    BY <1>4
  <2> QED
    BY <1>4, <2>1, SeqDef
<1>6. t \in Seq(Photos \X Nat) /\ Len(t) = n /\ \A i \in 1..n : t[i] = <<p, at + i>>
  <2>1. \A i \in 1..n : <<p, at + i>> \in Photos \X Nat
    OBVIOUS
  <2>2. t \in [1..n -> Photos \X Nat]
    BY <1>3, <2>1
  <2> QED
    BY <1>3, <2>2, SeqDef
<1>7. /\ s \o t \in Seq(Photos \X Nat) /\ Len(s \o t) = at + n
      /\ \A i \in 1..(at + n) : (s \o t)[i] = IF i <= at THEN s[i] ELSE t[i - at]
  <2>1. PICK S : S = Photos \X Nat
    OBVIOUS
  <2>2. s \in Seq(S) /\ t \in Seq(S) /\ Len(s) = at /\ Len(t) = n
    BY <1>5, <1>6, <2>1
  <2>3. /\ s \o t \in Seq(S) /\ Len(s \o t) = at + n
        /\ \A i \in 1..(at + n) : (s \o t)[i] = IF i <= at THEN s[i] ELSE t[i - at]
    BY <2>2
  <2> QED
    BY <2>1, <2>3
<1>8. \A i \in 1..(at + n) : (s \o t)[i] = <<p, i>>
  <2> SUFFICES ASSUME NEW i \in 1..(at + n) PROVE (s \o t)[i] = <<p, i>>
    OBVIOUS
  <2>1. CASE i <= at
    BY <1>5, <1>7, <2>1
  <2>2. CASE ~(i <= at)
    <3>1. i - at \in 1..n /\ at + (i - at) = i
      BY <2>2
    <3>2. (s \o t)[i] = t[i - at]
      BY <1>7, <2>2
    <3> QED
      BY <1>6, <3>1, <3>2
  <2> QED
    BY <2>1, <2>2
<1>9. s \o t = [i \in 1..(at + n) |-> <<p, i>>]
  <2>1. PICK e : e = [i \in 1..(at + n) |-> <<p, i>>]
    OBVIOUS
  <2>2. e \in [1..(at + n) -> Photos \X Nat]
    BY <2>1
  <2>3. e \in Seq(Photos \X Nat) /\ Len(e) = at + n /\ \A i \in 1..(at + n) : e[i] = <<p, i>>
    BY <2>1, <2>2, SeqDef
  <2> QED
    BY <1>7, <1>8, <2>1, <2>3, SeqEqual
<1> QED
  BY <1>1, <1>3, <1>4, <1>9 DEF Start

\* What a file must hold is a sequence.
LEMMA DueType ==
  ASSUME NEW p \in Photos, NEW o \in Origin
  PROVE  Due(o, p) \in Contents
<1>1. SizeOf[p] \in Nat /\ o.at \in Nat
  BY PhotosAssumption DEF Origin
<1>2. Whole(p) \in Contents
  <2>1. PICK n \in Nat : n = SizeOf[p]
    BY <1>1
  <2>2. Whole(p) = [i \in 1..n |-> <<p, i>>]
    BY <2>1 DEF Whole
  <2>3. [i \in 1..n |-> <<p, i>>] \in [1..n -> Photos \X (Nat \ {0})]
    OBVIOUS
  <2> QED
    BY <2>2, <2>3, SeqDef DEF Contents
<1>3. Part(p, o.at) \in Contents
  BY <1>1, PartType
<1> QED
  BY <1>2, <1>3 DEF Due

\* A sequence is its own prefix, and stays a prefix when more is appended.
LEMMA PrefixStays ==
  ASSUME NEW s \in Contents, NEW t \in Contents, NEW u \in Contents, IsPrefix(s, t)
  PROVE  IsPrefix(s, t \o u) /\ IsPrefix(s, s)
<1>1. s \in Seq(Photos \X (Nat \ {0})) /\ t \in Seq(Photos \X (Nat \ {0}))
      /\ u \in Seq(Photos \X (Nat \ {0}))
  BY DEF Contents
<1>2. PICK n \in Nat : n = Len(s)
  BY <1>1
<1>3. n <= Len(t) /\ SubSeq(s, 1, n) = SubSeq(t, 1, n)
  BY <1>2 DEF IsPrefix
<1>4. SubSeq(t \o u, 1, n) = SubSeq(t, 1, n)
  BY <1>1, <1>3
<1>5. n <= Len(t \o u)
  BY <1>1, <1>3
<1> QED
  BY <1>2, <1>3, <1>4, <1>5 DEF IsPrefix

\* A photo is its start up to its end.
LEMMA WholeStart == \A p : Start(p, SizeOf[p]) = Whole(p)
  BY DEF Start, Whole

\* What is stored is due: a file that is opened holds it alone, under the photo's name
\* where its download has a row, and one that is open goes on beginning with its own.
LEMMA StoredTrue ==
  ASSUME IInv, FilesTrue, OpenShared, RowsTrue, NEW f \in Made, NEW partial,
         NEW data \in Contents, Store(f, data, partial), photo' = photo,
         data = IF managed THEN Whole(photo[f]) ELSE Part(photo[f], offset[f])
  PROVE  FilesTrue' /\ OpenShared'
<1>1. PICK close \in BOOLEAN :
        \/ /\ open = None
           /\ \E name \in NamesFor(f) :
                /\ disk' = [n \in DOMAIN disk \cup {name} |-> IF n = name THEN data ELSE disk[n]]
                /\ origin' = [n \in DOMAIN disk' |->
                                IF n = name THEN OpenedFor(f, close) ELSE origin[n]]
                /\ open' = IF close THEN None ELSE name
        \/ /\ open # None
           /\ disk' = [disk EXCEPT ![open] = @ \o data] /\ origin' = origin
           /\ open' = IF close THEN None ELSE open
  BY DEF Store
<1>2. /\ TypeOK /\ DiskOK /\ f \in Files /\ photo[f] \in Photos
      /\ \A g \in Made : photo[g] \in Photos
  BY MadeType DEF IInv, TypeOK, DiskOK, Contents
<1>3. Made' = Made
  BY DEF Made
<1>4. CASE open = None
  <2>1. PICK name \in NamesFor(f) :
          /\ disk' = [n \in DOMAIN disk \cup {name} |-> IF n = name THEN data ELSE disk[n]]
          /\ origin' = [n \in DOMAIN disk' |->
                          IF n = name THEN OpenedFor(f, close) ELSE origin[n]]
          /\ open' = IF close THEN None ELSE name
    BY <1>1, <1>4
  <2>2. PICK o : o = OpenedFor(f, close)
    OBVIOUS
  <2>3. /\ o.file = f /\ o.at = offset[f] /\ (o.named <=> Owns(f) # {})
        /\ (o.collected <=> managed) /\ (o.shared <=> ~close)
    BY <1>2, <2>2, OpenedType
  <2>4. Owns(f) # {} => name = photo[f]
    BY DEF NamesFor, Owns, RowsTrue
  <2>5. Due(o, photo[f]) = data
    BY <2>3 DEF Due
  <2>6. IsPrefix(data, data)
    BY DEF IsPrefix, Contents
  <2>7. Genuine(name, data, o, photo[f])
    BY <2>3, <2>4, <2>5, <2>6 DEF Genuine
  <2>8. /\ DOMAIN disk' = DOMAIN disk \cup {name} /\ disk'[name] = data /\ origin'[name] = o
        /\ \A n \in DOMAIN disk \ {name} : disk'[n] = disk[n] /\ origin'[n] = origin[n]
    BY <2>1, <2>2
  <2>9. \A n \in DOMAIN disk' :
          /\ origin'[n].file \in Made
          /\ Genuine(n, disk'[n], origin'[n], photo[origin'[n].file])
    <3> SUFFICES ASSUME NEW n \in DOMAIN disk'
                 PROVE  /\ origin'[n].file \in Made
                        /\ Genuine(n, disk'[n], origin'[n], photo[origin'[n].file])
      OBVIOUS
    <3>1. CASE n = name
      BY <2>3, <2>7, <2>8, <3>1
    <3>2. CASE n # name
      BY <2>8, <3>2 DEF FilesTrue
    <3> QED
      BY <3>1, <3>2
  <2>10. FilesTrue'
    BY <1>3, <2>9 DEF FilesTrue
  <2>11. OpenShared'
    BY <2>1, <2>3, <2>8 DEF OpenShared
  <2> QED
    BY <2>10, <2>11
<1>5. CASE open # None
  <2>1. /\ disk' = [disk EXCEPT ![open] = disk[open] \o data] /\ origin' = origin
        /\ open' = None \/ open' = open
    BY <1>1, <1>5
  <2>2. open \in DOMAIN disk /\ origin[open].shared
    BY <1>2, <1>5 DEF DiskOK, OpenShared
  <2>3. PICK o, p : o = origin[open] /\ p = photo[origin[open].file]
    OBVIOUS
  <2>4. o \in Origin /\ p \in Photos /\ disk[open] \in Contents
        /\ Genuine(open, disk[open], o, p)
    BY <1>2, <2>2, <2>3 DEF DiskOK, FilesTrue
  <2>5. IsPrefix(Due(o, p), disk[open] \o data)
    <3>1. Due(o, p) \in Contents
      BY <2>4, DueType
    <3>2. IsPrefix(Due(o, p), disk[open])
      BY <2>4 DEF Genuine
    <3> QED
      BY <2>4, <3>1, <3>2, PrefixStays
  <2>6. Genuine(open, disk[open] \o data, o, p)
    BY <2>2, <2>3, <2>4, <2>5 DEF Genuine
  <2>7. /\ DOMAIN disk' = DOMAIN disk /\ disk'[open] = disk[open] \o data
        /\ \A n \in DOMAIN disk \ {open} : disk'[n] = disk[n]
    BY <2>1, <2>2
  <2>8. \A n \in DOMAIN disk' :
          /\ origin[n].file \in Made
          /\ Genuine(n, disk'[n], origin[n], photo[origin[n].file])
    <3> SUFFICES ASSUME NEW n \in DOMAIN disk'
                 PROVE  /\ origin[n].file \in Made
                        /\ Genuine(n, disk'[n], origin[n], photo[origin[n].file])
      OBVIOUS
    <3>1. CASE n = open
      BY <2>2, <2>3, <2>6, <2>7, <3>1 DEF FilesTrue
    <3>2. CASE n # open
      BY <2>7, <3>2 DEF FilesTrue
    <3> QED
      BY <3>1, <3>2
  <2>9. FilesTrue'
    BY <1>3, <2>1, <2>8 DEF FilesTrue
  <2>10. OpenShared'
    BY <2>1, <2>2 DEF OpenShared
  <2> QED
    BY <2>9, <2>10
<1> QED
  BY <1>4, <1>5

\* An answer is collected behind what has come before it, or is stored with it.
LEMMA AnswerFiles ==
  ASSUME IInv, GInv, NEW r \in replies, NEW partial \in PartTypes,
         OnUploadGetFileAnswer(r, partial)
  PROVE  GInv'
<1>1. /\ r.id \in DOMAIN inFlight /\ UNCHANGED <<managed, photo, waiting>>
      /\ \/ managed /\ CollectPart(r, partial)
         \/ ~managed /\ StorePart(r, partial)
  BY DEF OnUploadGetFileAnswer
<1>2. PICK f, p : f = r.file /\ p = photo[f]
  OBVIOUS
<1>3. /\ TypeOK /\ r \in Query /\ f \in Files /\ f \in Made /\ inFlight[r.id] = f
      /\ offset[f] = r.offset /\ r.offset \in Nat /\ r.offset <= SizeOf[p]
  BY <1>1, <1>2, Known DEF IInv
<1>4. p \in Photos /\ Made \subseteq Files
  BY <1>2, <1>3, MadeType
<1>5. PICK part : part = Part(p, offset[f]) /\ part = Bytes(r)
  BY <1>2, <1>3 DEF Bytes
<1>6. /\ SizeOf[p] \in Nat /\ Len(part) \in Nat /\ part \in Contents
      /\ Len(part) # Block => offset[f] + Len(part) = SizeOf[p]
      /\ Start(p, offset[f]) \o part = Start(p, offset[f] + Len(part))
  BY <1>3, <1>4, <1>5, PartOfPhoto, PartFollows
<1>7. Flies(f)
  BY <1>1, <1>3 DEF Flies
<1>8. Made' = Made
  BY <1>1 DEF Made
<1>9. bytes \in [Files -> Contents] /\ offset \in [Files -> Nat]
      /\ inFlight \in [DOMAIN inFlight -> Files]
  BY <1>3, Types
<1>10. managed => bytes[f] = Start(p, offset[f])
  BY <1>2, <1>3, <1>7 DEF GInv, Collects
<1>11. ASSUME FinishDownload(r)
       PROVE  \A g \in Files : (Waits(g))' \/ (Flies(g))' => Waits(g) \/ Flies(g)
  BY <1>1, <1>11 DEF FinishDownload, Answered, Waits, Flies
<1>12. ASSUME FinishDownload(r)
       PROVE  Collects'
  <2>1. UNCHANGED <<offset, bytes>>
    BY <1>12 DEF FinishDownload
  <2> QED
    BY <1>1, <1>4, <1>8, <1>11, <1>12, <2>1 DEF GInv, Collects
<1>13. ASSUME UNCHANGED rows
       PROVE  RowsTrue'
  BY <1>1, <1>8, <1>13 DEF GInv, RowsTrue
<1>14. ASSUME AskNext(r)
       PROVE  \A g \in Files : (Waits(g))' \/ (Flies(g))' => Waits(g) \/ Flies(g)
  <2>1. PICK list, table, at, up :
          /\ list = <<f>> /\ table = [x \in DOMAIN inFlight \ {r.id} |-> inFlight[x]]
          /\ at = [offset EXCEPT ![f] = @ + Len(part)] /\ up = (link[r.dc] = "connected")
    OBVIOUS
  <2>2. SendParts(r.dc, list, at, table, up)
    BY <1>2, <1>5, <1>14, <2>1 DEF AskNext, Answered
  <2>3. list \in Seq(Files) /\ DOMAIN list = {1} /\ list[1] = f
    BY <1>3, <2>1
  <2>4. at \in [Files -> Nat]
    BY <1>3, <1>6, <1>9, <2>1
  <2>5. /\ table \in [DOMAIN table -> Files] /\ DOMAIN table \subseteq DOMAIN inFlight
        /\ \A x \in DOMAIN table : table[x] = inFlight[x]
    BY <1>9, <2>1
  <2>6. up \in BOOLEAN /\ r.dc \in Dcs
    BY <1>3, <2>1 DEF Query
  <2>7. Drawn(list, at, table)
    BY <1>3, <2>2, <2>3, <2>4, <2>5, <2>6, PartsSent
  <2>8. \A g \in Files : (Flies(g))' => Flies(g) \/ g = f
    BY <2>3, <2>5, <2>7 DEF Drawn, Flies
  <2>9. \A g \in Files : (Waits(g))' => Waits(g)
    BY <1>1 DEF Waits
  <2> QED
    BY <1>7, <2>8, <2>9
<1>15. ASSUME AskNext(r)
       PROVE  offset' = [offset EXCEPT ![f] = offset[f] + Len(part)]
  BY <1>2, <1>5, <1>15 DEF AskNext
<1>16. CASE managed
  <2>1. PICK whole : whole = bytes[f] \o part /\ whole = Start(p, offset[f] + Len(part))
    BY <1>6, <1>10, <1>16
  <2>2. CASE Len(part) = Block \/ offset[f] = 0
    <3>1. bytes' = [bytes EXCEPT ![f] = whole] /\ AskNext(r) /\ UNCHANGED <<open, stored>>
      BY <1>1, <1>2, <1>5, <1>16, <2>1, <2>2 DEF CollectPart
    <3>2. FilesTrue' /\ OpenShared' /\ RowsTrue'
      BY <1>1, <1>8, <3>1 DEF GInv, FilesTrue, OpenShared, RowsTrue, stored
    <3>3. /\ bytes'[f] = Start(p, offset'[f])
          /\ \A g \in Files \ {f} : bytes'[g] = bytes[g] /\ offset'[g] = offset[g]
      BY <1>3, <1>9, <1>15, <2>1, <3>1
    <3>4. Collects'
      <4>1. \A g \in Made : (Waits(g))' \/ (Flies(g))' => bytes'[g] = Start(photo[g], offset'[g])
        BY <1>2, <1>4, <1>14, <1>16, <3>1, <3>3 DEF GInv, Collects
      <4>2. \A g \in Files \ Made : bytes'[g] = <<>>
        BY <1>3, <3>3 DEF GInv, Collects
      <4> QED
        BY <1>1, <1>8, <4>1, <4>2 DEF Collects
    <3> QED
      BY <3>2, <3>4 DEF GInv
  <2>3. CASE ~(Len(part) = Block \/ offset[f] = 0)
    <3>1. Store(f, whole, partial) /\ UNCHANGED rows /\ FinishDownload(r)
      BY <1>1, <1>2, <1>5, <1>16, <2>1, <2>3 DEF CollectPart
    <3>2. whole = Whole(p)
      BY <1>6, <2>1, <2>3, WholeStart
    <3>3. whole \in Contents
      <4>1. PICK old \in Contents : old = bytes[f]
        BY <1>3, <1>9
      <4>2. part \in Contents
        BY <1>6
      <4>3. old \o part \in Contents
        BY <4>2 DEF Contents
      <4> QED
        BY <2>1, <4>1, <4>3
    <3>4. FilesTrue' /\ OpenShared'
      BY <1>1, <1>2, <1>3, <1>16, <3>1, <3>2, <3>3, StoredTrue DEF GInv
    <3> QED
      BY <1>12, <1>13, <3>1, <3>4 DEF GInv
  <2> QED
    BY <2>2, <2>3
<1>17. CASE ~managed
  <2>1. /\ Store(f, part, partial) /\ UNCHANGED rows
        /\ (AskNext(r) /\ UNCHANGED bytes) \/ FinishDownload(r)
    BY <1>1, <1>2, <1>5, <1>17 DEF StorePart
  <2>2. FilesTrue' /\ OpenShared'
    BY <1>1, <1>2, <1>3, <1>5, <1>6, <1>17, <2>1, StoredTrue DEF GInv
  <2>3. bytes' = bytes
    BY <2>1 DEF FinishDownload
  <2>4. Collects'
    BY <1>1, <1>8, <1>17, <2>3 DEF GInv, Collects
  <2> QED
    BY <1>13, <2>1, <2>2, <2>4 DEF GInv
<1> QED
  BY <1>16, <1>17

\* A run that ends leaves files and rows, and no tables.
LEMMA FilesStay ==
  ASSUME GInv, Exit
  PROVE  GInv'
<1>1. DOMAIN inFlight' = {} /\ \A dc \in Dcs : DOMAIN waiting'[dc] = {}
  BY DEF Exit
<1>2. open' = None /\ UNCHANGED <<photo, offset, bytes, stored>>
  BY DEF Exit
<1>3. Made' = Made
  BY <1>2 DEF Made
<1>4. FilesTrue' /\ OpenShared' /\ RowsTrue'
  BY <1>2, <1>3 DEF GInv, FilesTrue, OpenShared, RowsTrue, stored
<1>5. Collects'
  BY <1>1, <1>2, <1>3 DEF GInv, Collects, Waits, Flies
<1> QED
  BY <1>4, <1>5 DEF GInv

\* Every file begins with what the download that opened it brought, whole where parts
\* are collected and under the photo's name where that download had a row, and holds
\* nothing else unless it was left open: for any photos, sizes and types of parts,
\* whatever is downloaded, lost or started anew meanwhile.
THEOREM PhotosGenuine == Spec => []FilesGenuine
<1>1. IInv /\ GInv /\ [Next]_vars => GInv'
  <2> SUFFICES ASSUME IInv, GInv, [Next]_vars PROVE GInv'
    OBVIOUS
  <2>1. ASSUME NEW p \in Photos, OnContactsContacts(p) \/ UpdateUserPhoto(p) PROVE GInv'
    BY <2>1, NewFiles DEF OnContactsContacts, UpdateUserPhoto, DownloadImageThumb
  <2>2. ASSUME NEW p \in Own, OnUsersGetUsersAnswer(p) PROVE GInv'
    BY <2>2, NewFiles, PhotosAssumption DEF OnUsersGetUsersAnswer
  <2>3. ASSUME NEW dc \in Dcs, OnUploadGetFileSessionCreated(dc) PROVE GInv'
    BY <2>3, WaitersSent
  <2>4. ASSUME NEW dc \in Dcs, ConnectionLost(dc) PROVE GInv'
    BY <2>4, TablesLeft DEF ConnectionLost
  <2>5. ASSUME NEW r \in replies, OnUnknownAnswer(r) PROVE GInv'
    BY <2>5, TablesLeft DEF OnUnknownAnswer, memory
  <2>6. ASSUME NEW r \in replies, NEW partial \in PartTypes, OnUploadGetFileAnswer(r, partial)
        PROVE  GInv'
    BY <2>6, AnswerFiles
  <2>7. ASSUME NEW q \in queries, ServerSendsPart(q) \/ ServerRefuses(q) \/ Recompose(q)
        PROVE  GInv'
    BY <2>7, TablesLeft DEF ServerSendsPart, ServerRefuses, Recompose, Uncounted, memory
  <2>8. CASE Exit
    BY <2>8, FilesStay
  <2>9. CASE UNCHANGED vars
    BY <2>9, TablesLeft DEF vars, memory
  <2> QED
    BY <2>1, <2>2, <2>3, <2>4, <2>5, <2>6, <2>7, <2>8, <2>9 DEF Next
<1> QED
  BY <1>1, NoFiles, TrueIsGenuine, DownloadsInvariant, PTL DEF Spec
=============================================================================
