--------------------------- MODULE PromiseProofs ---------------------------
(***************************************************************************)
(* SessionSystem implements RpcPromise, for every set of sessions, data    *)
(* centres and queries, every bound, clock and skew.  The invariant of     *)
(* SessionProofs speaks of the client alone; the one here follows a query  *)
(* to the server and its answer back.                                      *)
(***************************************************************************)
EXTENDS SessionProofs

\* The messages under way to the server, and the answers under way to handlers.
Wire(s) == {toServer[s][i] : i \in DOMAIN toServer[s]} \ {Marker}
ComingTo(s, a) ==
  \/ \E i \in DOMAIN toClient[s] : \E j \in DOMAIN toClient[s][i] : toClient[s][i][j] = a
  \/ \E j \in DOMAIN executing[s] : executing[s][j] = a
Coming(a) == \E s \in Sessions : ComingTo(s, a)

Refusals == {"badSalt", "badMsg"}
Served == inService \cup finished

\* What is written was sent under the query's present id, and the message with that
\* outer id has not been seen by the server, nor a container been made around it.
WireInv ==
  \A s \in Sessions : \A m \in Wire(s) :
    /\ m \in sent /\ m.sess = s /\ m.item.msgId = msgIdOf[m.item.query]
    /\ \A n \in sent : n.item.msgId = m.msgId => n = m
    /\ \A r \in Served : r.id # m.msgId
OnceOnWire ==
  \A s \in Sessions : \A i, j \in DOMAIN toServer[s] :
     toServer[s][i] = toServer[s][j] /\ toServer[s][i] # Marker => i = j

\* A query never changes its session.
HomesKept == \A m \in sent : home[m.item.query] = m.sess

\* The outer id that is refused is on no wire any more; the query that is refused for
\* its date is in no container and was not served.
Refused(a) ==
  /\ a.id <= clientLastMsgId
  /\ \A s \in Sessions : \A m \in Wire(s) : m.msgId # a.id
  /\ a.op = "badMsg" =>
       /\ \A s \in Sessions : \A m \in Wire(s) : m.item.msgId # a.id
       /\ \A r \in Served : r.id # a.id
       /\ \A b : Coming(b) /\ b.op = "badSalt" => b.id # a.id
RefusalInv == \A a : Coming(a) /\ a.op \in Refusals => Refused(a)

\* A query in service was not executed, and is there under its present id.
InService(r) ==
  /\ executions[r.query] = <<>> /\ r.id = msgIdOf[r.query] /\ r.sess = home[r.query]
  /\ \E m \in sent : m.item.msgId = r.id /\ m.item.query = r.query
ServiceInv == \A r \in inService : InService(r)

\* What the server did is what it answers.
FinishedInv ==
  \A r \in finished : \E m \in sent :
    m.item.msgId = r.id /\ executions[m.item.query] = <<r.op>>
ExecutedInv ==
  \A q \in Queries : executions[q] # <<>> =>
    \E r \in finished : r.sess = home[q] /\ r.id = msgIdOf[q]
AnswerInv ==
  \A a : Coming(a) /\ a.op \in Outcomes => \E r \in finished : r.id = a.id /\ r.op = a.op

PromiseInv ==
  /\ WireInv /\ OnceOnWire /\ HomesKept /\ RefusalInv
  /\ ServiceInv /\ FinishedInv /\ ExecutedInv /\ AnswerInv

---------------------------------------------------------------------------
(* The two wires. *)

\* What is written is what was there, and what is appended.
LEMMA WireAppend ==
  ASSUME TypeOK, NEW s \in Sessions, NEW m \in Message \cup {Marker},
         toServer' = [toServer EXCEPT ![s] = Append(@, m)]
  PROVE  /\ \A x \in Sessions : Wire(x)' \subseteq Wire(x) \cup (IF x = s THEN {m} ELSE {})
         /\ OnceOnWire /\ (m # Marker => m \notin Wire(s)) => OnceOnWire'
<1>1. toServer \in [Sessions -> Seq(Message \cup {Marker})]
  BY TypesOfWires
<1>2. \A x \in Sessions \ {s} : toServer'[x] = toServer[x]
  BY <1>1
<1> DEFINE n == Len(toServer[s])
<1>3. /\ n \in Nat /\ DOMAIN toServer[s] = 1..n
      /\ DOMAIN toServer'[s] = 1..(n + 1) /\ toServer'[s][n + 1] = m
      /\ \A i \in 1..n : toServer'[s][i] = toServer[s][i]
  BY <1>1
<1> HIDE DEF n
<1>4. \A x \in Sessions : Wire(x)' \subseteq Wire(x) \cup (IF x = s THEN {m} ELSE {})
  BY <1>2, <1>3 DEF Wire, Marker
<1>5. ASSUME OnceOnWire, m # Marker => m \notin Wire(s)
      PROVE  OnceOnWire'
  <2> SUFFICES ASSUME NEW x \in Sessions, NEW i \in DOMAIN toServer'[x],
                      NEW j \in DOMAIN toServer'[x],
                      toServer'[x][i] = toServer'[x][j], toServer'[x][i] # Marker
               PROVE  i = j
    BY DEF OnceOnWire, Marker
  <2>1. CASE x # s
    BY <1>2, <1>5, <2>1 DEF OnceOnWire
  <2>2. CASE x = s
    <3>1. CASE i \in 1..n /\ j \in 1..n
      BY <1>3, <1>5, <2>2, <3>1 DEF OnceOnWire
    <3>2. ASSUME NEW k \in 1..n PROVE toServer[s][k] # Marker => toServer[s][k] \in Wire(s)
      BY <1>3 DEF Wire
    <3>3. CASE i = n + 1 /\ j \in 1..n
      BY <1>3, <1>5, <2>2, <3>2, <3>3
    <3>4. CASE j = n + 1 /\ i \in 1..n
      BY <1>3, <1>5, <2>2, <3>2, <3>4
    <3>5. CASE i = n + 1 /\ j = n + 1
      BY <3>5
    <3>6. \A k \in 1..(n + 1) : k \in 1..n \/ k = n + 1
      BY <1>3
    <3> QED
      BY <1>3, <2>2, <3>1, <3>3, <3>4, <3>5, <3>6
  <2> QED
    BY <2>1, <2>2
<1> QED
  BY <1>4, <1>5

\* Reading takes the first message, which is not written a second time.
LEMMA WireTail ==
  ASSUME TypeOK, NEW s \in Sessions, toServer[s] # <<>>,
         toServer' = [toServer EXCEPT ![s] = Tail(@)]
  PROVE  /\ \A x \in Sessions : Wire(x)' \subseteq Wire(x)
         /\ Head(toServer[s]) # Marker => Head(toServer[s]) \in Wire(s)
         /\ OnceOnWire => /\ OnceOnWire'
                          /\ Head(toServer[s]) \notin Wire(s)'
<1>1. toServer \in [Sessions -> Seq(Message \cup {Marker})]
  BY TypesOfWires
<1>2. \A x \in Sessions \ {s} : toServer'[x] = toServer[x]
  BY <1>1
<1> DEFINE n == Len(toServer[s])
<1>3. /\ n \in Nat \ {0} /\ DOMAIN toServer[s] = 1..n
      /\ DOMAIN toServer'[s] = 1..(n - 1) /\ Head(toServer[s]) = toServer[s][1]
      /\ \A i \in 1..(n - 1) : toServer'[s][i] = toServer[s][i + 1]
  BY <1>1
<1>7. Head(toServer[s]) = toServer[s][1]
  BY <1>3
<1> HIDE DEF n
<1>4. \A i \in 1..(n - 1) : i + 1 \in 1..n /\ i + 1 # 1
  BY <1>3
<1>5. \A x \in Sessions : Wire(x)' \subseteq Wire(x)
  BY <1>2, <1>3, <1>4 DEF Wire, Marker
<1>6. Head(toServer[s]) # Marker => Head(toServer[s]) \in Wire(s)
  <2>1. 1 \in 1..n
    BY <1>3
  <2> QED
    BY <1>3, <2>1 DEF Wire
<1>8. ASSUME OnceOnWire
      PROVE  OnceOnWire' /\ Head(toServer[s]) \notin Wire(s)'
  <2>1. OnceOnWire'
    <3> SUFFICES ASSUME NEW x \in Sessions, NEW i \in DOMAIN toServer'[x],
                        NEW j \in DOMAIN toServer'[x],
                        toServer'[x][i] = toServer'[x][j], toServer'[x][i] # Marker
                 PROVE  i = j
      BY DEF OnceOnWire, Marker
    <3>1. CASE x # s
      BY <1>2, <1>8, <3>1 DEF OnceOnWire
    <3>2. CASE x = s
      <4>1. i + 1 = j + 1
        BY <1>3, <1>4, <1>8, <3>2 DEF OnceOnWire
      <4> QED
        BY <1>3, <3>2, <4>1
    <3> QED
      BY <3>1, <3>2
  <2>2. ASSUME Head(toServer[s]) \in Wire(s)' PROVE FALSE
    <3>1. PICK i \in 1..(n - 1) : toServer'[s][i] = Head(toServer[s])
                                  /\ Head(toServer[s]) # Marker
      BY <1>3, <2>2 DEF Wire, Marker
    <3>2. 1 \in 1..n /\ toServer[s][i + 1] = toServer[s][1]
      BY <1>3, <1>7, <3>1
    <3> QED
      BY <1>3, <1>4, <1>7, <1>8, <3>1, <3>2 DEF OnceOnWire
  <2> QED
    BY <2>1, <2>2
<1> QED
  BY <1>5, <1>6, <1>8

\* A socket that is opened or ended has nothing written.
LEMMA WireEmpty ==
  ASSUME TypeOK, NEW s \in Sessions, toServer' = [toServer EXCEPT ![s] = <<>>]
  PROVE  (\A x \in Sessions : Wire(x)' \subseteq Wire(x)) /\ (OnceOnWire => OnceOnWire')
<1>1. toServer \in [Sessions -> Seq(Message \cup {Marker})]
  BY TypesOfWires
<1>2. toServer'[s] = <<>> /\ \A x \in Sessions \ {s} : toServer'[x] = toServer[x]
  BY <1>1
<1>3. \A x \in Sessions : toServer'[x] = toServer[x] \/ DOMAIN toServer'[x] = {}
  BY <1>2
<1> QED
  BY <1>3 DEF Wire, OnceOnWire, Marker

\* Whatever is under way to a handler is an answer.
LEMMA ComingType ==
  ASSUME TypeOK, NEW a, Coming(a)
  PROVE  a \in Answer /\ a.id \in Nat
<1>1. /\ toClient \in [Sessions -> Seq(Seq(Answer) \ {<<>>})]
      /\ executing \in [Sessions -> Seq(Answer)]
  BY DEF TypeOK, SessionTypeOK
<1>2. PICK x \in Sessions : ComingTo(x, a)
  BY DEF Coming
<1>3. ASSUME NEW i \in DOMAIN toClient[x], NEW j \in DOMAIN toClient[x][i], toClient[x][i][j] = a
      PROVE  a \in Answer
  <2>1. toClient[x][i] \in Seq(Answer)
    BY <1>1
  <2> QED
    BY <1>3, <2>1
<1>4. ASSUME NEW j \in DOMAIN executing[x], executing[x][j] = a
      PROVE  a \in Answer
  BY <1>1, <1>4
<1>5. a \in Answer
  BY <1>2, <1>3, <1>4 DEF ComingTo
<1> QED
  BY <1>5 DEF Answer

\* The server's answer is the only one that comes anew.
LEMMA ComingWritten ==
  ASSUME TypeOK, NEW s \in Sessions, NEW a, Writes(s, <<a>>), executing' = executing
  PROVE  \A b : Coming(b)' => Coming(b) \/ b = a
<1>1. toClient \in [Sessions -> Seq(Seq(Answer) \ {<<>>})]
  BY TypesOfWires
<1> SUFFICES ASSUME NEW b, NEW x \in Sessions, ComingTo(x, b)'
             PROVE  ComingTo(x, b) \/ b = a
  BY DEF Coming
<1>2. CASE \E j \in DOMAIN executing'[x] : executing'[x][j] = b
  BY <1>2 DEF ComingTo
<1>3. ASSUME NEW i \in DOMAIN toClient'[x], NEW j \in DOMAIN toClient'[x][i],
             toClient'[x][i][j] = b
      PROVE  ComingTo(x, b) \/ b = a
  <2>1. CASE x # s
    <3>1. toClient'[x] = toClient[x]
      BY <1>1, <2>1 DEF Writes
    <3> QED
      BY <1>3, <3>1 DEF ComingTo
  <2>2. CASE x = s /\ toClient' = [toClient EXCEPT ![s] = Append(@, <<a>>)]
    <3> DEFINE n == Len(toClient[s])
    <3>1. /\ n \in Nat /\ DOMAIN toClient[s] = 1..n
          /\ DOMAIN toClient'[s] = 1..(n + 1) /\ toClient'[s][n + 1] = <<a>>
          /\ \A k \in 1..n : toClient'[s][k] = toClient[s][k]
      <4>1. toClient'[s] = Append(toClient[s], <<a>>)
        BY <1>1, <2>2
      <4> QED
        BY <1>1, <4>1
    <3> HIDE DEF n
    <3>2. i \in 1..n \/ i = n + 1
      BY <2>2, <3>1
    <3>3. CASE i \in 1..n
      BY <1>3, <2>2, <3>1, <3>3 DEF ComingTo
    <3>4. CASE i = n + 1
      <4>1. j \in DOMAIN <<a>> /\ b = <<a>>[j]
        BY <1>3, <2>2, <3>1, <3>4
      <4>2. b = a
        BY <4>1
      <4> QED
        BY <4>2
    <3> QED
      BY <3>2, <3>3, <3>4
  <2>3. CASE /\ x = s /\ toClient[s] # <<>>
             /\ toClient' = [toClient EXCEPT ![s][Len(toClient[s])] =
                               toClient[s][Len(toClient[s])] \o <<a>>]
    <3> DEFINE n == Len(toClient[s])
               last == toClient[s][n]
               k == Len(last)
    <3>1. /\ n \in DOMAIN toClient[s] /\ DOMAIN toClient'[s] = DOMAIN toClient[s]
          /\ toClient'[s][n] = last \o <<a>> /\ last \in Seq(Answer)
          /\ \A p \in DOMAIN toClient[s] \ {n} : toClient'[s][p] = toClient[s][p]
      BY <1>1, <2>3
    <3>2. /\ k \in Nat /\ DOMAIN last = 1..k /\ DOMAIN toClient'[s][n] = 1..(k + 1)
          /\ toClient'[s][n][k + 1] = a
          /\ \A p \in 1..k : toClient'[s][n][p] = last[p]
      BY <3>1
    <3> HIDE DEF k
    <3>3. CASE i # n
      <4>1. i \in DOMAIN toClient[s] /\ toClient'[s][i] = toClient[s][i]
        BY <2>3, <3>1, <3>3
      <4> QED
        BY <1>3, <2>3, <4>1 DEF ComingTo
    <3>4. CASE i = n /\ j = k + 1
      BY <1>3, <2>3, <3>2, <3>4
    <3>5. CASE i = n /\ j \in 1..k
      <4>1. b = toClient[s][n][j] /\ j \in DOMAIN toClient[s][n]
        BY <1>3, <2>3, <3>2, <3>5
      <4> QED
        BY <2>3, <3>1, <4>1 DEF ComingTo
    <3>6. i = n => j \in 1..k \/ j = k + 1
      BY <1>3, <2>3, <3>2
    <3> QED
      BY <3>3, <3>4, <3>5, <3>6
  <2> QED
    BY <2>1, <2>2, <2>3 DEF Writes
<1> QED
  BY <1>2, <1>3 DEF ComingTo

\* A session whose two queues stay has the same answers coming.
LEMMA ComingUnchanged ==
  ASSUME NEW x \in Sessions, toClient'[x] = toClient[x], executing'[x] = executing[x]
  PROVE  \A b : ComingTo(x, b)' => ComingTo(x, b)
  BY DEF ComingTo

\* Taking a message apart and dropping it bring nothing new.
LEMMA ComingHandled ==
  ASSUME TypeOK, NEW s \in Sessions, toClient[s] # <<>>,
         toClient' = [toClient EXCEPT ![s] = Tail(@)],
         \/ executing' = executing
         \/ executing' = [executing EXCEPT ![s] = Head(toClient[s])]
  PROVE  \A b : Coming(b)' => Coming(b)
<1>1. /\ toClient \in [Sessions -> Seq(Seq(Answer) \ {<<>>})]
      /\ executing \in [Sessions -> Seq(Answer)]
  BY DEF TypeOK, SessionTypeOK
<1> SUFFICES ASSUME NEW b, NEW x \in Sessions, ComingTo(x, b)'
             PROVE  ComingTo(x, b)
  BY DEF Coming
<1> DEFINE n == Len(toClient[s])
<1>2. /\ n \in Nat \ {0} /\ DOMAIN toClient[s] = 1..n
      /\ DOMAIN toClient'[s] = 1..(n - 1) /\ Head(toClient[s]) = toClient[s][1]
      /\ \A i \in 1..(n - 1) : toClient'[s][i] = toClient[s][i + 1]
  BY <1>1
<1>3. Head(toClient[s]) = toClient[s][1] /\ 1 \in DOMAIN toClient[s]
  BY <1>2
<1> HIDE DEF n
<1>4. \A i \in 1..(n - 1) : i + 1 \in 1..n
  BY <1>2
<1>5. CASE x # s
  <2>1. toClient'[x] = toClient[x] /\ executing'[x] = executing[x]
    BY <1>1, <1>5
  <2> QED
    BY <2>1, ComingUnchanged
<1>6. CASE x = s
  <2>1. ASSUME NEW i \in DOMAIN toClient'[s], NEW j \in DOMAIN toClient'[s][i],
               toClient'[s][i][j] = b
        PROVE  ComingTo(s, b)
    <3>1. i + 1 \in DOMAIN toClient[s] /\ toClient'[s][i] = toClient[s][i + 1]
      BY <1>2, <1>4
    <3> QED
      BY <2>1, <3>1 DEF ComingTo
  <2>2. ASSUME NEW j \in DOMAIN executing'[s], executing'[s][j] = b
        PROVE  ComingTo(s, b)
    <3>1. executing'[s] = executing[s] \/ executing'[s] = toClient[s][1]
      BY <1>1, <1>3
    <3> QED
      BY <1>3, <2>2, <3>1 DEF ComingTo
  <2> QED
    BY <1>6, <2>1, <2>2 DEF ComingTo
<1> QED
  BY <1>5, <1>6

\* The answer that is being executed is under way until it is done.
LEMMA ComingExecuting ==
  ASSUME TypeOK, NEW s \in Sessions, executing[s] # <<>>
  PROVE  Coming(Current(s))
<1>1. executing[s] \in Seq(Answer)
  BY DEF TypeOK, SessionTypeOK
<1>2. Current(s) = executing[s][1] /\ 1 \in DOMAIN executing[s]
  BY <1>1 DEF Current
<1>3. ComingTo(s, Current(s))
  BY <1>2 DEF ComingTo
<1> QED
  BY <1>3 DEF Coming

\* Executing an answer brings nothing new.
LEMMA ComingExecuted ==
  ASSUME TypeOK, NEW s \in Sessions, executing[s] # <<>>, Executed(s), toClient' = toClient
  PROVE  (\A b : Coming(b)' => Coming(b)) /\ Coming(Current(s))
<1>1. executing \in [Sessions -> Seq(Answer)]
  BY DEF TypeOK, SessionTypeOK
<1> DEFINE n == Len(executing[s])
<1>2. /\ n \in Nat \ {0} /\ DOMAIN executing[s] = 1..n
      /\ DOMAIN executing'[s] = 1..(n - 1)
      /\ \A i \in 1..(n - 1) : executing'[s][i] = executing[s][i + 1]
  BY <1>1 DEF Executed
<1> HIDE DEF n
<1>3. \A i \in 1..(n - 1) : i + 1 \in 1..n
  BY <1>2
<1>4. ASSUME NEW b, NEW x \in Sessions, ComingTo(x, b)'
      PROVE  ComingTo(x, b)
  <2>1. CASE \E i \in DOMAIN toClient'[x] : \E j \in DOMAIN toClient'[x][i] : toClient'[x][i][j] = b
    BY <2>1 DEF ComingTo
  <2>2. ASSUME NEW j \in DOMAIN executing'[x], executing'[x][j] = b
        PROVE  ComingTo(x, b)
    <3>1. CASE x # s
      <4>1. executing'[x] = executing[x]
        BY <1>1, <3>1 DEF Executed
      <4> QED
        BY <2>2, <4>1 DEF ComingTo
    <3>2. CASE x = s
      <4>1. j + 1 \in DOMAIN executing[s] /\ executing[s][j + 1] = b
        BY <1>2, <1>3, <2>2, <3>2
      <4> QED
        BY <3>2, <4>1 DEF ComingTo
    <3> QED
      BY <3>1, <3>2
  <2> QED
    BY <1>4, <2>1, <2>2 DEF ComingTo
<1> QED
  BY <1>4, ComingExecuting DEF Coming

\* A connection that is lost, or a session that is deleted, brings nothing new.
LEMMA ComingLost ==
  ASSUME TypeOK, NEW s \in Sessions, NEW n \in 0..Len(toClient[s]), executing' = executing,
         \/ toClient' = [toClient EXCEPT ![s] = SubSeq(@, 1, n)]
         \/ toClient' = [toClient EXCEPT ![s] = <<>>]
  PROVE  \A b : Coming(b)' => Coming(b)
<1>1. toClient \in [Sessions -> Seq(Seq(Answer) \ {<<>>})]
  BY TypesOfWires
<1>2. \A x \in Sessions : \A i \in DOMAIN toClient'[x] :
         i \in DOMAIN toClient[x] /\ toClient'[x][i] = toClient[x][i]
  <2>1. \A x \in Sessions \ {s} : toClient'[x] = toClient[x]
    BY <1>1
  <2>2. CASE toClient' = [toClient EXCEPT ![s] = SubSeq(@, 1, n)]
    <3>1. toClient'[s] = SubSeq(toClient[s], 1, n) /\ toClient[s] \in Seq(Seq(Answer) \ {<<>>})
      BY <1>1, <2>2
    <3>2. \A i \in DOMAIN toClient'[s] :
             i \in DOMAIN toClient[s] /\ toClient'[s][i] = toClient[s][i]
      BY <3>1
    <3> QED
      BY <2>1, <3>2
  <2>3. CASE toClient' = [toClient EXCEPT ![s] = <<>>]
    <3>1. DOMAIN toClient'[s] = {}
      BY <1>1, <2>3
    <3> QED
      BY <2>1, <3>1
  <2> QED
    BY <2>2, <2>3
<1> SUFFICES ASSUME NEW b, NEW x \in Sessions, ComingTo(x, b)'
             PROVE  ComingTo(x, b)
  BY DEF Coming
<1> QED
  BY <1>2 DEF ComingTo

---------------------------------------------------------------------------
(* Steps that send nothing and serve nothing. *)

promiseVars == <<sent, clientLastMsgId, home, msgIdOf, inService, finished, executions>>

\* An answer that refuses nothing, and says what the server did.
Harmless(a) ==
  /\ a.op \notin Refusals
  /\ a.op \in Outcomes => \E r \in finished : r.id = a.id /\ r.op = a.op

\* Messages are read, lost or handled, and harmless answers written.
LEMMA Gentle ==
  ASSUME PromiseInv, UNCHANGED promiseVars, OnceOnWire',
         \A x \in Sessions : Wire(x)' \subseteq Wire(x),
         \A b : Coming(b)' => Coming(b) \/ Harmless(b)
  PROVE  PromiseInv'
<1>1. WireInv'
  BY DEF PromiseInv, WireInv, promiseVars, Served
<1>2. HomesKept' /\ ServiceInv' /\ FinishedInv' /\ ExecutedInv'
  BY DEF PromiseInv, promiseVars, HomesKept, ServiceInv, InService, FinishedInv, ExecutedInv
<1>3. RefusalInv'
  <2> SUFFICES ASSUME NEW a, Coming(a)', a.op \in Refusals
               PROVE  Refused(a)'
    BY DEF RefusalInv, Refusals
  <2>1. Refused(a)
    BY DEF PromiseInv, RefusalInv, Harmless
  <2>2. \A b : Coming(b)' /\ b.op = "badSalt" => Coming(b)
    BY DEF Harmless, Refusals
  <2> QED
    BY <2>1, <2>2 DEF Refused, promiseVars, Served
<1>4. AnswerInv'
  <2> SUFFICES ASSUME NEW a, Coming(a)', a.op \in Outcomes
               PROVE  \E r \in finished' : r.id = a.id /\ r.op = a.op
    BY DEF AnswerInv, Outcomes
  <2> QED
    BY DEF PromiseInv, AnswerInv, Harmless, promiseVars
<1> QED
  BY <1>1, <1>2, <1>3, <1>4 DEF PromiseInv

\* Nothing at all changes of what the invariant speaks of.
LEMMA Untouched ==
  ASSUME PromiseInv, UNCHANGED promiseVars, UNCHANGED <<toServer, toClient, executing>>
  PROVE  PromiseInv'
<1>1. \A x \in Sessions : Wire(x)' = Wire(x)
  BY DEF Wire, Marker
<1>2. OnceOnWire'
  BY DEF PromiseInv, OnceOnWire, Marker
<1>3. \A b : Coming(b)' => Coming(b)
  BY DEF Coming, ComingTo
<1> QED
  BY <1>1, <1>2, <1>3, Gentle

\* The life of a session and its socket.
LEMMA GentleLife ==
  ASSUME IInv, PromiseInv, NEW s \in Sessions,
         Opens(s) \/ Connects(s) \/ Closes(s) \/ Loses(s)
  PROVE  PromiseInv'
<1>1. TypeOK /\ OnceOnWire
  BY DEF IInv, PromiseInv
<1>2. UNCHANGED promiseVars /\ executing' = executing
  BY DEF Opens, Connects, Closes, Loses, NewSession, OnConnected, ConnectToServer, Close,
         OnDisconnected, Delete, ConnectionLost, promiseVars, envVars, serverVars, idVars,
         queryVars
<1>3. \/ toServer' = toServer
      \/ toServer' = [toServer EXCEPT ![s] = Append(@, Marker)]
      \/ toServer' = [toServer EXCEPT ![s] = <<>>]
  BY DEF Opens, Connects, Closes, Loses, NewSession, OnConnected, ConnectToServer, Close,
         OnDisconnected, Delete, ConnectionLost
<1>4. \/ toClient' = toClient
      \/ \E n \in 0..Len(toClient[s]) : toClient' = [toClient EXCEPT ![s] = SubSeq(@, 1, n)]
      \/ toClient' = [toClient EXCEPT ![s] = <<>>]
  BY DEF Opens, Connects, Closes, Loses, NewSession, OnConnected, ConnectToServer, Close,
         OnDisconnected, Delete, ConnectionLost
<1>5. OnceOnWire' /\ \A x \in Sessions : Wire(x)' \subseteq Wire(x)
  <2>1. CASE toServer' = toServer
    BY <1>1, <2>1 DEF Wire, OnceOnWire, Marker
  <2>2. CASE toServer' = [toServer EXCEPT ![s] = Append(@, Marker)]
    <3>1. \A x \in Sessions : Wire(x)' \subseteq Wire(x) \cup {Marker}
      BY <1>1, <2>2, WireAppend
    <3>2. \A x \in Sessions : Marker \notin Wire(x)'
      BY DEF Wire, Marker
    <3>3. Marker \in Message \cup {Marker}
      OBVIOUS
    <3>4. OnceOnWire'
      BY <1>1, <2>2, <3>3, WireAppend
    <3> QED
      BY <3>1, <3>2, <3>4
  <2>3. CASE toServer' = [toServer EXCEPT ![s] = <<>>]
    BY <1>1, <2>3, WireEmpty
  <2> QED
    BY <1>3, <2>1, <2>2, <2>3
<1>6. \A b : Coming(b)' => Coming(b)
  <2>1. CASE toClient' = toClient
    BY <1>2, <2>1 DEF Coming, ComingTo
  <2>2. ASSUME NEW n \in 0..Len(toClient[s]), toClient' = [toClient EXCEPT ![s] = SubSeq(@, 1, n)]
        PROVE  \A b : Coming(b)' => Coming(b)
    BY <1>1, <1>2, <2>2, ComingLost
  <2>3. CASE toClient' = [toClient EXCEPT ![s] = <<>>]
    <3>1. 0 \in 0..Len(toClient[s])
      BY <1>1, TypesOfWires
    <3> QED
      BY <1>1, <1>2, <2>3, <3>1, ComingLost
  <2> QED
    BY <1>4, <2>1, <2>2, <2>3
<1> QED
  BY <1>2, <1>5, <1>6, Gentle

\* Messages of the server are taken apart, or dropped.
LEMMA GentleHandling ==
  ASSUME IInv, PromiseInv, NEW s \in Sessions, Handles(s) \/ Drops(s)
  PROVE  PromiseInv'
<1>1. TypeOK
  BY DEF IInv
<1>2. UNCHANGED promiseVars /\ toServer' = toServer
  BY DEF Handles, Drops, ProcessRpcAnswer, promiseVars, envVars, serverVars, idVars, queryVars,
         connVars
<1>3. /\ toClient[s] # <<>> /\ toClient' = [toClient EXCEPT ![s] = Tail(@)]
      /\ \/ executing' = executing
         \/ executing' = [executing EXCEPT ![s] = Head(toClient[s])]
  BY DEF Handles, Drops, ProcessRpcAnswer
<1>4. \A b : Coming(b)' => Coming(b)
  BY <1>1, <1>3, ComingHandled
<1>5. OnceOnWire' /\ \A x \in Sessions : Wire(x)' = Wire(x)
  BY <1>2 DEF PromiseInv, Wire, OnceOnWire, Marker
<1> QED
  BY <1>2, <1>4, <1>5, Gentle

\* An answer is executed without a message being sent.
LEMMA GentleWork ==
  ASSUME IInv, PromiseInv, NEW s \in Sessions, executing[s] # <<>>, Executed(s),
         UNCHANGED promiseVars, UNCHANGED <<toServer, toClient>>
  PROVE  PromiseInv'
<1>1. TypeOK
  BY DEF IInv
<1>2. \A b : Coming(b)' => Coming(b)
  BY <1>1, ComingExecuted
<1>3. OnceOnWire' /\ \A x \in Sessions : Wire(x)' = Wire(x)
  BY DEF PromiseInv, Wire, OnceOnWire, Marker
<1> QED
  BY <1>2, <1>3, Gentle

\* The server reads what is no message.
LEMMA GentleReading ==
  ASSUME IInv, PromiseInv, NEW s \in Sessions, ServerOpensStream(s) \/ ServerIgnores(s)
  PROVE  PromiseInv'
<1>1. TypeOK /\ OnceOnWire
  BY DEF IInv, PromiseInv
<1>2. /\ UNCHANGED promiseVars /\ UNCHANGED <<toClient, executing>>
      /\ toServer[s] # <<>> /\ toServer' = [toServer EXCEPT ![s] = Tail(@)]
  BY DEF ServerOpensStream, ServerIgnores, Reads, ClientState, serverVars, promiseVars, idVars,
         queryVars
<1>3. OnceOnWire' /\ \A x \in Sessions : Wire(x)' \subseteq Wire(x)
  BY <1>1, <1>2, WireTail
<1>4. \A b : Coming(b)' => Coming(b)
  BY <1>2 DEF Coming, ComingTo
<1> QED
  BY <1>2, <1>3, <1>4, Gentle

\* The server acknowledges, repeats an answer, or announces something.
LEMMA GentleWriting ==
  ASSUME IInv, PromiseInv, NEW s \in Sessions,
         ServerAcks(s) \/ ServerRepeats(s) \/ ServerPushes(s)
  PROVE  PromiseInv'
<1>1. TypeOK
  BY DEF IInv
<1>2. UNCHANGED promiseVars /\ UNCHANGED <<toServer, executing>>
  BY DEF ServerAcks, ServerRepeats, ServerPushes, ClientState, serverVars, promiseVars, idVars,
         queryVars
<1>3. PICK a : Writes(s, <<a>>) /\ Harmless(a)
  <2>1. ASSUME NEW op \in Ops, NEW id, op \notin Refusals,
               op \in Outcomes => \E r \in finished : r.id = id /\ r.op = op
        PROVE  Harmless(AnswerOf(s, op, id))
    BY <2>1 DEF Harmless, AnswerOf
  <2>2. CASE ServerAcks(s)
    <3>1. PICK id : Writes(s, <<AnswerOf(s, "ack", id)>>)
      BY <2>2 DEF ServerAcks
    <3>2. "ack" \in Ops /\ "ack" \notin Refusals /\ "ack" \notin Outcomes
      BY DEF Ops, Refusals, Outcomes
    <3> QED
      BY <2>1, <3>1, <3>2
  <2>3. CASE ServerRepeats(s)
    <3>1. PICK r \in finished : Writes(s, <<AnswerOf(s, r.op, r.id)>>)
      BY <2>3 DEF ServerRepeats
    <3>2. r.op \in Outcomes
      BY <1>1 DEF TypeOK, Reply
    <3>3. r.op \in Ops /\ r.op \notin Refusals
      BY <3>2 DEF Ops, Refusals, Outcomes
    <3> QED
      BY <2>1, <3>1, <3>3
  <2>4. CASE ServerPushes(s)
    <3>1. PICK op \in {"update", "notice"} : Writes(s, <<AnswerOf(s, op, 0)>>)
      BY <2>4 DEF ServerPushes
    <3>2. op \in Ops /\ op \notin Refusals /\ op \notin Outcomes
      BY DEF Ops, Refusals, Outcomes
    <3> QED
      BY <2>1, <3>1, <3>2
  <2> QED
    BY <2>2, <2>3, <2>4
<1>4. \A b : Coming(b)' => Coming(b) \/ Harmless(b)
  BY <1>1, <1>2, <1>3, ComingWritten
<1>5. OnceOnWire' /\ \A x \in Sessions : Wire(x)' = Wire(x)
  BY <1>2 DEF PromiseInv, Wire, OnceOnWire, Marker
<1> QED
  BY <1>2, <1>4, <1>5, Gentle

---------------------------------------------------------------------------
(* The server takes a message. *)

\* The fields of a message.
LEMMA MessageType ==
  ASSUME NEW m \in Message
  PROVE  /\ m.sess \in Sessions /\ m.msgId \in Nat
         /\ m.item.msgId \in Nat /\ m.item.query \in Queries
  BY DEF Message, Item

\* The message that is read is on the wire no more, and no other has its id.
LEMMA Taken ==
  ASSUME IInv, PromiseInv, NEW s \in Sessions, Reads(s), stream[s] = "abridged"
  PROVE  /\ Incoming(s) \in Wire(s) /\ Incoming(s) \in Message
         /\ OnceOnWire' /\ \A x \in Sessions : Wire(x)' \subseteq Wire(x)
         /\ \A x \in Sessions : \A n \in Wire(x)' :
               n # Incoming(s) /\ n.msgId # Incoming(s).msgId
<1> DEFINE m == Incoming(s)
<1>1. TypeOK /\ MarkerOpensStream /\ OnceOnWire /\ WireInv /\ MsgIdsUnique
  BY DEF IInv, PromiseInv
<1>2. m \in Message
  BY <1>1, IncomingType
<1>3. m # Marker
  <2>1. m.sess # NoSession
    BY <1>2, MessageType, QueriesAssumption
  <2> QED
    BY <2>1 DEF Marker
<1>4. /\ toServer[s] # <<>> /\ toServer' = [toServer EXCEPT ![s] = Tail(@)]
      /\ m = Head(toServer[s])
  BY DEF Reads, Incoming
<1> HIDE DEF m
<1>5. m \in Wire(s)
  BY <1>1, <1>3, <1>4, WireTail
<1>6. OnceOnWire'
  BY <1>1, <1>4, WireTail
<1>7. m \notin Wire(s)'
  BY <1>1, <1>4, WireTail
<1>8. \A x \in Sessions : Wire(x)' \subseteq Wire(x)
  BY <1>1, <1>4, WireTail
<1>9. ASSUME NEW x \in Sessions, NEW n \in Wire(x)'
      PROVE  n # m /\ n.msgId # m.msgId
  <2>1. n \in sent /\ n.sess = x /\ m \in sent /\ m.sess = s
    BY <1>1, <1>5, <1>8, <1>9 DEF WireInv
  <2>2. n # m
    BY <1>7, <1>9, <2>1
  <2> QED
    BY <1>1, <2>1, <2>2 DEF MsgIdsUnique
<1> QED
  BY <1>2, <1>5, <1>6, <1>8, <1>9 DEF m

\* What is refused is refused once, and for one reason.
LEMMA RejectKeeps ==
  ASSUME IInv, PromiseInv, NEW s \in Sessions, ServerRejects(s)
  PROVE  PromiseInv'
<1> DEFINE m == Incoming(s)
<1>1. TypeOK /\ IdsDrawn /\ WireInv /\ RefusalInv
  BY DEF IInv, PromiseInv
<1>2. Reads(s) /\ stream[s] = "abridged" /\ UNCHANGED promiseVars /\ executing' = executing
  BY DEF ServerRejects, ClientState, promiseVars, idVars, queryVars
<1>3. PICK a : /\ Writes(s, <<a>>) /\ a.id = m.msgId
               /\ a.op \in Refusals
  <2>1. ASSUME NEW op \in Refusals
        PROVE  AnswerOf(s, op, m.msgId).id = m.msgId /\ AnswerOf(s, op, m.msgId).op \in Refusals
    BY DEF AnswerOf
  <2>2. PICK op \in Refusals : Writes(s, <<AnswerOf(s, op, m.msgId)>>)
    BY DEF ServerRejects, Refusals
  <2> QED
    BY <2>1, <2>2
<1>4. /\ m \in Wire(s) /\ m \in Message
      /\ OnceOnWire' /\ \A x \in Sessions : Wire(x)' \subseteq Wire(x)
      /\ \A x \in Sessions : \A n \in Wire(x)' : n # m /\ n.msgId # m.msgId
  BY <1>2, Taken
<1>5. \A b : Coming(b)' => Coming(b) \/ b = a
  BY <1>1, <1>2, <1>3, ComingWritten
<1> HIDE DEF m
<1>6. m \in sent /\ (\A n \in sent : n.item.msgId = m.msgId => n = m)
      /\ \A r \in Served : r.id # m.msgId
  BY <1>1, <1>4 DEF WireInv
<1>7. \A b : Coming(b) /\ b.op \in Refusals => b.id # m.msgId
  BY <1>1, <1>4 DEF RefusalInv, Refused
<1>8. WireInv'
  BY <1>1, <1>2, <1>4 DEF WireInv, promiseVars, Served
<1>9. HomesKept' /\ ServiceInv' /\ FinishedInv' /\ ExecutedInv'
  BY <1>2 DEF PromiseInv, promiseVars, HomesKept, ServiceInv, InService, FinishedInv, ExecutedInv
<1>10. AnswerInv'
  <2> SUFFICES ASSUME NEW b, Coming(b)', b.op \in Outcomes
               PROVE  \E r \in finished' : r.id = b.id /\ r.op = b.op
    BY DEF AnswerInv, Outcomes
  <2>1. b # a
    BY <1>3 DEF Refusals, Outcomes
  <2> QED
    BY <1>2, <1>5, <2>1 DEF PromiseInv, AnswerInv, promiseVars
<1>11. RefusalInv'
  <2> SUFFICES ASSUME NEW c, Coming(c)', c.op \in Refusals
               PROVE  Refused(c)'
    BY DEF RefusalInv, Refusals
  <2>1. CASE Coming(c)
    <3>1. Refused(c)
      BY <1>1, <2>1 DEF RefusalInv
    <3>2. c.id # m.msgId
      BY <1>7, <2>1
    <3>3. c.op = "badMsg" => \A b : Coming(b)' /\ b.op = "badSalt" => b.id # c.id
      BY <1>3, <1>5, <3>1, <3>2 DEF Refused
    <3> QED
      BY <1>2, <1>4, <3>1, <3>3 DEF Refused, promiseVars, Served
  <2>2. CASE c = a
    <3>1. c.id = m.msgId /\ c.id <= clientLastMsgId'
      BY <1>1, <1>2, <1>3, <1>6, <2>2 DEF IdsDrawn, promiseVars
    <3>2. \A x \in Sessions : \A n \in Wire(x)' : n.msgId # c.id /\ n.item.msgId # c.id
      <4> SUFFICES ASSUME NEW x \in Sessions, NEW n \in Wire(x)'
                   PROVE  n.msgId # m.msgId /\ n.item.msgId # m.msgId
        BY <3>1
      <4>1. n \in sent
        BY <1>1, <1>4 DEF WireInv
      <4> QED
        BY <1>4, <1>6, <4>1
    <3>3. \A r \in Served' : r.id # c.id
      BY <1>2, <1>6, <3>1 DEF promiseVars, Served
    <3>4. c.op = "badMsg" => \A b : Coming(b)' /\ b.op = "badSalt" => b.id # c.id
      BY <1>5, <1>7, <2>2, <3>1 DEF Refusals
    <3> QED
      BY <3>1, <3>2, <3>3, <3>4 DEF Refused
  <2> QED
    BY <1>5, <2>1, <2>2
<1> QED
  BY <1>4, <1>8, <1>9, <1>10, <1>11 DEF PromiseInv

\* A query is taken into service unless the server knows its id.
LEMMA AcceptKeeps ==
  ASSUME IInv, PromiseInv, NEW s \in Sessions, ServerAccepts(s)
  PROVE  PromiseInv'
<1> DEFINE m == Incoming(s)
<1>0. PICK R : R = [sess |-> s, id |-> m.item.msgId, query |-> m.item.query]
  OBVIOUS
<1>1. TypeOK /\ IdsDrawn /\ WireInv /\ RefusalInv /\ HomesKept /\ ServiceInv /\ ExecutedInv
  BY DEF IInv, PromiseInv
<1>2. /\ Reads(s) /\ stream[s] = "abridged"
      /\ UNCHANGED <<sent, clientLastMsgId, home, msgIdOf, finished, executions, executing>>
  BY DEF ServerAccepts, ClientState, idVars, queryVars
<1>3. \/ inService' = inService /\ Known(s, m.item.msgId)
      \/ inService' = inService \cup {R} /\ ~Known(s, m.item.msgId)
  BY <1>0 DEF ServerAccepts
<1>4. \A b : Coming(b)' => Coming(b) \/ b.op = "newSession"
  <2>1. CASE toClient' = toClient
    BY <1>2, <2>1 DEF Coming, ComingTo
  <2>2. CASE Writes(s, <<AnswerOf(s, "newSession", m.item.msgId)>>)
    <3>1. \A b : Coming(b)' => Coming(b) \/ b = AnswerOf(s, "newSession", m.item.msgId)
      BY <1>1, <1>2, <2>2, ComingWritten
    <3> QED
      BY <3>1 DEF AnswerOf
  <2> QED
    BY <2>1, <2>2 DEF ServerAccepts
<1>5. /\ m \in Wire(s) /\ m \in Message
      /\ OnceOnWire' /\ \A x \in Sessions : Wire(x)' \subseteq Wire(x)
      /\ \A x \in Sessions : \A n \in Wire(x)' : n # m /\ n.msgId # m.msgId
  BY <1>2, Taken
<1> HIDE DEF m
<1>6. R.sess = s /\ R.id = m.item.msgId /\ R.query = m.item.query
  BY <1>0
<1>7. /\ m \in sent /\ m.sess = s /\ m.item.msgId = msgIdOf[m.item.query]
      /\ home[m.item.query] = s /\ m.item.query \in Queries
  BY <1>1, <1>5, MessageType DEF WireInv, HomesKept
<1>8. \A r \in Served' : r \in Served \/ r = R
  BY <1>2, <1>3 DEF Served
<1>9. WireInv'
  <2> SUFFICES ASSUME NEW x \in Sessions, NEW n \in Wire(x)'
               PROVE  /\ n \in sent' /\ n.sess = x /\ n.item.msgId = msgIdOf'[n.item.query]
                      /\ \A o \in sent' : o.item.msgId = n.msgId => o = n
                      /\ \A r \in Served' : r.id # n.msgId
    BY DEF WireInv
  <2>1. /\ n \in sent /\ n.sess = x /\ n.item.msgId = msgIdOf[n.item.query]
        /\ \A o \in sent : o.item.msgId = n.msgId => o = n
        /\ \A r \in Served : r.id # n.msgId
    BY <1>1, <1>5 DEF WireInv
  <2>2. R.id # n.msgId
    BY <1>5, <1>6, <1>7, <2>1
  <2> QED
    BY <1>2, <1>8, <2>1, <2>2
<1>10. HomesKept' /\ FinishedInv' /\ ExecutedInv'
  BY <1>2 DEF PromiseInv, HomesKept, FinishedInv, ExecutedInv
<1>11. AnswerInv'
  <2> SUFFICES ASSUME NEW b, Coming(b)', b.op \in Outcomes
               PROVE  \E r \in finished' : r.id = b.id /\ r.op = b.op
    BY DEF AnswerInv, Outcomes
  <2>1. Coming(b)
    BY <1>4 DEF Outcomes
  <2> QED
    BY <1>2, <2>1 DEF PromiseInv, AnswerInv
<1>12. RefusalInv'
  <2> SUFFICES ASSUME NEW c, Coming(c)', c.op \in Refusals
               PROVE  Refused(c)'
    BY DEF RefusalInv, Refusals
  <2>1. Coming(c) /\ \A b : Coming(b)' /\ b.op = "badSalt" => Coming(b)
    BY <1>4 DEF Refusals
  <2>2. Refused(c)
    BY <1>1, <2>1 DEF RefusalInv
  <2>3. c.op = "badMsg" => R.id # c.id
    BY <1>5, <1>6, <2>2 DEF Refused
  <2> QED
    BY <1>2, <1>5, <1>8, <2>1, <2>2, <2>3 DEF Refused
<1>13. ServiceInv'
  <2>1. \A r \in inService : InService(r)'
    BY <1>1, <1>2 DEF ServiceInv, InService
  <2>2. CASE inService' = inService
    BY <2>1, <2>2 DEF ServiceInv
  <2>3. CASE inService' = inService \cup {R} /\ ~Known(s, m.item.msgId)
    <3>1. executions[m.item.query] = <<>>
      BY <1>1, <1>7, <2>3 DEF ExecutedInv, Known
    <3>2. InService(R)'
      BY <1>2, <1>6, <1>7, <3>1 DEF InService
    <3> QED
      BY <2>1, <2>3, <3>2 DEF ServiceInv
  <2> QED
    BY <1>3, <2>2, <2>3
<1> QED
  BY <1>5, <1>9, <1>10, <1>11, <1>12, <1>13 DEF PromiseInv

\* A query in service is executed, and is in service no more.
LEMMA AnswerKeeps ==
  ASSUME IInv, PromiseInv, NEW s \in Sessions, ServerAnswers(s)
  PROVE  /\ PromiseInv'
         /\ \E q \in Queries, o \in Outcomes :
              /\ home[q] # NoSession /\ executions[q] = <<>>
              /\ executions' = [executions EXCEPT ![q] = <<o>>]
              /\ UNCHANGED <<home, answers>>
<1>1. TypeOK /\ WireInv /\ RefusalInv /\ ServiceInv /\ FinishedInv /\ ExecutedInv /\ AnswerInv
  BY DEF IInv, PromiseInv
<1>2. PICK r \in inService, op \in Outcomes :
        /\ r.sess = s
        /\ inService' = inService \ {r}
        /\ finished' = finished \cup {[sess |-> s, id |-> r.id, op |-> op]}
        /\ executions' = [executions EXCEPT ![r.query] = Append(@, op)]
        /\ Writes(s, <<AnswerOf(s, op, r.id)>>)
        /\ UNCHANGED <<ClientState, toServer>>
  BY DEF ServerAnswers
<1> DEFINE F == [sess |-> s, id |-> r.id, op |-> op]
           q == r.query
<1>3. UNCHANGED <<sent, clientLastMsgId, home, msgIdOf, executing, toServer, answers>>
  BY <1>2 DEF ClientState, idVars, queryVars
<1>4. F.sess = s /\ F.id = r.id /\ F.op = op
  OBVIOUS
<1>5. r \in Request /\ q \in Queries /\ executions \in [Queries -> Seq(Outcomes)]
      /\ inService \subseteq Request
  BY <1>1 DEF TypeOK, Request
<1>6. /\ executions[q] = <<>> /\ r.id = msgIdOf[q] /\ home[q] = s
      /\ \E m \in sent : m.item.msgId = r.id /\ m.item.query = q
  BY <1>1, <1>2 DEF ServiceInv, InService
<1>7. executions' = [executions EXCEPT ![q] = <<op>>]
  <2>1. Append(executions[q], op) = <<op>>
    BY <1>6
  <2> QED
    BY <1>2, <2>1
<1>8. finished' = finished \cup {F}
  BY <1>2
<1> HIDE DEF F, q
<1>9. executions'[q] = <<op>> /\ \A p \in Queries \ {q} : executions'[p] = executions[p]
  BY <1>5, <1>7
<1>10. \A x \in Served' : \E y \in Served : x.id = y.id
  BY <1>2, <1>4, <1>8 DEF Served
<1>11. OnceOnWire' /\ \A x \in Sessions : Wire(x)' = Wire(x)
  BY <1>3 DEF PromiseInv, Wire, OnceOnWire, Marker
<1>12. WireInv' /\ HomesKept'
  <2>1. HomesKept'
    BY <1>3 DEF PromiseInv, HomesKept
  <2>2. WireInv'
    BY <1>1, <1>3, <1>10, <1>11 DEF WireInv
  <2> QED
    BY <2>1, <2>2
<1>13. \A b : Coming(b)' => Coming(b) \/ (b.op = op /\ b.id = r.id)
  <2>1. \A b : Coming(b)' => Coming(b) \/ b = AnswerOf(s, op, r.id)
    BY <1>1, <1>2, <1>3, ComingWritten
  <2> QED
    BY <2>1 DEF AnswerOf
<1>14. RefusalInv'
  <2> SUFFICES ASSUME NEW c, Coming(c)', c.op \in Refusals
               PROVE  Refused(c)'
    BY DEF RefusalInv, Refusals
  <2>1. Coming(c) /\ \A b : Coming(b)' /\ b.op = "badSalt" => Coming(b)
    BY <1>13 DEF Refusals, Outcomes
  <2>2. Refused(c)
    BY <1>1, <2>1 DEF RefusalInv
  <2> QED
    BY <1>3, <1>10, <1>11, <2>1, <2>2 DEF Refused
<1>15. AnswerInv'
  <2> SUFFICES ASSUME NEW b, Coming(b)', b.op \in Outcomes
               PROVE  \E f \in finished' : f.id = b.id /\ f.op = b.op
    BY DEF AnswerInv, Outcomes
  <2> QED
    BY <1>1, <1>4, <1>8, <1>13 DEF AnswerInv
<1>16. ServiceInv'
  <2> SUFFICES ASSUME NEW t \in inService', t \in inService, t # r
               PROVE  InService(t)'
    BY <1>2 DEF ServiceInv
  <2>1. InService(t) /\ t \in Request
    BY <1>1, <1>5 DEF ServiceInv
  <2>2. t.query # q
    <3> SUFFICES ASSUME t.query = q PROVE FALSE
      OBVIOUS
    <3>1. t.id = r.id /\ t.sess = r.sess /\ t.query = r.query
      BY <1>2, <1>6, <2>1 DEF InService, q
    <3> QED
      BY <1>5, <2>1, <3>1 DEF Request
  <2>3. executions'[t.query] = executions[t.query]
    BY <1>9, <2>1, <2>2 DEF Request
  <2> QED
    BY <1>3, <2>1, <2>3 DEF InService
<1>17. FinishedInv'
  <2> SUFFICES ASSUME NEW f \in finished'
               PROVE  \E m \in sent' : m.item.msgId = f.id /\ executions'[m.item.query] = <<f.op>>
    BY DEF FinishedInv
  <2>1. CASE f = F
    BY <1>3, <1>4, <1>6, <1>9, <2>1
  <2>2. CASE f \in finished
    <3>1. PICK m \in sent : m.item.msgId = f.id /\ executions[m.item.query] = <<f.op>>
      BY <1>1, <2>2 DEF FinishedInv
    <3>2. m.item.query \in Queries
      BY <1>1, MessageType DEF TypeOK, SessionTypeOK
    <3>3. <<f.op>> # <<>>
      OBVIOUS
    <3>4. m.item.query # q
      BY <1>6, <3>1, <3>3
    <3> QED
      BY <1>3, <1>9, <3>1, <3>2, <3>4
  <2> QED
    BY <1>8, <2>1, <2>2
<1>18. ExecutedInv'
  <2> SUFFICES ASSUME NEW p \in Queries, executions'[p] # <<>>
               PROVE  \E f \in finished' : f.sess = home'[p] /\ f.id = msgIdOf'[p]
    BY DEF ExecutedInv
  <2>1. CASE p = q
    BY <1>3, <1>4, <1>6, <1>8, <2>1
  <2>2. CASE p # q
    BY <1>1, <1>3, <1>8, <1>9, <2>2 DEF ExecutedInv
  <2> QED
    BY <2>1, <2>2
<1>19. home[q] # NoSession
  BY <1>6, QueriesAssumption
<1> QED
  BY <1>3, <1>5, <1>6, <1>7, <1>11, <1>12, <1>14, <1>15, <1>16, <1>17, <1>18, <1>19 DEF PromiseInv

---------------------------------------------------------------------------
(* The client sends a message. *)

\* What the server knows was sent.
LEMMA ServedDrawn ==
  ASSUME IInv, PromiseInv, NEW r \in Served
  PROVE  \E m \in sent : m.item.msgId = r.id
<1>1. CASE r \in inService
  BY <1>1 DEF PromiseInv, ServiceInv, InService
<1>2. CASE r \in finished
  BY <1>2 DEF PromiseInv, FinishedInv
<1> QED
  BY <1>1, <1>2 DEF Served

\* rpcSendMessage writes a message under an id that nobody has seen.
LEMMA NewMessage ==
  ASSUME IInv, PromiseInv, NEW s \in Sessions, NEW salt \in Nat, NEW useful \in Nat,
         NEW item \in Item, WriteMessage(s, salt, useful, item)
  PROVE  \E M \in Message :
           /\ M.sess = s /\ M.item = item /\ M.msgId = NextMsgId(s)
           /\ sent' = sent \cup {M} /\ clientLastMsgId' = M.msgId
           /\ M.msgId > clientLastMsgId /\ clientLastMsgId \in Nat
           /\ \A n \in sent : n.msgId # M.msgId /\ n.item.msgId # M.msgId
           /\ \A r \in Served : r.id # M.msgId
           /\ \A x \in Sessions : Wire(x)' \subseteq Wire(x) \cup (IF x = s THEN {M} ELSE {})
           /\ OnceOnWire'
<1>0. PICK M : M = [sess |-> s, salt |-> salt, msgId |-> NextMsgId(s),
                    seqNo |-> seqNo[s] + useful, item |-> item]
  OBVIOUS
<1>1. TypeOK /\ SessionTypeOK /\ IdsDrawn /\ OnceOnWire /\ WireInv
  BY DEF IInv, PromiseInv, TypeOK
<1>2. /\ clientLastMsgId' = NextMsgId(s) /\ sent' = sent \cup {M}
      /\ toServer' = IF Writable(s) THEN [toServer EXCEPT ![s] = Append(@, M)] ELSE toServer
  BY <1>0 DEF WriteMessage
<1>3. NextMsgId(s) \in Nat /\ NextMsgId(s) > clientLastMsgId
  BY <1>1, NextMsgIdGrows
<1>4. M.sess = s /\ M.item = item /\ M.msgId = NextMsgId(s)
  BY <1>0
<1>5. M \in Message
  <2>1. seqNo[s] + useful \in Nat
    BY <1>1 DEF SessionTypeOK
  <2> QED
    BY <1>0, <1>3, <2>1 DEF Message
<1>6. clientLastMsgId \in Nat /\ sent \subseteq Message
  BY <1>1 DEF SessionTypeOK
<1>7. ASSUME NEW n \in sent
      PROVE  n.msgId # M.msgId /\ n.item.msgId # M.msgId
  <2>1. n.msgId \in Nat /\ n.item.msgId \in Nat
    BY <1>6, MessageType
  <2>2. n.msgId <= clientLastMsgId /\ n.item.msgId <= clientLastMsgId
    BY <1>1 DEF IdsDrawn
  <2> QED
    BY <1>3, <1>4, <1>6, <2>1, <2>2
<1>8. \A r \in Served : r.id # M.msgId
  BY <1>7, ServedDrawn
<1>9. \A x \in Sessions : Wire(x)' \subseteq Wire(x) \cup (IF x = s THEN {M} ELSE {})
  <2>1. CASE toServer' = toServer
    BY <2>1 DEF Wire, Marker
  <2>2. CASE toServer' = [toServer EXCEPT ![s] = Append(@, M)]
    BY <1>1, <1>5, <2>2, WireAppend
  <2> QED
    BY <1>2, <2>1, <2>2
<1>10. OnceOnWire'
  <2>1. CASE toServer' = toServer
    BY <1>1, <2>1 DEF OnceOnWire, Marker
  <2>2. CASE toServer' = [toServer EXCEPT ![s] = Append(@, M)]
    <3>1. M \notin Wire(s)
      BY <1>1, <1>7 DEF WireInv
    <3>2. M \in Message \cup {Marker}
      BY <1>5
    <3> QED
      BY <1>1, <2>2, <3>1, <3>2, WireAppend
  <2> QED
    BY <1>2, <2>1, <2>2
<1> QED
  BY <1>2, <1>3, <1>4, <1>5, <1>6, <1>7, <1>8, <1>9, <1>10

\* Neither wire nor server has anything of q.
Fresh(q) ==
  /\ \A x \in Sessions : \A n \in Wire(x) : n.item.query # q
  /\ \A r \in inService : r.query # q
  /\ executions[q] = <<>>

\* A query that is fresh is composed, and enters the wire under its new id.
LEMMA ComposeKeeps ==
  ASSUME IInv, PromiseInv, NEW s \in Sessions, NEW q \in Queries, NEW table,
         IsTable(table), ComposeQuery(s, q, table), Fresh(q),
         \A n \in sent : n.item.query = q => n.sess = s,
         home' = [home EXCEPT ![q] = s],
         \A b : Coming(b)' => Coming(b),
         UNCHANGED <<inService, finished, executions>>
  PROVE  PromiseInv'
<1>1. /\ TypeOK /\ SessionTypeOK /\ sent \subseteq Message
      /\ WireInv /\ OnceOnWire /\ HomesKept /\ RefusalInv /\ ServiceInv
      /\ FinishedInv /\ ExecutedInv /\ AnswerInv
  BY DEF IInv, PromiseInv, TypeOK, SessionTypeOK
<1>2. PICK id : msgIdOf' = [msgIdOf EXCEPT ![q] = id] /\ (q \notin Oversized => id = NextMsgId(s))
  BY DEF ComposeQuery, EnterQuery
<1>3. /\ msgIdOf \in [Queries -> Nat \cup {NoMsgId}]
      /\ home \in [Queries -> Sessions \cup {NoSession}]
  BY <1>1 DEF SessionTypeOK
<1>4. /\ home'[q] = s /\ msgIdOf'[q] = id
      /\ \A p \in Queries \ {q} : home'[p] = home[p] /\ msgIdOf'[p] = msgIdOf[p]
  BY <1>2, <1>3
<1>5. \A n \in sent : n.item.query \in Queries /\ n.sess \in Sessions
  BY <1>1, MessageType
<1>6. \A r \in inService : r.query \in Queries /\ r.query # q
  BY <1>1 DEF TypeOK, Request, Fresh
<1>7. \A x \in Sessions : \A n \in Wire(x) : n \in sent /\ n.item.query # q
  BY <1>1 DEF WireInv, Fresh
<1>8. sent \subseteq sent' /\ clientLastMsgId \in Nat /\ clientLastMsgId' \in Nat
      /\ clientLastMsgId <= clientLastMsgId'
  <2>1. CASE q \in Oversized
    BY <1>1, <2>1 DEF ComposeQuery, idVars, SessionTypeOK
  <2>2. CASE q \notin Oversized
    <3>1. sent \subseteq sent' /\ clientLastMsgId' = NextMsgId(s)
      BY <2>2 DEF ComposeQuery, WriteMessage
    <3>2. NextMsgId(s) \in Nat /\ NextMsgId(s) > clientLastMsgId /\ clientLastMsgId \in Nat
      BY <1>1, NextMsgIdGrows DEF SessionTypeOK
    <3> QED
      BY <3>1, <3>2
  <2> QED
    BY <2>1, <2>2
<1>9. WireInv' /\ OnceOnWire' /\ HomesKept' /\ RefusalInv'
  <2>1. CASE q \in Oversized
    <3>1. UNCHANGED <<sent, toServer, clientLastMsgId>>
      BY <2>1 DEF ComposeQuery, idVars
    <3>2. OnceOnWire' /\ \A x \in Sessions : Wire(x)' = Wire(x)
      BY <1>1, <3>1 DEF Wire, OnceOnWire, Marker
    <3>3. WireInv'
      BY <1>1, <1>4, <1>5, <1>7, <3>1, <3>2 DEF WireInv, Served
    <3>4. HomesKept'
      BY <1>1, <1>4, <1>5, <3>1 DEF HomesKept
    <3>5. RefusalInv'
      BY <1>1, <3>1, <3>2 DEF RefusalInv, Refused, Served, Refusals
    <3> QED
      BY <3>2, <3>3, <3>4, <3>5
  <2>2. CASE q \notin Oversized
    <3>1. PICK item : /\ item = [msgId |-> NextMsgId(s), seqNo |-> seqNo[s] + 1, query |-> q]
                      /\ WriteMessage(s, dcSalt[DcOf[s]], 1, item)
      BY <2>2 DEF ComposeQuery
    <3>2. item \in Item /\ item.msgId = NextMsgId(s) /\ item.query = q
      <4>1. NextMsgId(s) \in Nat
        BY <1>1, NextMsgIdGrows
      <4>2. seqNo[s] + 1 \in Nat
        BY <1>1 DEF SessionTypeOK
      <4> QED
        BY <3>1, <4>1, <4>2 DEF Item
    <3>3. dcSalt[DcOf[s]] \in Nat /\ 1 \in Nat
      BY <1>1, DcOfAssumption DEF SessionTypeOK
    <3>4. PICK M \in Message :
           /\ M.sess = s /\ M.item = item /\ M.msgId = NextMsgId(s)
           /\ sent' = sent \cup {M} /\ clientLastMsgId' = M.msgId
           /\ M.msgId > clientLastMsgId /\ clientLastMsgId \in Nat
           /\ \A n \in sent : n.msgId # M.msgId /\ n.item.msgId # M.msgId
           /\ \A r \in Served : r.id # M.msgId
           /\ \A x \in Sessions : Wire(x)' \subseteq Wire(x) \cup (IF x = s THEN {M} ELSE {})
           /\ OnceOnWire'
      BY <3>1, <3>2, <3>3, NewMessage
    <3>5. M.item.msgId = M.msgId /\ M.item.query = q /\ M.msgId = id
      BY <1>2, <2>2, <3>2, <3>4
    <3>6. \A x \in Sessions : \A n \in Wire(x)' : n \in Wire(x) \/ (n = M /\ x = s)
      BY <3>4
    <3>7. WireInv'
      <4> SUFFICES ASSUME NEW x \in Sessions, NEW n \in Wire(x)'
                   PROVE  /\ n \in sent' /\ n.sess = x /\ n.item.msgId = msgIdOf'[n.item.query]
                          /\ \A o \in sent' : o.item.msgId = n.msgId => o = n
                          /\ \A r \in Served' : r.id # n.msgId
        BY DEF WireInv
      <4>1. Served' = Served
        BY DEF Served
      <4>2. CASE n \in Wire(x)
        <5>1. /\ n \in sent /\ n.sess = x /\ n.item.msgId = msgIdOf[n.item.query]
              /\ \A o \in sent : o.item.msgId = n.msgId => o = n
              /\ \A r \in Served : r.id # n.msgId
          BY <1>1, <4>2 DEF WireInv
        <5>2. n.item.msgId = msgIdOf'[n.item.query]
          BY <1>4, <1>5, <1>7, <4>2, <5>1
        <5>3. M.item.msgId # n.msgId
          BY <3>4, <3>5, <5>1
        <5> QED
          BY <3>4, <4>1, <5>1, <5>2, <5>3
      <4>3. CASE n = M /\ x = s
        BY <1>4, <3>4, <3>5, <4>1, <4>3
      <4> QED
        BY <3>6, <4>2, <4>3
    <3>8. HomesKept'
      BY <1>1, <1>4, <1>5, <3>4, <3>5 DEF HomesKept
    <3>9. RefusalInv'
      <4> SUFFICES ASSUME NEW c, Coming(c)', c.op \in Refusals
                   PROVE  Refused(c)'
        BY DEF RefusalInv, Refusals
      <4>1. Refused(c)
        BY <1>1 DEF RefusalInv
      <4>2. c.id # M.msgId
        <5> SUFFICES ASSUME c.id = M.msgId PROVE FALSE
          OBVIOUS
        <5>1. M.msgId <= clientLastMsgId /\ M.msgId > clientLastMsgId
          BY <3>4, <4>1 DEF Refused
        <5> QED
          BY <3>4, <5>1, MessageType
      <4>3. c.id <= clientLastMsgId'
        <5>1. \E n \in Nat : n = c.id
          <6>1. c.op \in Refusals /\ Coming(c)
            OBVIOUS
          <6> QED
            BY <1>1, <6>1, ComingType
        <5> QED
          BY <1>8, <4>1, <5>1 DEF Refused
      <4> QED
        BY <3>5, <3>6, <4>1, <4>2, <4>3 DEF Refused, Served
    <3> QED
      BY <3>4, <3>7, <3>8, <3>9
  <2> QED
    BY <2>1, <2>2
<1>10. ServiceInv'
  BY <1>1, <1>4, <1>6, <1>8 DEF ServiceInv, InService
<1>11. FinishedInv' /\ AnswerInv'
  BY <1>1, <1>8 DEF FinishedInv, AnswerInv, Outcomes
<1>12. ExecutedInv'
  BY <1>1, <1>4 DEF ExecutedInv, Fresh
<1> QED
  BY <1>9, <1>10, <1>11, <1>12 DEF PromiseInv

\* workBadServerSalt: a container around the query, which is nowhere else in a container.
LEMMA ResendKeeps ==
  ASSUME IInv, PromiseInv, NEW s \in Sessions, Executes(s, {"badSalt"}), Executed(s),
         Current(s).id \in DOMAIN pending[s],
         ResendQuery(s, pending[s][Current(s).id], Current(s).salt),
         pending[s][Current(s).id] \notin Unresendable,
         UNCHANGED <<home, msgIdOf, inService, finished, executions, toClient>>
  PROVE  PromiseInv'
<1> DEFINE a == Current(s)
           q == pending[s][a.id]
<1>1. /\ TypeOK /\ SessionTypeOK /\ sent \subseteq Message /\ PendingConsistent /\ EntriesWereSent
      /\ WireInv /\ OnceOnWire /\ HomesKept /\ RefusalInv /\ ServiceInv
      /\ FinishedInv /\ ExecutedInv /\ AnswerInv
  BY DEF IInv, PromiseInv, TypeOK, SessionTypeOK
<1>2. a.op = "badSalt" /\ a.id \in Nat /\ a.salt \in Nat
  BY <1>1, CurrentType
<1>3. Coming(a) /\ \A b : Coming(b)' => Coming(b)
  BY <1>1, ComingExecuted DEF Executes
<1>4. Refused(a)
  BY <1>1, <1>2, <1>3 DEF RefusalInv, Refusals
<1>5. q \in Queries /\ home[q] = s /\ msgIdOf[q] = a.id
  BY <1>1, EntryType DEF PendingConsistent
<1>6. PICK item : /\ item = [msgId |-> msgIdOf[q], seqNo |-> seqNoOf[q], query |-> q]
                  /\ WriteMessage(s, a.salt, 0, item)
  BY DEF ResendQuery
<1>7. item \in Item /\ item.msgId = a.id /\ item.query = q
  <2>1. \E m \in sent : m.item = item
    BY <1>1, <1>2, <1>6, ResentItem
  <2>2. item \in Item
    BY <1>1, <2>1 DEF Message
  <2> QED
    BY <1>5, <1>6, <2>2
<1> HIDE DEF q, a
<1>8. PICK M \in Message :
         /\ M.sess = s /\ M.item = item /\ M.msgId = NextMsgId(s)
         /\ sent' = sent \cup {M} /\ clientLastMsgId' = M.msgId
         /\ M.msgId > clientLastMsgId /\ clientLastMsgId \in Nat
         /\ \A n \in sent : n.msgId # M.msgId /\ n.item.msgId # M.msgId
         /\ \A r \in Served : r.id # M.msgId
         /\ \A x \in Sessions : Wire(x)' \subseteq Wire(x) \cup (IF x = s THEN {M} ELSE {})
         /\ OnceOnWire'
  <2>1. 0 \in Nat
    OBVIOUS
  <2> QED
    BY <1>2, <1>6, <1>7, <2>1, NewMessage
<1>9. \A x \in Sessions : \A n \in Wire(x)' : n \in Wire(x) \/ (n = M /\ x = s)
  BY <1>8
<1>10. Served' = Served /\ sent \subseteq sent'
  BY <1>8 DEF Served
<1>11. a.id # M.msgId
  <2> SUFFICES ASSUME a.id = M.msgId PROVE FALSE
    OBVIOUS
  <2>1. M.msgId <= clientLastMsgId /\ M.msgId > clientLastMsgId
    BY <1>4, <1>8 DEF Refused
  <2> QED
    BY <1>8, <2>1, MessageType
<1>12. WireInv'
  <2> SUFFICES ASSUME NEW x \in Sessions, NEW n \in Wire(x)'
               PROVE  /\ n \in sent' /\ n.sess = x /\ n.item.msgId = msgIdOf'[n.item.query]
                      /\ \A o \in sent' : o.item.msgId = n.msgId => o = n
                      /\ \A r \in Served' : r.id # n.msgId
    BY DEF WireInv
  <2>1. CASE n \in Wire(x)
    <3>1. /\ n \in sent /\ n.sess = x /\ n.item.msgId = msgIdOf[n.item.query]
          /\ \A o \in sent : o.item.msgId = n.msgId => o = n
          /\ \A r \in Served : r.id # n.msgId
      BY <1>1, <2>1 DEF WireInv
    <3>2. M.item.msgId # n.msgId
      BY <1>4, <1>7, <1>8, <2>1 DEF Refused
    <3> QED
      BY <1>8, <1>10, <3>1, <3>2
  <2>2. CASE n = M /\ x = s
    <3>1. n \in sent' /\ n.sess = x /\ n.item.msgId = msgIdOf'[n.item.query]
      BY <1>5, <1>7, <1>8, <2>2
    <3>2. \A o \in sent' : o.item.msgId = n.msgId => o = n
      BY <1>7, <1>8, <1>11, <2>2
    <3> QED
      BY <1>8, <1>10, <2>2, <3>1, <3>2
  <2> QED
    BY <1>9, <2>1, <2>2
<1>13. HomesKept'
  BY <1>1, <1>5, <1>7, <1>8 DEF HomesKept
<1>14. RefusalInv'
  <2> SUFFICES ASSUME NEW c, Coming(c)', c.op \in Refusals
               PROVE  Refused(c)'
    BY DEF RefusalInv, Refusals
  <2>1. Refused(c) /\ Coming(c) /\ c.id \in Nat
    BY <1>1, <1>3, ComingType DEF RefusalInv
  <2>2. c.id # M.msgId /\ c.id <= clientLastMsgId'
    <3>1. c.id <= clientLastMsgId /\ clientLastMsgId' = M.msgId /\ M.msgId \in Nat
      BY <1>8, <2>1, MessageType DEF Refused
    <3> QED
      BY <1>8, <2>1, <3>1
  <2>3. c.op = "badMsg" => M.item.msgId # c.id
    BY <1>2, <1>3, <1>7, <1>8, <2>1 DEF Refused
  <2> QED
    BY <1>3, <1>9, <1>10, <2>1, <2>2, <2>3 DEF Refused
<1>15. ServiceInv' /\ FinishedInv' /\ ExecutedInv' /\ AnswerInv'
  BY <1>1, <1>3, <1>10 DEF ServiceInv, InService, FinishedInv, ExecutedInv, AnswerInv, Outcomes
<1> QED
  BY <1>8, <1>12, <1>13, <1>14, <1>15 DEF PromiseInv

\* workBadMsgNotification: the refused query is nowhere.
LEMMA RecomposeKeeps ==
  ASSUME IInv, PromiseInv, NEW s \in Sessions, Executes(s, {"badMsg"}), Executed(s),
         Current(s).id \in DOMAIN pending[s],
         ComposeQuery(s, pending[s][Current(s).id], Without(pending[s], Current(s).id)),
         UNCHANGED <<home, inService, finished, executions, toClient>>
  PROVE  PromiseInv'
<1> DEFINE a == Current(s)
           q == pending[s][a.id]
<1>1. /\ TypeOK /\ SessionTypeOK /\ PendingConsistent /\ home \in [Queries -> Sessions \cup {NoSession}]
      /\ WireInv /\ HomesKept /\ RefusalInv /\ ServiceInv /\ ExecutedInv
  BY DEF IInv, PromiseInv, TypeOK, SessionTypeOK
<1>2. a.op = "badMsg"
  BY <1>1, CurrentType
<1>3. Coming(a) /\ \A b : Coming(b)' => Coming(b)
  BY <1>1, ComingExecuted DEF Executes
<1>4. Refused(a)
  BY <1>1, <1>2, <1>3 DEF RefusalInv, Refusals
<1>5. q \in Queries /\ home[q] = s /\ msgIdOf[q] = a.id
  BY <1>1, EntryType DEF PendingConsistent
<1>6. IsTable(Without(pending[s], a.id))
  BY <1>1, WithoutEntry DEF SessionTypeOK
<1>7. ComposeQuery(s, q, Without(pending[s], a.id))
  OBVIOUS
<1>8. PICK p, table :
        /\ p \in Queries /\ home[p] = s /\ msgIdOf[p] = a.id
        /\ IsTable(table) /\ ComposeQuery(s, p, table)
  BY <1>5, <1>6, <1>7
<1> HIDE DEF q, a
<1>9. Fresh(p)
  <2>1. \A x \in Sessions : \A n \in Wire(x) : n.item.query # p
    BY <1>1, <1>2, <1>4, <1>8 DEF WireInv, Refused
  <2>2. \A r \in inService : r.query # p
    BY <1>1, <1>2, <1>4, <1>8 DEF ServiceInv, InService, Refused, Served
  <2>3. executions[p] = <<>>
    BY <1>1, <1>2, <1>4, <1>8 DEF ExecutedInv, Refused, Served
  <2> QED
    BY <2>1, <2>2, <2>3 DEF Fresh
<1>10. home' = [home EXCEPT ![p] = s]
  BY <1>1, <1>8
<1>11. \A n \in sent : n.item.query = p => n.sess = s
  BY <1>1, <1>8 DEF HomesKept
<1> QED
  BY <1>3, <1>8, <1>9, <1>10, <1>11, ComposeKeeps

\* sendQuery: nothing of a query is anywhere before it is sent.
LEMMA SendKeeps ==
  ASSUME IInv, PromiseInv, NEW s \in Sessions, NEW q \in Queries, Sends(s, q)
  PROVE  PromiseInv'
<1>1. /\ TypeOK /\ sent \subseteq Message /\ IsTable(pending[s])
      /\ WireInv /\ HomesKept /\ ServiceInv /\ ExecutedInv
  BY DEF IInv, PromiseInv, TypeOK, SessionTypeOK
<1>2. /\ home[q] = NoSession /\ ComposeQuery(s, q, pending[s])
      /\ home' = [home EXCEPT ![q] = s]
      /\ UNCHANGED <<executing, toClient, inService, finished, executions>>
  BY DEF Sends, SendQuery, envVars, serverVars
<1>3. \A n \in sent : n.item.query # q
  BY <1>1, <1>2, MessageType, QueriesAssumption DEF HomesKept
<1>4. Fresh(q)
  <2>1. \A x \in Sessions : \A n \in Wire(x) : n.item.query # q
    BY <1>1, <1>3 DEF WireInv
  <2>2. \A r \in inService : r.query # q
    BY <1>1, <1>3 DEF ServiceInv, InService
  <2>3. executions[q] = <<>>
    <3>1. \A r \in finished : r.sess # NoSession
      BY <1>1, QueriesAssumption DEF TypeOK, Reply
    <3> QED
      BY <1>1, <1>2, <3>1 DEF ExecutedInv
  <2> QED
    BY <2>1, <2>2, <2>3 DEF Fresh
<1>5. \A b : Coming(b)' => Coming(b)
  BY <1>2 DEF Coming, ComingTo
<1> QED
  BY <1>1, <1>2, <1>3, <1>4, <1>5, ComposeKeeps

\* Every answer the client executes.
LEMMA WorkKeeps ==
  ASSUME IInv, PromiseInv, NEW s \in Sessions, Works(s)
  PROVE  PromiseInv'
<1>1. executing[s] # <<>> /\ Executed(s) /\ toClient' = toClient
  BY DEF Works, RpcExecuteAnswer, WorkMsgsAck, WorkRpcResult, WorkBadServerSalt,
         WorkBadMsgNotification, WorkNewSessionCreated, WorkOther, Executes
<1>2. UNCHANGED <<home, inService, finished, executions>>
  BY DEF Works, RpcExecuteAnswer, WorkMsgsAck, WorkRpcResult, WorkBadServerSalt,
         WorkBadMsgNotification, WorkNewSessionCreated, WorkOther, queryVars, envVars, serverVars
<1>3. CASE UNCHANGED <<sent, clientLastMsgId, msgIdOf, toServer>>
  BY <1>1, <1>2, <1>3, GentleWork DEF promiseVars
<1>4. ASSUME Crash(s)
      PROVE  UNCHANGED <<sent, clientLastMsgId, msgIdOf, toServer>>
  BY <1>4 DEF Crash, idVars
<1>5. CASE WorkMsgsAck(s) \/ WorkRpcResult(s) \/ WorkNewSessionCreated(s) \/ WorkOther(s)
  <2>1. UNCHANGED <<sent, clientLastMsgId, msgIdOf, toServer>>
    BY <1>4, <1>5 DEF WorkMsgsAck, WorkRpcResult, WorkNewSessionCreated, WorkOther, idVars,
                      queryVars, connVars
  <2> QED
    BY <1>3, <2>1
<1>6. CASE WorkBadServerSalt(s)
  <2>1. CASE Crash(s)
    BY <1>3, <1>4, <2>1
  <2>2. CASE /\ Current(s).id \in DOMAIN pending[s]
             /\ ResendQuery(s, pending[s][Current(s).id], Current(s).salt)
             /\ UNCHANGED <<pending, acked, msgIdOf, seqNoOf, crashed>>
             /\ pending[s][Current(s).id] \notin Unresendable
    BY <1>1, <1>2, <1>6, <2>2, ResendKeeps DEF WorkBadServerSalt
  <2>3. CASE /\ UNCHANGED <<idVars, sent, toServer>>
             /\ UNCHANGED <<pending, acked, msgIdOf, seqNoOf, crashed>>
    BY <1>3, <2>3 DEF idVars
  <2> QED
    BY <1>6, <2>1, <2>2, <2>3 DEF WorkBadServerSalt, ResendQuery
<1>7. CASE WorkBadMsgNotification(s)
  <2>1. CASE Crash(s)
    BY <1>3, <1>4, <2>1
  <2>2. CASE /\ Current(s).id \in DOMAIN pending[s]
             /\ ComposeQuery(s, pending[s][Current(s).id], Without(pending[s], Current(s).id))
    BY <1>1, <1>2, <1>7, <2>2, RecomposeKeeps DEF WorkBadMsgNotification
  <2> QED
    BY <1>7, <2>1, <2>2 DEF WorkBadMsgNotification
<1> QED
  BY <1>5, <1>6, <1>7 DEF Works, RpcExecuteAnswer

\* Every step keeps the invariant.
LEMMA PromiseNext ==
  ASSUME IInv, PromiseInv, [Next]_vars
  PROVE  PromiseInv'
<1>1. CASE \/ UNCHANGED vars \/ Tick \/ (\E q \in Queries : Times(q))
           \/ (\E k \in Skews : AdjustClock(k)) \/ (\E d \in DCs : ServerChangesSalt(d))
  <2>1. UNCHANGED promiseVars /\ UNCHANGED <<toServer, toClient, executing>>
    BY <1>1 DEF vars, sessionVars, Tick, AdjustClock, ServerChangesSalt, SessionUnclocked, Times,
                TimerEvent, promiseVars, envVars, serverVars, idVars, queryVars, connVars
  <2> QED
    BY <2>1, Untouched
<1>2. ASSUME NEW s \in Sessions, Server(s)
      PROVE  PromiseInv'
  BY <1>2, GentleReading, RejectKeeps, AcceptKeeps, GentleWriting, AnswerKeeps DEF Server
<1> QED
  BY <1>1, <1>2, GentleLife, GentleHandling, WorkKeeps, GentleWriting, SendKeeps DEF Next

\* It holds before anything is sent.
LEMMA PromiseStart == Init => PromiseInv
<1> SUFFICES ASSUME Init PROVE PromiseInv
  OBVIOUS
<1>1. /\ \A s \in Sessions : toServer[s] = <<>> /\ toClient[s] = <<>> /\ executing[s] = <<>>
      /\ inService = {} /\ finished = {} /\ sent = {}
      /\ \A q \in Queries : executions[q] = <<>>
  BY DEF Init, SessionInit
<1>0. \A bytes : bytes = <<>> => DOMAIN bytes = {}
  OBVIOUS
<1>2. \A s \in Sessions : DOMAIN toServer[s] = {}
  BY <1>0, <1>1
<1>3. \A s \in Sessions : Wire(s) = {}
  BY <1>2 DEF Wire
<1>4. \A a : ~Coming(a)
  BY <1>1 DEF Coming, ComingTo
<1> QED
  BY <1>1, <1>2, <1>3, <1>4 DEF PromiseInv, WireInv, OnceOnWire, HomesKept, RefusalInv, ServiceInv,
                          FinishedInv, ExecutedInv, AnswerInv

---------------------------------------------------------------------------
(* The refinement. *)

\* The handlers of a query are told what the server did with it.
LEMMA TellsTruly ==
  ASSUME IInv, PromiseInv, NEW s \in Sessions, WorkRpcResult(s)
  PROVE  \/ answers' = answers
         \/ \E q \in Queries :
              /\ executions[q] # <<>> /\ answers[q] = <<>>
              /\ answers' = [answers EXCEPT ![q] = executions[q]]
<1> DEFINE a == Current(s)
           q == pending[s][a.id]
<1>1. /\ TypeOK /\ SessionTypeOK /\ PendingConsistent /\ EntriesWereSent /\ ResendKeepsIdentity
      /\ FinishedInv /\ AnswerInv
  BY DEF IInv, PromiseInv, TypeOK
<1>2. a.op \in Outcomes /\ a.id \in Nat /\ Coming(a)
  <2>1. a.op \in Outcomes /\ a.id \in Nat
    BY <1>1, CurrentType DEF WorkRpcResult
  <2>2. Coming(a)
    BY <1>1, ComingExecuting DEF WorkRpcResult, Executes
  <2> QED
    BY <2>1, <2>2
<1>3. CASE a.id \notin DOMAIN pending[s]
  BY <1>3 DEF WorkRpcResult
<1>4. CASE a.id \in DOMAIN pending[s]
  <2>1. q \in Queries /\ answers[q] = <<>> /\ answers \in [Queries -> Seq(Outcomes)]
    BY <1>1, <1>4, EntryType DEF PendingConsistent, SessionTypeOK
  <2>2. answers' = [answers EXCEPT ![q] = Append(@, a.op)]
    BY <1>4 DEF WorkRpcResult
  <2>3. \E m \in sent : m.item.msgId = a.id /\ m.item.query = q
    <3>1. a.id # NoMsgId
      BY <1>2 DEF NoMsgId
    <3>2. PICK m \in sent : m.item = [msgId |-> a.id, seqNo |-> seqNoOf[q], query |-> q]
      BY <1>1, <1>4, <3>1 DEF EntriesWereSent
    <3> QED
      BY <3>2
  <2> HIDE DEF q, a
  <2>4. PICK r \in finished : r.id = a.id /\ r.op = a.op
    BY <1>1, <1>2 DEF AnswerInv
  <2>5. PICK n \in sent : n.item.msgId = a.id /\ executions[n.item.query] = <<a.op>>
    BY <1>1, <2>4 DEF FinishedInv
  <2>6. executions[q] = <<a.op>>
    BY <1>1, <2>3, <2>5 DEF ResendKeepsIdentity
  <2>7. Append(answers[q], a.op) = executions[q] /\ executions[q] # <<>>
    BY <2>1, <2>6
  <2>8. answers' = [answers EXCEPT ![q] = executions[q]]
    BY <2>2, <2>7
  <2> QED
    BY <2>1, <2>7, <2>8
<1> QED
  BY <1>3, <1>4

\* A step of the layer is a step of the promise, or none.
LEMMA PromiseStep ==
  ASSUME IInv, PromiseInv, [Next]_vars
  PROVE  [Promise!Next]_(Promise!vars)
<1>1. home \in [Queries -> Sessions \cup {NoSession}]
  BY DEF IInv, TypeOK, SessionTypeOK
<1>2. CASE UNCHANGED <<home, executions, answers>>
  BY <1>2 DEF Promise!vars
<1>3. ASSUME NEW s \in Sessions, NEW q \in Queries, Sends(s, q)
      PROVE  Promise!Next
  <2>1. /\ home[q] = NoSession /\ home' = [home EXCEPT ![q] = s]
        /\ UNCHANGED <<executions, answers>>
    BY <1>3 DEF Sends, SendQuery, envVars, serverVars
  <2>2. {p \in Queries : home'[p] # NoSession} = {p \in Queries : home[p] # NoSession} \cup {q}
    BY <1>1, <2>1, QueriesAssumption
  <2>3. Promise!Issue(q)
    BY <2>1, <2>2 DEF Promise!Issue
  <2> QED
    BY <2>3 DEF Promise!Next
<1>4. ASSUME NEW s \in Sessions, ServerAnswers(s)
      PROVE  Promise!Next
  <2>1. PICK q \in Queries, o \in Outcomes :
              /\ home[q] # NoSession /\ executions[q] = <<>>
              /\ executions' = [executions EXCEPT ![q] = <<o>>]
              /\ UNCHANGED <<home, answers>>
    BY <1>4, AnswerKeeps
  <2>2. Promise!Execute(q, o)
    BY <2>1 DEF Promise!Execute
  <2> QED
    BY <2>2 DEF Promise!Next
<1>5. ASSUME NEW s \in Sessions, WorkRpcResult(s), UNCHANGED envVars
      PROVE  [Promise!Next]_(Promise!vars)
  <2>1. UNCHANGED <<home, executions>>
    BY <1>5 DEF WorkRpcResult, envVars, serverVars
  <2>2. CASE answers' = answers
    BY <1>2, <2>1, <2>2
  <2>3. ASSUME NEW q \in Queries, executions[q] # <<>>, answers[q] = <<>>,
               answers' = [answers EXCEPT ![q] = executions[q]]
        PROVE  Promise!Next
    <3>1. Promise!Tell(q)
      BY <2>1, <2>3 DEF Promise!Tell
    <3> QED
      BY <3>1 DEF Promise!Next
  <2> QED
    BY <1>5, <2>2, <2>3, TellsTruly
<1>6. ASSUME NEW s \in Sessions,
             \/ Opens(s) \/ Connects(s) \/ Closes(s) \/ Loses(s) \/ Drops(s) \/ Handles(s)
             \/ ServerRepeats(s) \/ ServerPushes(s)
      PROVE  UNCHANGED <<home, executions, answers>>
  BY <1>6 DEF Opens, Connects, Closes, Loses, Drops, Handles, NewSession, OnConnected,
              ConnectToServer, Close, OnDisconnected, Delete, ConnectionLost, ProcessRpcAnswer,
              ServerRepeats, ServerPushes, ClientState, queryVars, envVars, serverVars
<1>7. ASSUME NEW s \in Sessions,
             \/ ServerOpensStream(s) \/ ServerIgnores(s) \/ ServerRejects(s)
             \/ ServerAccepts(s) \/ ServerAcks(s)
      PROVE  UNCHANGED <<home, executions, answers>>
  BY <1>7 DEF ServerOpensStream, ServerIgnores, ServerRejects, ServerAccepts, ServerAcks,
              ClientState, queryVars, serverVars
<1>8. ASSUME NEW s \in Sessions, UNCHANGED envVars,
             \/ WorkMsgsAck(s) \/ WorkBadServerSalt(s) \/ WorkBadMsgNotification(s)
             \/ WorkNewSessionCreated(s) \/ WorkOther(s)
      PROVE  UNCHANGED <<home, executions, answers>>
  BY <1>8 DEF WorkMsgsAck, WorkBadServerSalt, WorkBadMsgNotification, WorkNewSessionCreated,
              WorkOther, queryVars, envVars, serverVars
<1>9. ASSUME \/ UNCHANGED vars \/ Tick \/ (\E q \in Queries : Times(q))
             \/ (\E k \in Skews : AdjustClock(k)) \/ (\E d \in DCs : ServerChangesSalt(d))
      PROVE  UNCHANGED <<home, executions, answers>>
  BY <1>9 DEF vars, sessionVars, Tick, AdjustClock, ServerChangesSalt, SessionUnclocked, Times,
              TimerEvent, envVars, serverVars, queryVars
<1>10. ASSUME NEW s \in Sessions, Works(s)
       PROVE  [Promise!Next]_(Promise!vars)
  BY <1>2, <1>5, <1>8, <1>10 DEF Works, RpcExecuteAnswer
<1>11. ASSUME NEW s \in Sessions, Server(s)
       PROVE  [Promise!Next]_(Promise!vars)
  BY <1>2, <1>4, <1>7, <1>11 DEF Server
<1> QED
  BY <1>2, <1>3, <1>6, <1>9, <1>10, <1>11 DEF Next

\* Whatever the network, the clocks and the salts do, the layer keeps its promise to the
\* Api: a query is executed at most once, and its handlers are told at most once, and
\* told what the server did (sendQuery, the work... functions, resendQuery and
\* recomposeAndSendQuery).
THEOREM Implements == Spec => KeepsPromise
<1>1. Init => Promise!Init
  BY DEF Init, SessionInit, Promise!Init
<1>2. IInv /\ PromiseInv /\ [Next]_vars => PromiseInv'
  BY PromiseNext
<1>3. IInv /\ PromiseInv /\ [Next]_vars => [Promise!Next]_(Promise!vars)
  BY PromiseStep
<1> QED
  BY <1>1, <1>2, <1>3, PromiseStart, Inductive, PTL DEF Spec, KeepsPromise, Promise!Spec
=============================================================================
