--------------------------- MODULE SessionProofs ---------------------------
(***************************************************************************)
(* Proofs about SessionSystem for every number of sessions, data centres   *)
(* and queries, every bound, clock and skew.  IInv is inductive; the       *)
(* invariants the runs check are among its conjuncts.                      *)
(***************************************************************************)
EXTENDS SessionSystem, TLAPS

---------------------------------------------------------------------------
(* Tables, and the ids drawn for messages. *)

\* Insert puts q under id and leaves the other entries alone.
LEMMA InsertEntry ==
  ASSUME NEW table, IsTable(table), NEW id \in Nat \cup {NoMsgId}, NEW q \in Queries
  PROVE  /\ IsTable(Insert(table, id, q))
         /\ DOMAIN Insert(table, id, q) = DOMAIN table \cup {id}
         /\ Insert(table, id, q)[id] = q
         /\ \A x \in DOMAIN table : x # id => Insert(table, id, q)[x] = table[x]
  BY DEF IsTable, Insert

\* Without takes the entry under id and leaves the others alone.
LEMMA WithoutEntry ==
  ASSUME NEW table, IsTable(table), NEW id
  PROVE  /\ IsTable(Without(table, id))
         /\ DOMAIN Without(table, id) = DOMAIN table \ {id}
         /\ \A x \in DOMAIN table \ {id} : Without(table, id)[x] = table[x]
  BY DEF IsTable, Without

\* The table of a new session has no entry.
LEMMA EmptyIsTable == IsTable(EmptyTable) /\ DOMAIN EmptyTable = {}
  BY DEF IsTable, EmptyTable

\* generateNextMsgId returns a larger id than any session has drawn before.
LEMMA NextMsgIdGrows ==
  ASSUME SessionTypeOK, NEW s \in Sessions
  PROVE  NextMsgId(s) \in Nat /\ NextMsgId(s) > clientLastMsgId
<1> DEFINE id == (clientTime - sync[s]) * IdsPerSecond
<1>1. clientLastMsgId \in Nat /\ clientTime \in Int /\ sync[s] \in Int /\ IdsPerSecond \in Int
  BY TimeAssumption DEF SessionTypeOK
<1>2. id \in Int
  BY <1>1
<1> HIDE DEF id
<1>3. NextMsgId(s) = IF id <= clientLastMsgId THEN clientLastMsgId + 1 ELSE id
  BY DEF NextMsgId, id
<1> QED
  BY <1>1, <1>2, <1>3

---------------------------------------------------------------------------
(* What sending does to the state. *)

\* A message is written under a new id and added to what was sent.
LEMMA WriteMessageType ==
  ASSUME SessionTypeOK, NEW s \in Sessions, NEW salt \in Nat, NEW useful \in Nat,
         NEW item \in Item, WriteMessage(s, salt, useful, item)
  PROVE  /\ clientLastMsgId' \in Nat /\ clientLastMsgId' > clientLastMsgId
         /\ seqNo' \in [Sessions -> Nat]
         /\ sent' \subseteq Message
         /\ toServer' \in [Sessions -> Seq(Message \cup {Marker})]
<1> DEFINE m == [sess |-> s, salt |-> salt, msgId |-> NextMsgId(s),
                 seqNo |-> seqNo[s] + useful, item |-> item]
<1>1. NextMsgId(s) \in Nat /\ NextMsgId(s) > clientLastMsgId
  BY NextMsgIdGrows
<1>2. seqNo \in [Sessions -> Nat]
  BY DEF SessionTypeOK
<1>3. m \in Message
  BY <1>1, <1>2 DEF Message
<1> HIDE DEF m
<1>4. clientLastMsgId' = NextMsgId(s) /\ sent' = sent \cup {m}
      /\ seqNo' = [seqNo EXCEPT ![s] = @ + 2]
      /\ toServer' = IF Writable(s) THEN [toServer EXCEPT ![s] = Append(@, m)] ELSE toServer
  BY DEF WriteMessage, m
<1>5. toServer \in [Sessions -> Seq(Message \cup {Marker})] /\ sent \subseteq Message
  BY DEF SessionTypeOK
<1>6. toServer' \in [Sessions -> Seq(Message \cup {Marker})]
  BY <1>3, <1>4, <1>5
<1> QED
  BY <1>1, <1>2, <1>3, <1>4, <1>5, <1>6

\* A query is entered in the table of s under the id it was sent with.
LEMMA EnterQueryType ==
  ASSUME SessionTypeOK, NEW s \in Sessions, NEW q \in Queries,
         NEW table, IsTable(table), NEW id \in Nat \cup {NoMsgId}, NEW seq \in Nat,
         EnterQuery(s, q, table, id, seq)
  PROVE  /\ pending' = [x \in Sessions |-> pending'[x]]
         /\ \A x \in Sessions : IsTable(pending'[x])
         /\ msgIdOf' \in [Queries -> Nat \cup {NoMsgId}]
         /\ seqNoOf' \in [Queries -> Nat \cup {-1}]
         /\ acked' \in [Queries -> BOOLEAN]
<1>1. IsTable(Insert(table, id, q))
  BY InsertEntry
<1>2. pending' = [pending EXCEPT ![s] = Insert(table, id, q)]
  BY DEF EnterQuery
<1>3. pending = [x \in Sessions |-> pending[x]] /\ \A x \in Sessions : IsTable(pending[x])
  BY DEF SessionTypeOK
<1>4. \A x \in Sessions : pending'[x] = IF x = s THEN Insert(table, id, q) ELSE pending[x]
  BY <1>2, <1>3
<1>5. pending' = [x \in Sessions |-> pending'[x]]
  BY <1>2, <1>3
<1>6. seq - 1 \in Nat \cup {-1}
  OBVIOUS
<1>7. /\ msgIdOf' \in [Queries -> Nat \cup {NoMsgId}]
      /\ seqNoOf' \in [Queries -> Nat \cup {-1}]
      /\ acked' \in [Queries -> BOOLEAN]
  BY <1>6 DEF EnterQuery, SessionTypeOK
<1> QED
  BY <1>1, <1>3, <1>4, <1>5, <1>7

\* Composing a query leaves the variables it sets in their types, and never
\* draws an old id.
LEMMA ComposeQueryType ==
  ASSUME SessionTypeOK, NEW s \in Sessions, NEW q \in Queries,
         NEW table, IsTable(table), ComposeQuery(s, q, table)
  PROVE  /\ clientLastMsgId' \in Nat
         /\ seqNo' \in [Sessions -> Nat]
         /\ sent' \subseteq Message
         /\ toServer' \in [Sessions -> Seq(Message \cup {Marker})]
         /\ pending' = [x \in Sessions |-> pending'[x]]
         /\ \A x \in Sessions : IsTable(pending'[x])
         /\ msgIdOf' \in [Queries -> Nat \cup {NoMsgId}]
         /\ seqNoOf' \in [Queries -> Nat \cup {-1}]
         /\ acked' \in [Queries -> BOOLEAN]
<1>1. seqNo \in [Sessions -> Nat] /\ dcSalt[DcOf[s]] \in Nat
  BY DcOfAssumption DEF SessionTypeOK
<1>2. NextMsgId(s) \in Nat
  BY NextMsgIdGrows
<1>3. CASE q \in Oversized
  <2>1. EnterQuery(s, q, table, NoMsgId, seqNo[s]) /\ UNCHANGED <<idVars, sent, toServer>>
    BY <1>3 DEF ComposeQuery
  <2> QED
    BY <1>1, <2>1, EnterQueryType DEF SessionTypeOK, idVars
<1>4. CASE q \notin Oversized
  <2> DEFINE item == [msgId |-> NextMsgId(s), seqNo |-> seqNo[s] + 1, query |-> q]
  <2>1. WriteMessage(s, dcSalt[DcOf[s]], 1, item)
        /\ EnterQuery(s, q, table, NextMsgId(s), seqNo[s] + 2)
    BY <1>4 DEF ComposeQuery
  <2>2. item \in Item
    BY <1>1, <1>2 DEF Item
  <2>3. seqNo[s] + 2 \in Nat
    BY <1>1
  <2> HIDE DEF item
  <2>4. /\ clientLastMsgId' \in Nat
        /\ seqNo' \in [Sessions -> Nat]
        /\ sent' \subseteq Message
        /\ toServer' \in [Sessions -> Seq(Message \cup {Marker})]
    BY <1>1, <2>1, <2>2, WriteMessageType
  <2> QED
    BY <1>2, <2>1, <2>3, <2>4, EnterQueryType
<1> QED
  BY <1>3, <1>4

---------------------------------------------------------------------------
(* Type correctness, one action at a time. *)

\* Functions into sequences that change at one argument.
LEMMA AppendAt ==
  ASSUME NEW S, NEW T, NEW f \in [S -> Seq(T)], NEW s \in S, NEW x \in T
  PROVE  [f EXCEPT ![s] = Append(@, x)] \in [S -> Seq(T)]
  OBVIOUS

\* The i-th element of a tail is the next one of the sequence.
LEMMA TailAt ==
  ASSUME NEW S, NEW T, NEW f \in [S -> Seq(T)], NEW s \in S, f[s] # <<>>
  PROVE  Head(f[s]) \in T /\ [f EXCEPT ![s] = Tail(@)] \in [S -> Seq(T)]
  OBVIOUS

\* The i-th element of a prefix is that of the sequence.
LEMMA PrefixAt ==
  ASSUME NEW S, NEW T, NEW f \in [S -> Seq(T)], NEW s \in S, NEW n \in 0..Len(f[s])
  PROVE  [f EXCEPT ![s] = SubSeq(@, 1, n)] \in [S -> Seq(T)]
<1>1. SubSeq(f[s], 1, n) \in Seq(T)
  OBVIOUS
<1> QED
  BY <1>1

\* What the types say of the two ends of the connection.
LEMMA TypesOfWires ==
  ASSUME TypeOK
  PROVE  /\ toServer \in [Sessions -> Seq(Message \cup {Marker})]
         /\ toClient \in [Sessions -> Seq(Seq(Answer) \ {<<>>})]
         /\ link \in [Sessions -> LinkStates]
  BY DEF TypeOK, SessionTypeOK

\* Creating, connecting and greeting keep the types.
LEMMA OpenType ==
  ASSUME TypeOK, NEW s \in Sessions, Opens(s) \/ Connects(s)
  PROVE  TypeOK'
<1>1. CASE NewSession(s) /\ UNCHANGED envVars
  BY <1>1, DcOfAssumption
  DEF NewSession, TypeOK, SessionTypeOK, envVars, serverVars, dcVars, idVars, queryVars,
      LinkStates
<1>2. CASE OnConnected(s) /\ UNCHANGED envVars
  <2>1. link' \in [Sessions -> LinkStates]
    BY <1>2, TypesOfWires DEF OnConnected, LinkStates
  <2>2. toServer' \in [Sessions -> Seq(Message \cup {Marker})]
    BY <1>2, TypesOfWires, AppendAt DEF OnConnected
  <2> QED
    BY <1>2, <2>1, <2>2
    DEF OnConnected, TypeOK, SessionTypeOK, envVars, serverVars, dcVars, idVars, queryVars
<1>3. CASE Connects(s)
  <2>1. link' \in [Sessions -> LinkStates]
    BY <1>3, TypesOfWires DEF Connects, ConnectToServer, LinkStates
  <2>2. toServer' \in [Sessions -> Seq(Message \cup {Marker})]
    BY <1>3, TypesOfWires DEF Connects, ConnectToServer
  <2> QED
    BY <1>3, <2>1, <2>2
    DEF Connects, ConnectToServer, StreamEnds, TypeOK, SessionTypeOK, Counters, dcVars,
        idVars, queryVars
<1> QED
  BY <1>1, <1>2, <1>3 DEF Opens

\* Closing, deleting and losing a connection keep the types.
LEMMA CloseType ==
  ASSUME TypeOK, NEW s \in Sessions, Closes(s) \/ Loses(s)
  PROVE  TypeOK'
<1>1. ASSUME Delete(s), UNCHANGED envVars
      PROVE  TypeOK'
  <2>1. link' \in [Sessions -> LinkStates]
    BY <1>1, TypesOfWires DEF Delete, LinkStates
  <2>2. /\ toServer' \in [Sessions -> Seq(Message \cup {Marker})]
        /\ toClient' \in [Sessions -> Seq(Seq(Answer) \ {<<>>})]
    BY <1>1, TypesOfWires DEF Delete
  <2>3. /\ pending' = [x \in Sessions |-> pending'[x]]
        /\ \A x \in Sessions : IsTable(pending'[x])
    BY <1>1, EmptyIsTable DEF Delete, TypeOK, SessionTypeOK
  <2> QED
    BY <1>1, <2>1, <2>2, <2>3
    DEF Delete, TypeOK, SessionTypeOK, envVars, serverVars, dcVars, idVars, queryVars
<1>2. CASE Close(s) /\ UNCHANGED envVars
  <2>1. CASE link[s] = "unconnected" /\ Delete(s)
    BY <1>1, <1>2, <2>1
  <2>2. CASE /\ link' = [link EXCEPT ![s] = "closing"]
             /\ UNCHANGED <<clientTime, dcVars, idVars, sync, pending, executing, crashed,
                            queryVars, toServer, toClient, sent>>
    <3>1. link' \in [Sessions -> LinkStates]
      BY <2>2, TypesOfWires DEF LinkStates
    <3> QED
      BY <1>2, <2>2, <3>1
      DEF TypeOK, SessionTypeOK, envVars, serverVars, dcVars, idVars, queryVars
  <2> QED
    BY <1>2, <2>1, <2>2 DEF Close
<1>3. CASE OnDisconnected(s) /\ UNCHANGED envVars
  BY <1>1, <1>3 DEF OnDisconnected
<1>4. CASE Loses(s)
  <2>1. PICK n \in 0..Len(toClient[s]) : ConnectionLost(s, n)
    BY <1>4 DEF Loses
  <2>2. link' \in [Sessions -> LinkStates]
    BY <2>1, TypesOfWires DEF ConnectionLost, LinkStates
  <2>3. toServer' \in [Sessions -> Seq(Message \cup {Marker})]
    BY <2>1, TypesOfWires DEF ConnectionLost
  <2>4. toClient' \in [Sessions -> Seq(Seq(Answer) \ {<<>>})]
    BY <2>1, TypesOfWires, PrefixAt DEF ConnectionLost
  <2>5. UNCHANGED <<clientTime, dcVars, idVars, sync, pending, executing, crashed,
                    queryVars, sent, now, skew, serverVars, adjusts, drops, pushes>>
    BY <1>4, <2>1 DEF Loses, ConnectionLost
  <2>6. lost' = lost + 1
    BY <1>4 DEF Loses
  <2>7. SessionTypeOK'
    BY <2>2, <2>3, <2>4, <2>5 DEF TypeOK, SessionTypeOK, dcVars, idVars, queryVars
  <2> QED
    BY <2>5, <2>6, <2>7 DEF TypeOK, serverVars
<1> QED
  BY <1>2, <1>3, <1>4 DEF Closes

\* sendQuery keeps the types.
LEMMA SendType ==
  ASSUME TypeOK, NEW s \in Sessions, NEW q \in Queries, Sends(s, q)
  PROVE  TypeOK'
<1>1. SessionTypeOK /\ IsTable(pending[s])
  BY DEF TypeOK, SessionTypeOK
<1>2. ComposeQuery(s, q, pending[s])
  BY DEF Sends, SendQuery
<1>3. /\ home' \in [Queries -> Sessions \cup {NoSession}]
      /\ timer' \in [Queries -> {"off", "armed", "fired"}]
  BY <1>1 DEF Sends, SendQuery, SessionTypeOK
<1>4. UNCHANGED <<clientTime, dcVars, link, sync, executing, crashed, answers, toClient, envVars>>
  BY DEF Sends, SendQuery
<1>5. SessionTypeOK'
  BY <1>1, <1>2, <1>3, <1>4, ComposeQueryType DEF SessionTypeOK, dcVars
<1> QED
  BY <1>4, <1>5 DEF TypeOK, envVars, serverVars

\* The query timer keeps the types.
LEMMA TimerType ==
  ASSUME TypeOK, NEW q \in Queries, Times(q)
  PROVE  TypeOK'
  BY DEF Times, TimerEvent, TypeOK, SessionTypeOK, envVars, serverVars, connVars, dcVars, idVars

\* Taking a message of the server apart keeps the types.
LEMMA HandleType ==
  ASSUME TypeOK, NEW s \in Sessions, Handles(s) \/ Drops(s)
  PROVE  TypeOK'
<1>1. /\ toClient[s] # <<>>
      /\ toClient' = [toClient EXCEPT ![s] = Tail(@)]
      /\ UNCHANGED <<clientTime, dcSync, connVars, idVars, sync, pending, crashed,
                     queryVars, sent>>
  BY DEF Handles, Drops, ProcessRpcAnswer
<1>2. /\ toClient' \in [Sessions -> Seq(Seq(Answer) \ {<<>>})]
      /\ Head(toClient[s]) \in Seq(Answer) \ {<<>>}
  BY <1>1, TypesOfWires, TailAt
<1>3. Head(Head(toClient[s])) \in Answer /\ Head(Head(toClient[s])).salt \in Nat
  <2> DEFINE m == Head(toClient[s])
  <2>1. m \in Seq(Answer) /\ m # <<>>
    BY <1>2
  <2> HIDE DEF m
  <2>2. Head(m) \in Answer
    BY <2>1
  <2>3. Head(m).salt \in Nat
    BY <2>2 DEF Answer
  <2> QED
    BY <2>2, <2>3 DEF m
<1>4. dcSalt \in [DCs -> Nat] /\ executing \in [Sessions -> Seq(Answer)]
  BY DEF TypeOK, SessionTypeOK
<1>5. \/ UNCHANGED <<dcSalt, executing>>
      \/ /\ dcSalt' = [dcSalt EXCEPT ![DcOf[s]] = Head(Head(toClient[s])).salt]
         /\ \/ executing' = [executing EXCEPT ![s] = Head(toClient[s])]
            \/ executing' = executing
  BY DEF Handles, Drops, ProcessRpcAnswer
<1>6. dcSalt' \in [DCs -> Nat] /\ executing' \in [Sessions -> Seq(Answer)]
  <2>1. DcOf[s] \in DCs
    BY DcOfAssumption
  <2>2. dcSalt' \in [DCs -> Nat]
    BY <1>3, <1>4, <1>5, <2>1
  <2>3. Head(toClient[s]) \in Seq(Answer)
    BY <1>2
  <2>4. executing' \in [Sessions -> Seq(Answer)]
    BY <1>4, <1>5, <2>3
  <2> QED
    BY <2>2, <2>4
<1>7. SessionTypeOK'
  BY <1>1, <1>2, <1>6 DEF TypeOK, SessionTypeOK, connVars, idVars, queryVars
<1>8. /\ clientTime' = clientTime
      /\ UNCHANGED <<now, skew, serverVars, adjusts, lost, pushes>>
      /\ drops' \in {drops, drops + 1}
  BY <1>1 DEF Handles, Drops, envVars
<1>9. drops \in Nat
  BY DEF TypeOK
<1>10. drops' \in Nat
  BY <1>8, <1>9
<1>11. clientTime' = now' + skew'
  BY <1>8 DEF TypeOK
<1> QED
  BY <1>7, <1>8, <1>10, <1>11 DEF TypeOK, serverVars

\* The answer being executed, and the loop's step past it.
LEMMA CurrentType ==
  ASSUME SessionTypeOK, NEW s \in Sessions, NEW ops, Executes(s, ops)
  PROVE  /\ Current(s).id \in Nat /\ Current(s).salt \in Nat /\ Current(s).time \in Nat
         /\ Current(s).op \in Ops /\ Current(s).op \in ops
         /\ Executed(s) => executing' \in [Sessions -> Seq(Answer)]
<1>1. executing \in [Sessions -> Seq(Answer)] /\ executing[s] # <<>>
  BY DEF SessionTypeOK, Executes
<1>2. Head(executing[s]) \in Answer
  BY <1>1, TailAt
<1>3. Executed(s) => executing' \in [Sessions -> Seq(Answer)]
  BY <1>1, TailAt DEF Executed
<1>4. Current(s) \in Answer /\ Current(s).op \in ops
  BY <1>2 DEF Current, Executes
<1> QED
  BY <1>3, <1>4 DEF Answer

\* Entries of the tables are queries.
LEMMA EntryType ==
  ASSUME SessionTypeOK, NEW s \in Sessions, NEW id \in DOMAIN pending[s]
  PROVE  pending[s][id] \in Queries
  BY DEF SessionTypeOK, IsTable

\* workMsgsAck keeps the types.
LEMMA WorkMsgsAckType ==
  ASSUME SessionTypeOK, NEW s \in Sessions, WorkMsgsAck(s)
  PROVE  SessionTypeOK'
<1>1. executing' \in [Sessions -> Seq(Answer)]
  BY CurrentType DEF WorkMsgsAck
<1>2. acked' \in [Queries -> BOOLEAN]
  BY EntryType DEF WorkMsgsAck, Crash, SessionTypeOK
<1>3. crashed' \in BOOLEAN
  BY DEF WorkMsgsAck, Crash, SessionTypeOK
<1>4. UNCHANGED <<clientTime, dcVars, link, sync, home, timer, answers, toClient, pending,
                  msgIdOf, seqNoOf, idVars, sent, toServer>>
  BY DEF WorkMsgsAck, Crash
<1> QED
  BY <1>1, <1>2, <1>3, <1>4 DEF SessionTypeOK, dcVars, idVars

\* workRpcResult keeps the types.
LEMMA WorkRpcResultType ==
  ASSUME SessionTypeOK, NEW s \in Sessions, WorkRpcResult(s)
  PROVE  SessionTypeOK'
<1> DEFINE id == Current(s).id
<1>1. /\ executing' \in [Sessions -> Seq(Answer)]
      /\ Current(s).op \in Outcomes
  BY CurrentType DEF WorkRpcResult
<1>2. UNCHANGED <<clientTime, dcVars, connVars, idVars, sync, crashed, home, msgIdOf,
                  seqNoOf, timer, toClient, sent>>
  BY DEF WorkRpcResult
<1>3. CASE UNCHANGED <<pending, acked, answers>>
  BY <1>1, <1>2, <1>3 DEF SessionTypeOK, dcVars, connVars, idVars
<1>4. CASE /\ id \in DOMAIN pending[s]
           /\ pending' = [pending EXCEPT ![s] = Without(@, id)]
           /\ acked' = [acked EXCEPT ![pending[s][id]] = TRUE]
           /\ answers' = [answers EXCEPT ![pending[s][id]] = Append(@, Current(s).op)]
  <2>1. pending[s][id] \in Queries
    BY <1>4, EntryType
  <2>2. pending = [x \in Sessions |-> pending[x]] /\ \A x \in Sessions : IsTable(pending[x])
    BY DEF SessionTypeOK
  <2>3. IsTable(Without(pending[s], id))
    BY <2>2, WithoutEntry
  <2>4. /\ pending' = [x \in Sessions |-> pending'[x]]
        /\ \A x \in Sessions : IsTable(pending'[x])
    BY <1>4, <2>2, <2>3
  <2>5. acked' \in [Queries -> BOOLEAN]
    BY <1>4, <2>1 DEF SessionTypeOK
  <2>6. answers' \in [Queries -> Seq(Outcomes)]
    BY <1>1, <1>4, <2>1, AppendAt DEF SessionTypeOK
  <2> QED
    BY <1>1, <1>2, <2>4, <2>5, <2>6 DEF SessionTypeOK, dcVars, connVars, idVars
<1> QED
  BY <1>3, <1>4 DEF WorkRpcResult

\* resendQuery sends a query that has been sent under an id before.
LEMMA ResentItem ==
  ASSUME SessionTypeOK, PendingConsistent, EntriesWereSent,
         NEW s \in Sessions, NEW id \in DOMAIN pending[s], id \in Nat
  PROVE  \E m \in sent : m.item = [msgId |-> msgIdOf[pending[s][id]],
                                   seqNo |-> seqNoOf[pending[s][id]],
                                   query |-> pending[s][id]]
<1>1. id # NoMsgId /\ msgIdOf[pending[s][id]] = id
  BY DEF NoMsgId, PendingConsistent
<1> QED
  BY <1>1 DEF EntriesWereSent

\* workBadServerSalt keeps the types.
LEMMA WorkBadServerSaltType ==
  ASSUME SessionTypeOK, PendingConsistent, EntriesWereSent,
         NEW s \in Sessions, WorkBadServerSalt(s)
  PROVE  SessionTypeOK'
<1> DEFINE id == Current(s).id
           q == pending[s][id]
           item == [msgId |-> msgIdOf[q], seqNo |-> seqNoOf[q], query |-> q]
<1>1. /\ executing' \in [Sessions -> Seq(Answer)]
      /\ id \in Nat /\ Current(s).salt \in Nat
  BY CurrentType DEF WorkBadServerSalt
<1>2. UNCHANGED <<clientTime, dcSync, link, sync, home, timer, answers, toClient>>
  BY DEF WorkBadServerSalt
<1>3. dcSalt' \in [DCs -> Nat]
  BY <1>1, DcOfAssumption DEF WorkBadServerSalt, SessionTypeOK
<1>4. CASE Crash(s)
  <2>1. crashed' \in BOOLEAN
    BY <1>4 DEF Crash
  <2>2. UNCHANGED <<pending, acked, msgIdOf, seqNoOf, idVars, sent, toServer>>
    BY <1>4 DEF Crash
  <2> QED
    BY <1>1, <1>2, <1>3, <2>1, <2>2 DEF SessionTypeOK, idVars
<1>5. CASE /\ id \in DOMAIN pending[s]
           /\ ResendQuery(s, q, Current(s).salt)
           /\ UNCHANGED <<pending, acked, msgIdOf, seqNoOf, crashed>>
           /\ q \notin Unresendable
  <2>1. item \in Item
    <3>1. PICK m \in sent : m.item = item
      BY <1>1, <1>5, ResentItem
    <3>2. m \in Message
      BY DEF SessionTypeOK
    <3> QED
      BY <3>1, <3>2 DEF Message
  <2>2. WriteMessage(s, Current(s).salt, 0, item)
    BY <1>5 DEF ResendQuery
  <2> HIDE DEF item
  <2>3. /\ clientLastMsgId' \in Nat /\ clientLastMsgId' > clientLastMsgId
        /\ seqNo' \in [Sessions -> Nat]
        /\ sent' \subseteq Message
        /\ toServer' \in [Sessions -> Seq(Message \cup {Marker})]
    BY <1>1, <2>1, <2>2, WriteMessageType
  <2> QED
    BY <1>1, <1>2, <1>3, <1>5, <2>3 DEF SessionTypeOK
<1>6. CASE /\ UNCHANGED <<idVars, sent, toServer>>
           /\ UNCHANGED <<pending, acked, msgIdOf, seqNoOf, crashed>>
  BY <1>1, <1>2, <1>3, <1>6 DEF SessionTypeOK, idVars
<1> QED
  BY <1>4, <1>5, <1>6 DEF WorkBadServerSalt, ResendQuery

\* workBadMsgNotification keeps the types.
LEMMA WorkBadMsgNotificationType ==
  ASSUME SessionTypeOK, NEW s \in Sessions, WorkBadMsgNotification(s)
  PROVE  SessionTypeOK'
<1> DEFINE id == Current(s).id
<1>1. /\ executing' \in [Sessions -> Seq(Answer)]
      /\ Current(s).time \in Nat
  BY CurrentType DEF WorkBadMsgNotification
<1>2. UNCHANGED <<clientTime, dcSalt, link, sync, home, timer, answers, toClient>>
  BY DEF WorkBadMsgNotification
<1>3. dcSync' \in [DCs -> Int]
  BY <1>1, DcOfAssumption DEF WorkBadMsgNotification, SessionTypeOK
<1>4. CASE Crash(s)
  <2>1. crashed' \in BOOLEAN
    BY <1>4 DEF Crash
  <2>2. UNCHANGED <<pending, acked, msgIdOf, seqNoOf, idVars, sent, toServer>>
    BY <1>4 DEF Crash
  <2> QED
    BY <1>1, <1>2, <1>3, <2>1, <2>2 DEF SessionTypeOK, idVars
<1>5. CASE /\ id \in DOMAIN pending[s]
           /\ ComposeQuery(s, pending[s][id], Without(pending[s], id))
           /\ UNCHANGED crashed
  <2>1. pending[s][id] \in Queries
    BY <1>5, EntryType
  <2>2. IsTable(Without(pending[s], id))
    BY WithoutEntry DEF SessionTypeOK
  <2>3. /\ clientLastMsgId' \in Nat
        /\ seqNo' \in [Sessions -> Nat]
        /\ sent' \subseteq Message
        /\ toServer' \in [Sessions -> Seq(Message \cup {Marker})]
        /\ pending' = [x \in Sessions |-> pending'[x]]
        /\ \A x \in Sessions : IsTable(pending'[x])
        /\ msgIdOf' \in [Queries -> Nat \cup {NoMsgId}]
        /\ seqNoOf' \in [Queries -> Nat \cup {-1}]
        /\ acked' \in [Queries -> BOOLEAN]
    BY <1>5, <2>1, <2>2, ComposeQueryType
  <2> QED
    BY <1>1, <1>2, <1>3, <1>5, <2>3 DEF SessionTypeOK
<1> QED
  BY <1>4, <1>5 DEF WorkBadMsgNotification

\* workNewSessionCreated keeps the types.
LEMMA WorkNewSessionCreatedType ==
  ASSUME SessionTypeOK, NEW s \in Sessions, WorkNewSessionCreated(s)
  PROVE  SessionTypeOK'
<1>1. executing' \in [Sessions -> Seq(Answer)] /\ Current(s).salt \in Nat
  BY CurrentType DEF WorkNewSessionCreated
<1>2. dcSalt' \in [DCs -> Nat]
  BY <1>1, DcOfAssumption DEF WorkNewSessionCreated, SessionTypeOK
<1> QED
  BY <1>1, <1>2 DEF WorkNewSessionCreated, SessionTypeOK, connVars, idVars, queryVars

\* Updates and notices keep the types.
LEMMA WorkOtherType ==
  ASSUME SessionTypeOK, NEW s \in Sessions, WorkOther(s)
  PROVE  SessionTypeOK'
<1>1. executing' \in [Sessions -> Seq(Answer)]
  BY CurrentType DEF WorkOther
<1> QED
  BY <1>1 DEF WorkOther, SessionTypeOK, dcVars, connVars, idVars, queryVars

\* rpcExecuteAnswer keeps the types, whichever answer it dispatches.
LEMMA WorkType ==
  ASSUME TypeOK, PendingConsistent, EntriesWereSent, NEW s \in Sessions, Works(s)
  PROVE  TypeOK'
<1>1. SessionTypeOK /\ RpcExecuteAnswer(s) /\ UNCHANGED envVars
  BY DEF Works, TypeOK
<1>2. SessionTypeOK'
  BY <1>1, WorkMsgsAckType, WorkRpcResultType, WorkBadServerSaltType,
     WorkBadMsgNotificationType, WorkNewSessionCreatedType, WorkOtherType
  DEF RpcExecuteAnswer
<1>3. clientTime' = clientTime
  BY <1>1 DEF RpcExecuteAnswer, WorkMsgsAck, WorkRpcResult, WorkBadServerSalt,
              WorkBadMsgNotification, WorkNewSessionCreated, WorkOther
<1> QED
  BY <1>1, <1>2, <1>3 DEF TypeOK, envVars, serverVars

---------------------------------------------------------------------------
(* The server's steps. *)

\* What the server reads past the marker is a message.
LEMMA IncomingType ==
  ASSUME TypeOK, MarkerOpensStream, NEW s \in Sessions, Reads(s), stream[s] = "abridged"
  PROVE  Incoming(s) \in Message
<1>1. toServer[s] \in Seq(Message \cup {Marker}) /\ toServer[s] # <<>>
  BY TypesOfWires DEF Reads
<1>2. 1 \in DOMAIN toServer[s] /\ Head(toServer[s]) = toServer[s][1]
  BY <1>1
<1>3. Head(toServer[s]) # Marker
  BY <1>2 DEF MarkerOpensStream, MarkerInPlace, NoMarkerIn
<1> QED
  BY <1>1, <1>2, <1>3 DEF Incoming

\* The server's reading of a byte stream keeps the type of the stream.
LEMMA ReadsType ==
  ASSUME TypeOK, NEW s \in Sessions, Reads(s)
  PROVE  toServer' \in [Sessions -> Seq(Message \cup {Marker})]
  BY TypesOfWires, TailAt DEF Reads

\* An answer of the server arrives as a message, or at the end of one.
LEMMA WritesType ==
  ASSUME TypeOK, NEW s \in Sessions, NEW op \in Ops, NEW id \in Nat,
         Writes(s, <<AnswerOf(s, op, id)>>)
  PROVE  toClient' \in [Sessions -> Seq(Seq(Answer) \ {<<>>})]
<1> DEFINE a == AnswerOf(s, op, id)
<1>1. a \in Answer
  BY DcOfAssumption DEF AnswerOf, Answer, TypeOK
<1> HIDE DEF a
<1>2. <<a>> \in Seq(Answer) \ {<<>>}
  BY <1>1
<1>3. toClient \in [Sessions -> Seq(Seq(Answer) \ {<<>>})]
  BY TypesOfWires
<1>4. CASE toClient' = [toClient EXCEPT ![s] = Append(@, <<a>>)]
  BY <1>2, <1>3, <1>4, AppendAt
<1>5. CASE /\ toClient[s] # <<>>
           /\ toClient' = [toClient EXCEPT ![s][Len(toClient[s])] =
                             toClient[s][Len(toClient[s])] \o <<a>>]
  <2> DEFINE old == toClient[s]
             n == Len(old)
             last == old[n] \o <<a>>
  <2>1. old \in Seq(Seq(Answer) \ {<<>>}) /\ old # <<>>
    BY <1>3, <1>5
  <2>2. n \in 1..Len(old) /\ old[n] \in Seq(Answer)
    BY <2>1
  <2>3. last \in Seq(Answer) /\ last # <<>>
    BY <1>1, <2>2
  <2>4. toClient' = [toClient EXCEPT ![s] = [old EXCEPT ![n] = last]]
    BY <1>5
  <2> HIDE DEF last, n, old
  <2>5. [old EXCEPT ![n] = last] \in Seq(Seq(Answer) \ {<<>>})
    BY <2>1, <2>2, <2>3
  <2> QED
    BY <1>3, <2>4, <2>5
<1> QED
  BY <1>4, <1>5 DEF Writes, a

\* A step that leaves the client alone, but for the two wires, keeps its types.
LEMMA WiresOnlyType ==
  ASSUME TypeOK, UNCHANGED ClientState,
         toServer' \in [Sessions -> Seq(Message \cup {Marker})],
         toClient' \in [Sessions -> Seq(Seq(Answer) \ {<<>>})]
  PROVE  SessionTypeOK' /\ clientTime' = clientTime
  BY DEF TypeOK, SessionTypeOK, ClientState, dcVars, idVars, queryVars

\* What the server does with a message it has read keeps the types.
LEMMA ServerReadsType ==
  ASSUME TypeOK, MarkerOpensStream, NEW s \in Sessions,
         \/ ServerOpensStream(s)
         \/ ServerIgnores(s)
         \/ ServerRejects(s)
         \/ ServerAccepts(s)
  PROVE  TypeOK'
<1>1. toServer' \in [Sessions -> Seq(Message \cup {Marker})]
  BY ReadsType DEF ServerOpensStream, ServerIgnores, ServerRejects, ServerAccepts
<1>2. CASE ServerOpensStream(s)
  <2>1. SessionTypeOK' /\ clientTime' = clientTime
    BY <1>1, <1>2, WiresOnlyType, TypesOfWires DEF ServerOpensStream
  <2> QED
    BY <1>2, <2>1 DEF ServerOpensStream, TypeOK, Counters
<1>3. CASE ServerIgnores(s)
  <2>1. SessionTypeOK' /\ clientTime' = clientTime
    BY <1>1, <1>3, WiresOnlyType, TypesOfWires DEF ServerIgnores
  <2> QED
    BY <1>3, <2>1 DEF ServerIgnores, TypeOK, serverVars, Counters
<1>4. CASE ServerRejects(s)
  <2>1. Incoming(s) \in Message
    BY <1>4, IncomingType DEF ServerRejects
  <2>2. Incoming(s).msgId \in Nat /\ Incoming(s).item.query \in Queries
    BY <2>1 DEF Message, Item
  <2>3. \E op \in {"badSalt", "badMsg"} : Writes(s, <<AnswerOf(s, op, Incoming(s).msgId)>>)
    BY <1>4 DEF ServerRejects
  <2>4. {"badSalt", "badMsg"} \subseteq Ops
    BY DEF Ops
  <2>5. toClient' \in [Sessions -> Seq(Seq(Answer) \ {<<>>})]
    BY <2>2, <2>3, <2>4, WritesType
  <2>6. UNCHANGED <<ClientState, now, skew, srvSalt, stream, greeted, inService, finished,
                    unacked, executions, Counters>>
    BY <1>4 DEF ServerRejects
  <2>7. SessionTypeOK' /\ clientTime' = clientTime
    BY <1>1, <2>5, <2>6, WiresOnlyType
  <2>8. rejections \in [Queries -> Nat]
    BY DEF TypeOK
  <2>9. rejections' \in [Queries -> Nat]
    BY <1>4, <2>2, <2>8 DEF ServerRejects
  <2> QED
    BY <2>6, <2>7, <2>9 DEF TypeOK, Counters
<1>5. CASE ServerAccepts(s)
  <2> DEFINE item == Incoming(s).item
  <2>1. Incoming(s) \in Message
    BY <1>5, IncomingType DEF ServerAccepts
  <2>2. item.msgId \in Nat /\ item.query \in Queries
    BY <2>1 DEF Message, Item
  <2>3. \/ UNCHANGED toClient
        \/ Writes(s, <<AnswerOf(s, "newSession", item.msgId)>>)
    BY <1>5 DEF ServerAccepts
  <2>4. toClient' \in [Sessions -> Seq(Seq(Answer) \ {<<>>})]
    BY <2>2, <2>3, WritesType, TypesOfWires DEF Ops
  <2>5. UNCHANGED <<ClientState, now, skew, srvSalt, stream, finished, executions, rejections,
                    Counters>>
    BY <1>5 DEF ServerAccepts
  <2>6. SessionTypeOK' /\ clientTime' = clientTime
    BY <1>1, <2>4, <2>5, WiresOnlyType
  <2>7. [sess |-> s, id |-> item.msgId, query |-> item.query] \in Request
    BY <2>2 DEF Request
  <2>8. /\ inService' \subseteq inService \cup {[sess |-> s, id |-> item.msgId, query |-> item.query]}
        /\ unacked' = unacked \cup {<<s, item.msgId>>}
        /\ greeted' = greeted \cup {s}
    BY <1>5 DEF ServerAccepts
  <2>9. inService' \subseteq Request /\ unacked' \subseteq Sessions \X Nat /\ greeted' \subseteq Sessions
    BY <2>2, <2>7, <2>8 DEF TypeOK
  <2> QED
    BY <2>5, <2>6, <2>9 DEF TypeOK, Counters
<1> QED
  BY <1>2, <1>3, <1>4, <1>5

\* What the server sends keeps the types.
LEMMA ServerWritesType ==
  ASSUME TypeOK, NEW s \in Sessions,
         \/ ServerAcks(s)
         \/ ServerAnswers(s)
         \/ ServerRepeats(s)
         \/ ServerPushes(s)
  PROVE  TypeOK'
<1>1. CASE ServerAcks(s)
  <2>1. PICK id \in {u[2] : u \in {v \in unacked : v[1] = s}} :
          /\ unacked' = unacked \ {<<s, id>>}
          /\ Writes(s, <<AnswerOf(s, "ack", id)>>)
          /\ UNCHANGED <<ClientState, toServer, now, skew, srvSalt, stream, greeted, inService,
                         finished, executions, rejections, Counters>>
    BY <1>1 DEF ServerAcks
  <2>2. id \in Nat
    BY DEF TypeOK
  <2>3. toClient' \in [Sessions -> Seq(Seq(Answer) \ {<<>>})]
    BY <2>1, <2>2, WritesType DEF Ops
  <2>4. SessionTypeOK' /\ clientTime' = clientTime
    BY <2>1, <2>3, WiresOnlyType, TypesOfWires
  <2> QED
    BY <2>1, <2>4 DEF TypeOK, Counters
<1>2. CASE ServerAnswers(s)
  <2>1. PICK r \in inService, op \in Outcomes :
          /\ r.sess = s
          /\ inService' = inService \ {r}
          /\ finished' = finished \cup {[sess |-> s, id |-> r.id, op |-> op]}
          /\ executions' = [executions EXCEPT ![r.query] = Append(@, op)]
          /\ Writes(s, <<AnswerOf(s, op, r.id)>>)
          /\ UNCHANGED <<ClientState, toServer, now, skew, srvSalt, stream, greeted, unacked,
                         rejections, Counters>>
    BY <1>2 DEF ServerAnswers
  <2>2. r.id \in Nat /\ r.query \in Queries
    BY DEF TypeOK, Request
  <2>3. toClient' \in [Sessions -> Seq(Seq(Answer) \ {<<>>})]
    BY <2>1, <2>2, WritesType DEF Ops
  <2>4. SessionTypeOK' /\ clientTime' = clientTime
    BY <2>1, <2>3, WiresOnlyType, TypesOfWires
  <2>5. [sess |-> s, id |-> r.id, op |-> op] \in Reply
    BY <2>2 DEF Reply
  <2>6. executions' \in [Queries -> Seq(Outcomes)]
    BY <2>1, <2>2, AppendAt DEF TypeOK
  <2> QED
    BY <2>1, <2>4, <2>5, <2>6 DEF TypeOK, Counters
<1>3. CASE ServerRepeats(s)
  <2>1. PICK r \in finished :
          /\ r.sess = s
          /\ pushes' = pushes + 1
          /\ Writes(s, <<AnswerOf(s, r.op, r.id)>>)
          /\ UNCHANGED <<ClientState, toServer, now, skew, serverVars, adjusts, lost, drops>>
    BY <1>3 DEF ServerRepeats
  <2>2. r.id \in Nat /\ r.op \in Outcomes
    BY DEF TypeOK, Reply
  <2>3. toClient' \in [Sessions -> Seq(Seq(Answer) \ {<<>>})]
    BY <2>1, <2>2, WritesType DEF Ops
  <2>4. SessionTypeOK' /\ clientTime' = clientTime
    BY <2>1, <2>3, WiresOnlyType, TypesOfWires
  <2> QED
    BY <2>1, <2>4 DEF TypeOK, serverVars
<1>4. CASE ServerPushes(s)
  <2>1. PICK op \in {"update", "notice"} :
          /\ pushes' = pushes + 1
          /\ Writes(s, <<AnswerOf(s, op, 0)>>)
          /\ UNCHANGED <<ClientState, toServer, now, skew, serverVars, adjusts, lost, drops>>
    BY <1>4 DEF ServerPushes
  <2>2. op \in Ops
    BY DEF Ops
  <2>3. toClient' \in [Sessions -> Seq(Seq(Answer) \ {<<>>})]
    BY <2>1, <2>2, WritesType
  <2>4. SessionTypeOK' /\ clientTime' = clientTime
    BY <2>1, <2>3, WiresOnlyType, TypesOfWires
  <2> QED
    BY <2>1, <2>4 DEF TypeOK, serverVars
<1> QED
  BY <1>1, <1>2, <1>3, <1>4

---------------------------------------------------------------------------
(* The clocks, and type correctness of every step. *)

\* The clocks and the server's change of salt keep the types.
LEMMA ClockType ==
  ASSUME TypeOK, Tick \/ (\E k \in Skews : AdjustClock(k)) \/ (\E d \in DCs : ServerChangesSalt(d))
  PROVE  TypeOK'
<1>1. CASE Tick
  <2>1. clientTime' \in Int /\ now' \in Nat /\ clientTime' = now' + skew'
    BY <1>1 DEF Tick, TypeOK
  <2>2. SessionTypeOK'
    BY <1>1, <2>1
    DEF Tick, TypeOK, SessionTypeOK, SessionUnclocked, dcVars, idVars, queryVars
  <2> QED
    BY <1>1, <2>1, <2>2 DEF Tick, TypeOK, serverVars, Counters
<1>2. CASE \E k \in Skews : AdjustClock(k)
  <2>1. PICK k \in Skews : AdjustClock(k)
    BY <1>2
  <2>2. clientTime' \in Int /\ now' \in Nat /\ skew' \in Int /\ clientTime' = now' + skew'
    BY <2>1, SystemAssumption DEF AdjustClock, TypeOK
  <2>3. SessionTypeOK'
    BY <2>1, <2>2
    DEF AdjustClock, TypeOK, SessionTypeOK, SessionUnclocked, dcVars, idVars, queryVars
  <2> QED
    BY <2>1, <2>2, <2>3 DEF AdjustClock, TypeOK, serverVars
<1>3. CASE \E d \in DCs : ServerChangesSalt(d)
  <2>1. PICK d \in DCs : ServerChangesSalt(d)
    BY <1>3
  <2>2. srvSalt' \in [DCs -> Nat]
    BY <2>1 DEF ServerChangesSalt, TypeOK
  <2>3. UNCHANGED <<sessionVars, now, skew, stream, greeted, inService, finished, unacked,
                    executions, rejections, Counters>>
    BY <2>1 DEF ServerChangesSalt
  <2>4. SessionTypeOK' /\ clientTime' = clientTime
    BY <2>3 DEF TypeOK, SessionTypeOK, sessionVars
  <2> QED
    BY <2>2, <2>3, <2>4 DEF TypeOK, Counters
<1> QED
  BY <1>1, <1>2, <1>3

\* The initial states are well typed.
LEMMA TypeInit == Init => TypeOK
<1> SUFFICES ASSUME Init PROVE TypeOK
  OBVIOUS
<1>1. clientTime \in Int /\ now \in Nat /\ skew \in Int /\ clientTime = now + skew
  BY SystemAssumption DEF Init
<1>2. dcSync \in [DCs -> Int]
  BY <1>1 DEF Init
<1>3. SessionTypeOK
  <2>1. pending = [x \in Sessions |-> pending[x]] /\ \A x \in Sessions : IsTable(pending[x])
    BY EmptyIsTable DEF Init, SessionInit
  <2>2. /\ executing \in [Sessions -> Seq(Answer)]
        /\ toServer \in [Sessions -> Seq(Message \cup {Marker})]
        /\ toClient \in [Sessions -> Seq(Seq(Answer) \ {<<>>})]
        /\ answers \in [Queries -> Seq(Outcomes)]
    BY DEF Init, SessionInit
  <2>3. /\ link \in [Sessions -> LinkStates] /\ sync \in [Sessions -> Int]
        /\ seqNo \in [Sessions -> Nat] /\ dcSalt \in [DCs -> Nat]
    BY DEF Init, SessionInit, LinkStates
  <2>4. /\ home \in [Queries -> Sessions \cup {NoSession}]
        /\ msgIdOf \in [Queries -> Nat \cup {NoMsgId}]
        /\ seqNoOf \in [Queries -> Nat \cup {-1}]
        /\ acked \in [Queries -> BOOLEAN]
        /\ timer \in [Queries -> {"off", "armed", "fired"}]
    BY DEF Init, SessionInit
  <2>5. clientLastMsgId \in Nat /\ crashed \in BOOLEAN /\ sent \subseteq Message
    BY DEF Init, SessionInit
  <2> QED
    BY <1>1, <1>2, <2>1, <2>2, <2>3, <2>4, <2>5 DEF SessionTypeOK
<1> QED
  BY <1>1, <1>3 DEF Init, TypeOK

\* Every step keeps the types.
LEMMA TypeNext ==
  ASSUME IInv, [Next]_vars
  PROVE  TypeOK'
<1>1. TypeOK /\ PendingConsistent /\ EntriesWereSent /\ MarkerOpensStream
  BY DEF IInv
<1>2. CASE UNCHANGED vars
  <2>1. SessionTypeOK'
    BY <1>1, <1>2 DEF TypeOK, SessionTypeOK, vars, sessionVars
  <2> QED
    BY <1>1, <1>2, <2>1 DEF TypeOK, vars, sessionVars, envVars, serverVars
<1>3. ASSUME NEW s \in Sessions, Opens(s) \/ Connects(s) PROVE TypeOK'
  BY <1>1, <1>3, OpenType
<1>4. ASSUME NEW s \in Sessions, Closes(s) \/ Loses(s) PROVE TypeOK'
  BY <1>1, <1>4, CloseType
<1>5. ASSUME NEW s \in Sessions, Handles(s) \/ Drops(s) PROVE TypeOK'
  BY <1>1, <1>5, HandleType
<1>6. ASSUME NEW s \in Sessions, Works(s) PROVE TypeOK'
  BY <1>1, <1>6, WorkType
<1>7. ASSUME NEW s \in Sessions, Server(s) \/ ServerRepeats(s) \/ ServerPushes(s) PROVE TypeOK'
  BY <1>1, <1>7, ServerReadsType, ServerWritesType DEF Server
<1>8. ASSUME NEW s \in Sessions, NEW q \in Queries, Sends(s, q) PROVE TypeOK'
  BY <1>1, <1>8, SendType
<1>9. ASSUME NEW q \in Queries, Times(q) PROVE TypeOK'
  BY <1>1, <1>9, TimerType
<1>10. ASSUME Tick \/ (\E k \in Skews : AdjustClock(k)) \/ (\E d \in DCs : ServerChangesSalt(d))
       PROVE TypeOK'
  BY <1>1, <1>10, ClockType
<1> QED
  BY <1>2, <1>3, <1>4, <1>5, <1>6, <1>7, <1>8, <1>9, <1>10 DEF Next

---------------------------------------------------------------------------
(* What a step may do to the tables: the five kinds of steps that touch    *)
(* them, and all the others.                                               *)

\* The variables the books of sent and pending queries are kept in.
bookVars == <<pending, home, msgIdOf, seqNoOf, answers, sent, clientLastMsgId, seqNo>>

\* A session that was created stays created, one that was deleted stays deleted,
\* and a crash is final.
StaysCreated == \A s \in Sessions : link[s] # "none" => link'[s] # "none"
\* A deleted session is not created again, and a crash is final.
StaysDeleted == \A s \in Sessions : link[s] = "closed" => link'[s] = "closed"
StaysCrashed == crashed => crashed'
\* How the life of sessions may go on in a step.
LivesGoOn == StaysCreated /\ StaysDeleted /\ StaysCrashed

\* A session is dropped with its table of pending queries.
Deletes(s) ==
  /\ pending' = [pending EXCEPT ![s] = EmptyTable]
  /\ link' = [link EXCEPT ![s] = "closed"]
  /\ UNCHANGED <<home, msgIdOf, seqNoOf, answers, sent, clientLastMsgId, seqNo, crashed>>

\* Every step lets the life of the sessions go on.
LEMMA LifeSteps ==
  ASSUME TypeOK, [Next]_vars
  PROVE  LivesGoOn
<1>1. link \in [Sessions -> LinkStates]
  BY TypesOfWires
<1>2. CASE link' = link /\ (crashed => crashed')
  BY <1>2 DEF LivesGoOn, StaysCreated, StaysDeleted, StaysCrashed
<1>3. ASSUME NEW s \in Sessions, Opens(s) \/ Connects(s) \/ Closes(s) \/ Loses(s)
      PROVE  LivesGoOn
  <2>1. crashed' = crashed
    BY <1>3 DEF Opens, Connects, Closes, Loses, NewSession, OnConnected, ConnectToServer,
                Close, OnDisconnected, Delete, ConnectionLost
  <2>2. \E new \in {"unconnected", "connecting", "connected", "closing", "closed"} :
          link' = [link EXCEPT ![s] = new]
    BY <1>3 DEF Opens, Connects, Closes, Loses, NewSession, OnConnected, ConnectToServer,
                Close, OnDisconnected, Delete, ConnectionLost
  <2>3. link[s] # "closed"
    BY <1>3 DEF Opens, Connects, Closes, Loses, NewSession, OnConnected, ConnectToServer,
                Close, OnDisconnected, Delete, ConnectionLost
  <2> QED
    BY <1>1, <2>1, <2>2, <2>3 DEF LivesGoOn, StaysCreated, StaysDeleted, StaysCrashed
<1>4. ASSUME NEW s \in Sessions, Handles(s) \/ Drops(s)
      PROVE  link' = link /\ (crashed => crashed')
  BY <1>4 DEF Handles, Drops, ProcessRpcAnswer, connVars
<1>5. ASSUME NEW s \in Sessions, Works(s)
      PROVE  link' = link /\ (crashed => crashed')
  BY <1>5 DEF Works, RpcExecuteAnswer, WorkMsgsAck, WorkRpcResult, WorkBadServerSalt,
              WorkBadMsgNotification, WorkNewSessionCreated, WorkOther, Crash, connVars
<1>6. ASSUME NEW s \in Sessions, Server(s) \/ ServerRepeats(s) \/ ServerPushes(s)
      PROVE  link' = link /\ (crashed => crashed')
  <2>1. UNCHANGED ClientState
    BY <1>6 DEF Server, ServerOpensStream, ServerIgnores, ServerRejects, ServerAccepts,
                ServerAcks, ServerAnswers, ServerRepeats, ServerPushes
  <2> QED
    BY <2>1 DEF ClientState
<1>7. ASSUME NEW s \in Sessions, NEW q \in Queries, Sends(s, q)
      PROVE  link' = link /\ (crashed => crashed')
  BY <1>7 DEF Sends, SendQuery
<1>8. ASSUME NEW q \in Queries, Times(q)
      PROVE  link' = link /\ (crashed => crashed')
  BY <1>8 DEF Times, TimerEvent, connVars
<1>9. ASSUME Tick \/ (\E k \in Skews : AdjustClock(k)) \/ (\E d \in DCs : ServerChangesSalt(d))
      PROVE  link' = link /\ (crashed => crashed')
  BY <1>9 DEF Tick, AdjustClock, ServerChangesSalt, SessionUnclocked, sessionVars
<1>10. CASE UNCHANGED vars
  BY <1>2, <1>10 DEF vars, sessionVars
<1> QED
  BY <1>2, <1>3, <1>4, <1>5, <1>6, <1>7, <1>8, <1>9, <1>10 DEF Next

\* Every step leaves the books alone, deletes a session, takes an answer, resends, recomposes or sends.
LEMMA BookSteps ==
  ASSUME [Next]_vars
  PROVE  \/ UNCHANGED bookVars
         \/ \E s \in Sessions :
              \/ Deletes(s)
              \/ WorkRpcResult(s)
              \/ WorkBadServerSalt(s)
              \/ WorkBadMsgNotification(s)
              \/ \E q \in Queries : SendQuery(s, q)
<1>1. CASE UNCHANGED vars
  BY <1>1 DEF vars, sessionVars, bookVars
<1>2. ASSUME NEW s \in Sessions, Opens(s) \/ Connects(s) \/ Loses(s)
      PROVE  UNCHANGED bookVars
  BY <1>2 DEF Opens, Connects, Loses, NewSession, OnConnected, ConnectToServer,
              ConnectionLost, bookVars, idVars, queryVars
<1>3. ASSUME NEW s \in Sessions, Closes(s)
      PROVE  UNCHANGED bookVars \/ Deletes(s)
  <2>1. ASSUME Delete(s) PROVE Deletes(s)
    BY <2>1 DEF Delete, Deletes, idVars, queryVars
  <2> QED
    BY <1>3, <2>1 DEF Closes, Close, OnDisconnected, bookVars, idVars, queryVars
<1>4. ASSUME NEW s \in Sessions, Handles(s) \/ Drops(s)
      PROVE  UNCHANGED bookVars
  BY <1>4 DEF Handles, Drops, ProcessRpcAnswer, bookVars, idVars, queryVars
<1>5. ASSUME NEW s \in Sessions, Works(s)
      PROVE  \/ UNCHANGED bookVars
             \/ WorkRpcResult(s) \/ WorkBadServerSalt(s) \/ WorkBadMsgNotification(s)
  BY <1>5 DEF Works, RpcExecuteAnswer, WorkMsgsAck, WorkNewSessionCreated, WorkOther, Crash,
              bookVars, idVars, queryVars
<1>6. ASSUME NEW s \in Sessions, Server(s) \/ ServerRepeats(s) \/ ServerPushes(s)
      PROVE  UNCHANGED bookVars
  <2>1. UNCHANGED ClientState
    BY <1>6 DEF Server, ServerOpensStream, ServerIgnores, ServerRejects, ServerAccepts,
                ServerAcks, ServerAnswers, ServerRepeats, ServerPushes
  <2> QED
    BY <2>1 DEF ClientState, bookVars, idVars, queryVars
<1>7. ASSUME NEW q \in Queries, Times(q)
      PROVE  UNCHANGED bookVars
  BY <1>7 DEF Times, TimerEvent, bookVars, idVars
<1>8. ASSUME Tick \/ (\E k \in Skews : AdjustClock(k)) \/ (\E d \in DCs : ServerChangesSalt(d))
      PROVE  UNCHANGED bookVars
  BY <1>8 DEF Tick, AdjustClock, ServerChangesSalt, SessionUnclocked, sessionVars, bookVars,
              idVars, queryVars
<1> QED
  BY <1>1, <1>2, <1>3, <1>4, <1>5, <1>6, <1>7, <1>8 DEF Next, Sends

---------------------------------------------------------------------------
(* The invariants of the tables. *)

\* What the books say, apart from the types.
BookInv ==
  /\ PendingConsistent /\ EntriesWereSent /\ IdsDrawn /\ QueriesAtHome
  /\ MsgIdsUnique /\ ResendKeepsIdentity /\ AnsweredOnce /\ NoQueryForgotten

\* Composing q enters it under one new id, or under NoMsgId when it is too large.
LEMMA Composed ==
  ASSUME SessionTypeOK, NEW s \in Sessions, NEW q \in Queries,
         NEW table, IsTable(table), ComposeQuery(s, q, table)
  PROVE  \E id \in Nat \cup {NoMsgId} :
           /\ pending' = [pending EXCEPT ![s] = Insert(table, id, q)]
           /\ msgIdOf' = [msgIdOf EXCEPT ![q] = id]
           /\ \A x \in Queries \ {q} : seqNoOf'[x] = seqNoOf[x]
           /\ \/ /\ q \in Oversized /\ id = NoMsgId
                 /\ UNCHANGED <<sent, clientLastMsgId>>
              \/ /\ q \notin Oversized /\ id \in Nat /\ id # NoMsgId
                 /\ id > clientLastMsgId /\ clientLastMsgId' = id
                 /\ \E m : /\ sent' = sent \cup {m} /\ m.msgId = id
                          /\ m.item = [msgId |-> id, seqNo |-> seqNoOf'[q], query |-> q]
<1>1. seqNo \in [Sessions -> Nat] /\ seqNoOf \in [Queries -> Nat \cup {-1}]
  BY DEF SessionTypeOK
<1>2. CASE q \in Oversized
  <2>1. EnterQuery(s, q, table, NoMsgId, seqNo[s]) /\ UNCHANGED <<idVars, sent, toServer>>
    BY <1>2 DEF ComposeQuery
  <2>2. \A x \in Queries \ {q} : seqNoOf'[x] = seqNoOf[x]
    BY <1>1, <2>1 DEF EnterQuery
  <2> QED
    BY <1>2, <2>1, <2>2 DEF EnterQuery, idVars
<1>3. CASE q \notin Oversized
  <2> DEFINE id == NextMsgId(s)
             item == [msgId |-> id, seqNo |-> seqNo[s] + 1, query |-> q]
             m == [sess |-> s, salt |-> dcSalt[DcOf[s]], msgId |-> id,
                   seqNo |-> seqNo[s] + 1, item |-> item]
  <2>1. id \in Nat /\ id > clientLastMsgId
    BY NextMsgIdGrows
  <2>2. WriteMessage(s, dcSalt[DcOf[s]], 1, item)
        /\ EnterQuery(s, q, table, id, seqNo[s] + 2)
    BY <1>3 DEF ComposeQuery
  <2>3. clientLastMsgId' = id /\ sent' = sent \cup {m}
    BY <2>2 DEF WriteMessage
  <2> HIDE DEF id
  <2>4. /\ pending' = [pending EXCEPT ![s] = Insert(table, id, q)]
        /\ msgIdOf' = [msgIdOf EXCEPT ![q] = id]
        /\ seqNoOf' = [seqNoOf EXCEPT ![q] = (seqNo[s] + 2) - 1]
    BY <2>2 DEF EnterQuery
  <2>5. seqNoOf'[q] = seqNo[s] + 1 /\ \A x \in Queries \ {q} : seqNoOf'[x] = seqNoOf[x]
    BY <1>1, <2>4
  <2>6. m.msgId = id /\ m.item = [msgId |-> id, seqNo |-> seqNoOf'[q], query |-> q]
    BY <2>5
  <2>7. id # NoMsgId
    BY <2>1 DEF NoMsgId
  <2> HIDE DEF m
  <2> QED
    BY <1>3, <2>1, <2>3, <2>4, <2>5, <2>6, <2>7
<1> QED
  BY <1>2, <1>3

\* The ids of the entries of queries that were sent are ids already drawn.
LEMMA EntriesDrawn ==
  ASSUME SessionTypeOK, EntriesWereSent, IdsDrawn, NEW s \in Sessions,
         NEW id \in DOMAIN pending[s], id # NoMsgId
  PROVE  id <= clientLastMsgId
<1>1. PICK m \in sent : m.item = [msgId |-> id, seqNo |-> seqNoOf[pending[s][id]],
                                 query |-> pending[s][id]]
  BY DEF EntriesWereSent
<1>2. m.item.msgId = id
  BY <1>1
<1> QED
  BY <1>2 DEF IdsDrawn

\* Composing a query of s that stands in no other entry of the new table, and
\* putting it in place of its old entry, keeps the tables in order.
LEMMA ComposeBook ==
  ASSUME TypeOK, BookInv, NEW s \in Sessions, NEW q \in Queries,
         NEW table, IsTable(table), ComposeQuery(s, q, table),
         \A id \in DOMAIN table :
            id \in DOMAIN pending[s] /\ table[id] = pending[s][id] /\ table[id] # q,
         \A id \in DOMAIN pending[s] : pending[s][id] # q => id \in DOMAIN table,
         \A x \in Sessions \ {s} : \A id \in DOMAIN pending[x] : pending[x][id] # q,
         home' \in [Queries -> Sessions \cup {NoSession}], home'[q] = s,
         \A x \in Queries \ {q} : home'[x] = home[x],
         answers[q] = <<>>, link[s] # "none", UNCHANGED <<answers, link, crashed>>
  PROVE  BookInv'
<1>1. SessionTypeOK /\ clientLastMsgId \in Nat /\ sent \subseteq Message
  BY DEF TypeOK, SessionTypeOK
<1>2. PICK id \in Nat \cup {NoMsgId} :
         /\ pending' = [pending EXCEPT ![s] = Insert(table, id, q)]
         /\ msgIdOf' = [msgIdOf EXCEPT ![q] = id]
         /\ \A x \in Queries \ {q} : seqNoOf'[x] = seqNoOf[x]
         /\ \/ /\ q \in Oversized /\ id = NoMsgId
               /\ UNCHANGED <<sent, clientLastMsgId>>
            \/ /\ q \notin Oversized /\ id \in Nat /\ id # NoMsgId
               /\ id > clientLastMsgId /\ clientLastMsgId' = id
               /\ \E m : /\ sent' = sent \cup {m} /\ m.msgId = id
                        /\ m.item = [msgId |-> id, seqNo |-> seqNoOf'[q], query |-> q]
  BY <1>1, Composed, SMTT(60)
<1> DEFINE new == Insert(table, id, q)
<1>0. /\ DOMAIN new = DOMAIN table \cup {id} /\ new[id] = q
      /\ \A i \in DOMAIN table : i # id => new[i] = table[i]
  BY DEF Insert
<1> HIDE DEF new
\* The entries of the new tables: q under id, or an old entry of another query.
<1>3. \A x \in Sessions : pending'[x] = IF x = s THEN new ELSE pending[x]
  BY <1>1, <1>2 DEF SessionTypeOK, new
<1>4. ASSUME NEW x \in Sessions, NEW i \in DOMAIN pending'[x]
      PROVE  \/ x = s /\ i = id /\ pending'[x][i] = q
             \/ /\ i \in DOMAIN pending[x] /\ pending'[x][i] = pending[x][i]
                /\ pending[x][i] \in Queries /\ pending[x][i] # q
  <2>1. CASE x = s
    BY <1>0, <1>1, <1>3, <2>1, EntryType
  <2>2. CASE x # s
    BY <1>1, <1>3, <2>2, EntryType
  <2> QED
    BY <2>1, <2>2
<1>5. pending'[s][id] = q /\ id \in DOMAIN pending'[s]
  BY <1>0, <1>3
<1>6. msgIdOf'[q] = id /\ \A x \in Queries \ {q} : msgIdOf'[x] = msgIdOf[x]
  BY <1>1, <1>2 DEF SessionTypeOK
<1>7. sent \subseteq sent' /\ clientLastMsgId <= clientLastMsgId'
  BY <1>1, <1>2
<1>8. PendingConsistent'
  BY <1>4, <1>6 DEF BookInv, PendingConsistent
<1>9. EntriesWereSent'
  <2> SUFFICES ASSUME NEW x \in Sessions, NEW i \in DOMAIN pending'[x]
               PROVE  IF i = NoMsgId THEN pending'[x][i] \in Oversized
                      ELSE \E m \in sent' : m.item = [msgId |-> i, seqNo |-> seqNoOf'[pending'[x][i]],
                                                     query |-> pending'[x][i]]
    BY DEF EntriesWereSent, NoMsgId
  <2>1. CASE x = s /\ i = id /\ pending'[x][i] = q
    BY <1>2, <2>1
  <2>2. CASE /\ i \in DOMAIN pending[x] /\ pending'[x][i] = pending[x][i]
             /\ pending[x][i] \in Queries /\ pending[x][i] # q
    BY <1>2, <1>7, <2>2 DEF BookInv, EntriesWereSent
  <2> QED
    BY <1>4, <2>1, <2>2
<1>10. IdsDrawn' /\ MsgIdsUnique' /\ ResendKeepsIdentity'
  <2>1. CASE UNCHANGED <<sent, clientLastMsgId>>
    BY <2>1 DEF BookInv, IdsDrawn, MsgIdsUnique, ResendKeepsIdentity
  <2>2. CASE /\ id \in Nat /\ id > clientLastMsgId /\ clientLastMsgId' = id
             /\ \E m : /\ sent' = sent \cup {m} /\ m.msgId = id
                      /\ m.item = [msgId |-> id, seqNo |-> seqNoOf'[q], query |-> q]
    <3>1. PICK m : /\ sent' = sent \cup {m} /\ m.msgId = id
                   /\ m.item = [msgId |-> id, seqNo |-> seqNoOf'[q], query |-> q]
      BY <2>2
    <3>2. m.item.msgId = id
      BY <3>1
    <3>3. \A n \in sent : /\ n.msgId \in Nat /\ n.msgId <= clientLastMsgId
                         /\ n.item.msgId \in Nat /\ n.item.msgId <= clientLastMsgId
      BY <1>1 DEF BookInv, IdsDrawn, Message, Item
    <3>4. IdsDrawn'
      BY <1>1, <2>2, <3>1, <3>2, <3>3 DEF IdsDrawn
    <3>5. MsgIdsUnique'
      BY <1>1, <2>2, <3>1, <3>3 DEF BookInv, MsgIdsUnique
    <3>6. ResendKeepsIdentity'
      BY <1>1, <2>2, <3>1, <3>2, <3>3 DEF BookInv, ResendKeepsIdentity
    <3> QED
      BY <3>4, <3>5, <3>6
  <2> QED
    BY <1>2, <2>1, <2>2
<1>11. QueriesAtHome'
  BY QueriesAssumption DEF BookInv, QueriesAtHome
<1>12. AnsweredOnce'
  BY DEF BookInv, AnsweredOnce
<1>13. NoQueryForgotten'
  <2> SUFFICES ASSUME ~crashed', NEW x \in Queries \ Oversized,
                      home'[x] # NoSession, answers'[x] = <<>>,
                      link'[home'[x]] \notin {"none", "closed"}
               PROVE  \E i \in DOMAIN pending'[home'[x]] : pending'[home'[x]][i] = x
    BY DEF NoQueryForgotten, Running, Alive
  <2>1. CASE x = q
    BY <1>5, <2>1
  <2>2. CASE x # q
    <3>1. home'[x] = home[x] /\ home[x] \in Sessions /\ Alive(home[x])
      BY <2>2, QueriesAssumption DEF Alive
    <3>2. PICK i \in DOMAIN pending[home[x]] : pending[home[x]][i] = x
      BY <3>1 DEF BookInv, NoQueryForgotten, Running
    <3>3. i # id
      <4>1. i # NoMsgId
        <5>1. i = NoMsgId => pending[home[x]][i] \in Oversized
          BY <3>1, <3>2 DEF BookInv, EntriesWereSent
        <5> QED
          BY <3>2, <5>1
      <4>2. i <= clientLastMsgId
        BY <1>1, <3>1, <4>1, EntriesDrawn DEF BookInv
      <4> QED
        BY <1>1, <1>2, <4>1, <4>2
    <3>4. CASE home[x] = s
      BY <1>0, <1>3, <2>2, <3>1, <3>2, <3>3, <3>4
    <3>5. CASE home[x] # s
      BY <1>3, <3>1, <3>2, <3>5
    <3> QED
      BY <3>4, <3>5
  <2> QED
    BY <2>1, <2>2
<1> QED
  BY <1>8, <1>9, <1>10, <1>11, <1>12, <1>13 DEF BookInv

\* A step that leaves the books alone keeps what they say.
LEMMA QuietBook ==
  ASSUME TypeOK, BookInv, UNCHANGED bookVars, LivesGoOn
  PROVE  BookInv'
<1>1. UNCHANGED <<pending, home, msgIdOf, seqNoOf, answers, sent, clientLastMsgId>>
  BY DEF bookVars
<1>2. home \in [Queries -> Sessions \cup {NoSession}]
  BY DEF TypeOK, SessionTypeOK
<1>3. /\ PendingConsistent' /\ EntriesWereSent' /\ IdsDrawn'
      /\ MsgIdsUnique' /\ ResendKeepsIdentity' /\ AnsweredOnce'
  BY <1>1 DEF BookInv, PendingConsistent, EntriesWereSent, NoMsgId, IdsDrawn, MsgIdsUnique,
              ResendKeepsIdentity, AnsweredOnce
<1>4. QueriesAtHome'
  <2> SUFFICES ASSUME NEW q \in Queries
               PROVE  IF home[q] = NoSession THEN answers[q] = <<>> ELSE link'[home[q]] # "none"
    BY <1>1 DEF QueriesAtHome
  <2>1. IF home[q] = NoSession THEN answers[q] = <<>> ELSE link[home[q]] # "none"
    BY DEF BookInv, QueriesAtHome
  <2>2. CASE home[q] = NoSession
    BY <2>1, <2>2
  <2>3. CASE home[q] # NoSession
    <3>1. \A s \in Sessions : link[s] # "none" => link'[s] # "none"
      BY DEF LivesGoOn, StaysCreated
    <3>2. home[q] \in Sessions
      BY <1>2, <2>3
    <3> QED
      BY <2>1, <2>3, <3>1, <3>2
  <2> QED
    BY <2>2, <2>3
<1>5. NoQueryForgotten'
  <2> SUFFICES ASSUME ~crashed', NEW q \in Queries \ Oversized,
                      home[q] # NoSession, answers[q] = <<>>,
                      link'[home[q]] \notin {"none", "closed"}
               PROVE  \E id \in DOMAIN pending[home[q]] : pending[home[q]][id] = q
    BY <1>1 DEF NoQueryForgotten, Running, Alive
  <2>1. home[q] \in Sessions /\ link[home[q]] \notin {"none", "closed"}
    BY <1>2 DEF BookInv, QueriesAtHome, LivesGoOn, StaysDeleted
  <2>2. ~crashed
    BY DEF LivesGoOn, StaysCrashed
  <2> QED
    BY <2>1, <2>2 DEF BookInv, NoQueryForgotten, Running, Alive
<1> QED
  BY <1>3, <1>4, <1>5 DEF BookInv

\* Dropping a session keeps what the books say.
LEMMA DeleteBook ==
  ASSUME TypeOK, BookInv, LivesGoOn, NEW s \in Sessions, Deletes(s)
  PROVE  BookInv'
<1>1. UNCHANGED <<home, msgIdOf, seqNoOf, answers, sent, clientLastMsgId, crashed>>
  BY DEF Deletes
<1>2. /\ home \in [Queries -> Sessions \cup {NoSession}]
      /\ link' = [link EXCEPT ![s] = "closed"] /\ link \in [Sessions -> LinkStates]
      /\ pending' = [pending EXCEPT ![s] = EmptyTable]
      /\ pending = [x \in Sessions |-> pending[x]]
  BY DEF TypeOK, SessionTypeOK, Deletes
<1>3. \A x \in Sessions : pending'[x] = IF x = s THEN EmptyTable ELSE pending[x]
  BY <1>2
<1>4. \A x \in Sessions : \A id \in DOMAIN pending'[x] :
         x # s /\ id \in DOMAIN pending[x] /\ pending'[x][id] = pending[x][id]
  BY <1>3, EmptyIsTable
<1>5. PendingConsistent' /\ EntriesWereSent'
  BY <1>1, <1>4 DEF BookInv, PendingConsistent, EntriesWereSent, NoMsgId
<1>6. IdsDrawn' /\ MsgIdsUnique' /\ ResendKeepsIdentity' /\ AnsweredOnce'
  BY <1>1 DEF BookInv, IdsDrawn, MsgIdsUnique, ResendKeepsIdentity, AnsweredOnce
<1>7. QueriesAtHome'
  BY <1>1, <1>2 DEF BookInv, QueriesAtHome, LivesGoOn
<1>8. NoQueryForgotten'
  <2> SUFFICES ASSUME ~crashed, NEW q \in Queries \ Oversized,
                      home[q] # NoSession, answers[q] = <<>>,
                      link'[home[q]] \notin {"none", "closed"}
               PROVE  \E id \in DOMAIN pending'[home[q]] : pending'[home[q]][id] = q
    BY <1>1 DEF NoQueryForgotten, Running, Alive
  <2>1. home[q] \in Sessions /\ home[q] # s /\ link[home[q]] \notin {"none", "closed"}
    BY <1>2
  <2> QED
    BY <1>3, <2>1 DEF BookInv, NoQueryForgotten, Running, Alive
<1> QED
  BY <1>5, <1>6, <1>7, <1>8 DEF BookInv

\* workRpcResult keeps what the books say: the entry goes as the answer comes.
LEMMA ResultBook ==
  ASSUME TypeOK, BookInv, LivesGoOn, NEW s \in Sessions, WorkRpcResult(s)
  PROVE  BookInv'
<1> DEFINE id == Current(s).id
           q == pending[s][id]
<1>1. UNCHANGED <<clientTime, link, home, msgIdOf, seqNoOf, sent, clientLastMsgId, seqNo,
               crashed>>
  BY DEF WorkRpcResult, connVars, idVars
<1>2. CASE UNCHANGED <<pending, acked, answers>>
  BY <1>1, <1>2, QuietBook DEF bookVars
<1>3. CASE /\ id \in DOMAIN pending[s]
           /\ pending' = [pending EXCEPT ![s] = Without(@, id)]
           /\ answers' = [answers EXCEPT ![q] = Append(@, Current(s).op)]
  <2>1. SessionTypeOK
    BY DEF TypeOK
  <2>2. q \in Queries /\ home[q] = s /\ msgIdOf[q] = id /\ answers[q] = <<>>
    BY <1>3, <2>1, EntryType DEF BookInv, PendingConsistent
  <2>3. /\ DOMAIN Without(pending[s], id) = DOMAIN pending[s] \ {id}
        /\ \A i \in DOMAIN pending[s] \ {id} : Without(pending[s], id)[i] = pending[s][i]
    BY DEF Without
  <2>4. \A x \in Sessions : pending'[x] = IF x = s THEN Without(pending[s], id) ELSE pending[x]
    BY <1>3, <2>1 DEF SessionTypeOK
  <2>5. ASSUME NEW x \in Sessions, NEW i \in DOMAIN pending'[x]
        PROVE  /\ i \in DOMAIN pending[x] /\ pending'[x][i] = pending[x][i]
               /\ pending[x][i] \in Queries /\ pending[x][i] # q
    <3>1. i \in DOMAIN pending[x] /\ pending'[x][i] = pending[x][i] /\ (x = s => i # id)
      BY <2>3, <2>4
    <3>2. home[pending[x][i]] = x /\ msgIdOf[pending[x][i]] = i
      BY <3>1 DEF BookInv, PendingConsistent
    <3> QED
      BY <2>1, <2>2, <3>1, <3>2, EntryType
  <2>6. /\ \A x \in Queries \ {q} : answers'[x] = answers[x]
        /\ Len(answers'[q]) = 1 /\ answers'[q] # <<>>
    <3>1. answers \in [Queries -> Seq(Outcomes)] /\ Current(s).op \in Outcomes
      BY <2>1, CurrentType DEF SessionTypeOK, WorkRpcResult
    <3>2. answers'[q] = Append(<<>>, Current(s).op)
      BY <1>3, <2>2, <3>1
    <3> QED
      BY <1>3, <2>2, <3>1, <3>2
  <2>7. PendingConsistent' /\ EntriesWereSent'
    BY <1>1, <2>5, <2>6 DEF BookInv, PendingConsistent, EntriesWereSent, NoMsgId
  <2>8. IdsDrawn' /\ MsgIdsUnique' /\ ResendKeepsIdentity'
    BY <1>1 DEF BookInv, IdsDrawn, MsgIdsUnique, ResendKeepsIdentity
  <2>9. AnsweredOnce'
    <3> SUFFICES ASSUME NEW x \in Queries PROVE Len(answers'[x]) <= 1
      BY DEF AnsweredOnce
    <3>1. CASE x = q
      <4>1. Len(answers'[x]) = 1
        BY <2>6, <3>1
      <4> QED
        BY <4>1
    <3>2. CASE x # q
      <4>1. answers'[x] = answers[x]
        BY <2>6, <3>2
      <4> QED
        BY <4>1 DEF BookInv, AnsweredOnce
    <3> QED
      BY <3>1, <3>2
  <2>10. QueriesAtHome'
    BY <1>1, <2>2, <2>6, QueriesAssumption DEF BookInv, QueriesAtHome
  <2>11. NoQueryForgotten'
    <3> SUFFICES ASSUME ~crashed, NEW x \in Queries \ Oversized,
                        home[x] # NoSession, answers'[x] = <<>>,
                        link[home[x]] \notin {"none", "closed"}
                 PROVE  \E i \in DOMAIN pending'[home[x]] : pending'[home[x]][i] = x
      BY <1>1 DEF NoQueryForgotten, Running, Alive
    <3>1. x # q /\ answers[x] = <<>> /\ home[x] \in Sessions
      BY <2>1, <2>6 DEF SessionTypeOK
    <3>2. PICK i \in DOMAIN pending[home[x]] : pending[home[x]][i] = x
      BY <3>1 DEF BookInv, NoQueryForgotten, Running, Alive
    <3> QED
      BY <2>3, <2>4, <3>1, <3>2
  <2> QED
    BY <2>7, <2>8, <2>9, <2>10, <2>11 DEF BookInv
<1> QED
  BY <1>2, <1>3 DEF WorkRpcResult

\* resendQuery keeps what the books say: the query travels under its first identity.
LEMMA ResendBook ==
  ASSUME TypeOK, BookInv, LivesGoOn, NEW s \in Sessions, WorkBadServerSalt(s)
  PROVE  BookInv'
<1> DEFINE id == Current(s).id
           q == pending[s][id]
           item == [msgId |-> msgIdOf[q], seqNo |-> seqNoOf[q], query |-> q]
           m == [sess |-> s, salt |-> Current(s).salt, msgId |-> NextMsgId(s),
                 seqNo |-> seqNo[s] + 0, item |-> item]
<1>1. SessionTypeOK /\ clientLastMsgId \in Nat /\ sent \subseteq Message
  BY DEF TypeOK, SessionTypeOK
<1>2. UNCHANGED <<link, home, answers>>
  BY DEF WorkBadServerSalt
<1>3. CASE Crash(s)
  <2>1. UNCHANGED bookVars
    BY <1>2, <1>3 DEF Crash, bookVars, idVars
  <2> QED
    BY <2>1, QuietBook
<1>4. CASE /\ id \in DOMAIN pending[s]
           /\ ResendQuery(s, q, Current(s).salt)
           /\ UNCHANGED <<pending, acked, msgIdOf, seqNoOf, crashed>>
           /\ q \notin Unresendable
  <2>1. clientLastMsgId' = NextMsgId(s) /\ sent' = sent \cup {m}
    BY <1>4 DEF ResendQuery, WriteMessage
  <2>2. NextMsgId(s) \in Nat /\ NextMsgId(s) > clientLastMsgId
    BY <1>1, NextMsgIdGrows
  <2>3. id \in Nat
    BY <1>1, CurrentType DEF WorkBadServerSalt
  <2>4. PICK n \in sent : n.item = item
    BY <1>1, <1>4, <2>3, ResentItem DEF BookInv
  <2>5. m.msgId = NextMsgId(s) /\ m.item = item
    OBVIOUS
  <2> HIDE DEF m, item, q, id
  <2>6. \A x \in sent : x.msgId \in Nat /\ x.msgId <= clientLastMsgId
                      /\ x.item.msgId \in Nat /\ x.item.msgId <= clientLastMsgId
    BY <1>1 DEF BookInv, IdsDrawn, Message, Item
  <2>7. m.item = n.item
    BY <2>4, <2>5
  <2>8. IdsDrawn'
    BY <1>1, <2>1, <2>2, <2>5, <2>6, <2>7 DEF IdsDrawn
  <2>9. MsgIdsUnique'
    BY <1>1, <2>1, <2>2, <2>5, <2>6 DEF BookInv, MsgIdsUnique
  <2>10. ResendKeepsIdentity'
    BY <2>1, <2>7 DEF BookInv, ResendKeepsIdentity
  <2>11. UNCHANGED <<pending, home, msgIdOf, seqNoOf, answers, link, crashed>>
    BY <1>2, <1>4
  <2>12. PendingConsistent' /\ QueriesAtHome' /\ AnsweredOnce' /\ NoQueryForgotten'
    BY <2>11 DEF BookInv, PendingConsistent, QueriesAtHome, AnsweredOnce, NoQueryForgotten,
                 Running, Alive
  <2>13. EntriesWereSent'
    BY <2>1, <2>11 DEF BookInv, EntriesWereSent, NoMsgId
  <2> QED
    BY <2>8, <2>9, <2>10, <2>12, <2>13 DEF BookInv
<1>5. CASE /\ UNCHANGED <<idVars, sent, toServer>>
           /\ UNCHANGED <<pending, acked, msgIdOf, seqNoOf, crashed>>
  <2>1. UNCHANGED bookVars
    BY <1>2, <1>5 DEF bookVars, idVars
  <2> QED
    BY <2>1, QuietBook
<1> QED
  BY <1>3, <1>4, <1>5 DEF WorkBadServerSalt, ResendQuery

\* recomposeAndSendQuery keeps what the books say: the entry moves to the new id.
LEMMA RecomposeBook ==
  ASSUME TypeOK, BookInv, LivesGoOn, NEW s \in Sessions, WorkBadMsgNotification(s)
  PROVE  BookInv'
<1> DEFINE id == Current(s).id
           q == pending[s][id]
<1>1. SessionTypeOK
  BY DEF TypeOK
<1>2. UNCHANGED <<link, home, answers>>
  BY DEF WorkBadMsgNotification
<1>3. CASE Crash(s)
  <2>1. UNCHANGED bookVars
    BY <1>2, <1>3 DEF Crash, bookVars, idVars
  <2> QED
    BY <2>1, QuietBook
<1>4. CASE /\ id \in DOMAIN pending[s]
           /\ ComposeQuery(s, q, Without(pending[s], id))
           /\ UNCHANGED crashed
  <2>1. q \in Queries /\ home[q] = s /\ msgIdOf[q] = id /\ answers[q] = <<>>
    BY <1>1, <1>4, EntryType DEF BookInv, PendingConsistent
  <2>2. IsTable(Without(pending[s], id))
    BY <1>1, WithoutEntry DEF SessionTypeOK
  <2>3. /\ DOMAIN Without(pending[s], id) = DOMAIN pending[s] \ {id}
        /\ \A i \in DOMAIN pending[s] \ {id} : Without(pending[s], id)[i] = pending[s][i]
    BY DEF Without
  <2>4. \A x \in Sessions : \A i \in DOMAIN pending[x] :
           pending[x][i] = q => x = s /\ i = id
    BY <2>1 DEF BookInv, PendingConsistent
  <2>5. \A i \in DOMAIN Without(pending[s], id) :
           /\ i \in DOMAIN pending[s] /\ Without(pending[s], id)[i] = pending[s][i]
           /\ Without(pending[s], id)[i] # q
    BY <2>3, <2>4
  <2>6. \A i \in DOMAIN pending[s] : pending[s][i] # q => i \in DOMAIN Without(pending[s], id)
    BY <2>3
  <2>7. \A x \in Sessions \ {s} : \A i \in DOMAIN pending[x] : pending[x][i] # q
    BY <2>4
  <2>8. /\ home' \in [Queries -> Sessions \cup {NoSession}] /\ home'[q] = s
        /\ \A x \in Queries \ {q} : home'[x] = home[x]
    BY <1>1, <1>2, <2>1 DEF SessionTypeOK
  <2>9. link[s] # "none"
    BY <2>1, QueriesAssumption DEF BookInv, QueriesAtHome
  <2>10. UNCHANGED <<answers, link, crashed>>
    BY <1>2, <1>4
  <2> HIDE DEF q, id
  <2> QED
    BY <1>4, <2>1, <2>2, <2>5, <2>6, <2>7, <2>8, <2>9, <2>10, ComposeBook
<1> QED
  BY <1>3, <1>4 DEF WorkBadMsgNotification

\* sendQuery keeps what the books say: the id is fresh.
LEMMA SendBook ==
  ASSUME TypeOK, BookInv, NEW s \in Sessions, NEW q \in Queries, SendQuery(s, q)
  PROVE  BookInv'
<1>1. SessionTypeOK /\ IsTable(pending[s]) /\ home \in [Queries -> Sessions \cup {NoSession}]
  BY DEF TypeOK, SessionTypeOK
<1>2. /\ ComposeQuery(s, q, pending[s]) /\ home[q] = NoSession
      /\ home' = [home EXCEPT ![q] = s]
      /\ UNCHANGED <<answers, link, crashed>>
  BY DEF SendQuery
<1>3. answers[q] = <<>>
  BY <1>2 DEF BookInv, QueriesAtHome
<1>4. \A x \in Sessions : \A i \in DOMAIN pending[x] : pending[x][i] # q
  BY <1>2, QueriesAssumption DEF BookInv, PendingConsistent
<1>5. link[s] # "none"
  BY DEF SendQuery, Alive
<1>6. /\ home' \in [Queries -> Sessions \cup {NoSession}] /\ home'[q] = s
      /\ \A x \in Queries \ {q} : home'[x] = home[x]
  BY <1>1, <1>2
<1> QED
  BY <1>1, <1>2, <1>3, <1>4, <1>5, <1>6, ComposeBook

\* Every step keeps the tables in order.
LEMMA BookNext ==
  ASSUME TypeOK, BookInv, [Next]_vars
  PROVE  BookInv'
BY LifeSteps, BookSteps, QuietBook, DeleteBook, ResultBook, ResendBook, RecomposeBook, SendBook

\* The books are empty in the initial states.
LEMMA BookInit == Init => BookInv
<1> SUFFICES ASSUME Init PROVE BookInv
  OBVIOUS
<1>1. \A s \in Sessions : DOMAIN pending[s] = {}
  BY EmptyIsTable DEF Init, SessionInit
<1>2. PendingConsistent /\ EntriesWereSent
  BY <1>1 DEF PendingConsistent, EntriesWereSent
<1>3. IdsDrawn /\ MsgIdsUnique /\ ResendKeepsIdentity
  BY DEF Init, SessionInit, IdsDrawn, MsgIdsUnique, ResendKeepsIdentity
<1>4. QueriesAtHome /\ AnsweredOnce /\ NoQueryForgotten
  BY DEF Init, SessionInit, QueriesAtHome, AnsweredOnce, NoQueryForgotten
<1> QED
  BY <1>2, <1>3, <1>4 DEF BookInv

---------------------------------------------------------------------------
(* The marker in front of the stream. *)

\* Only a message is appended by sending, and only to an open socket.
LEMMA SendingWire ==
  ASSUME NEW s \in Sessions, NEW salt, NEW useful, NEW item, WriteMessage(s, salt, useful, item)
  PROVE  \/ toServer' = toServer
         \/ /\ link[s] \in {"connecting", "connected", "closing"}
            /\ \E m : m # Marker /\ toServer' = [toServer EXCEPT ![s] = Append(@, m)]
<1> DEFINE m == [sess |-> s, salt |-> salt, msgId |-> NextMsgId(s),
                 seqNo |-> seqNo[s] + useful, item |-> item]
<1>1. m.sess = s /\ Marker.sess = NoSession
  BY DEF Marker
<1>2. m # Marker
  BY <1>1, QueriesAssumption
<1>3. toServer' = IF Writable(s) THEN [toServer EXCEPT ![s] = Append(@, m)] ELSE toServer
  BY DEF WriteMessage
<1> HIDE DEF m
<1> QED
  BY <1>2, <1>3 DEF Writable

\* How the marker stays in place when the bytes in front of the server change.
LEMMA MarkerAppendMessage ==
  ASSUME NEW life \in {"connecting", "connected", "closing"}, NEW reader, NEW S,
         NEW bytes \in Seq(S), NEW m, m # Marker,
         MarkerInPlace(life, bytes, reader)
  PROVE  MarkerInPlace(life, Append(bytes, m), reader)
<1>1. DOMAIN Append(bytes, m) = DOMAIN bytes \cup {Len(bytes) + 1}
  OBVIOUS
<1>2. \A i \in DOMAIN bytes : Append(bytes, m)[i] = bytes[i]
  OBVIOUS
<1>3. Append(bytes, m)[Len(bytes) + 1] = m
  OBVIOUS
<1> QED
  BY <1>1, <1>2, <1>3 DEF MarkerInPlace, NoMarkerIn

\* A marker written on a stream without one is the only one.
LEMMA MarkerAppendMarker ==
  ASSUME NEW reader, NEW S, NEW bytes \in Seq(S), MarkerInPlace("connecting", bytes, reader)
  PROVE  MarkerInPlace("connected", Append(bytes, Marker), reader)
<1>1. DOMAIN Append(bytes, Marker) = DOMAIN bytes \cup {Len(bytes) + 1}
  OBVIOUS
<1>2. \A i \in DOMAIN bytes : Append(bytes, Marker)[i] = bytes[i]
  OBVIOUS
<1>3. reader = "new" /\ NoMarkerIn(bytes)
  BY DEF MarkerInPlace
<1> QED
  BY <1>1, <1>2, <1>3 DEF MarkerInPlace, NoMarkerIn

\* Reading on does not bring a second marker.
LEMMA MarkerTail ==
  ASSUME NEW life, life # "connecting", NEW reader \in {"new", "abridged", "noise"}, NEW S,
         NEW bytes \in Seq(S), bytes # <<>>, MarkerInPlace(life, bytes, reader)
  PROVE  /\ MarkerInPlace(life, Tail(bytes), reader)
         /\ Head(bytes) = Marker => MarkerInPlace(life, Tail(bytes), "abridged")
         /\ MarkerInPlace(life, Tail(bytes), "noise")
<1>1. 1 \in DOMAIN bytes /\ Head(bytes) = bytes[1]
  OBVIOUS
<1>2. \A i \in DOMAIN Tail(bytes) : /\ i \in Nat /\ i + 1 \in DOMAIN bytes /\ i + 1 # 1
                                    /\ Tail(bytes)[i] = bytes[i + 1]
  OBVIOUS
<1>3. life \notin {"none", "unconnected", "closed"}
  BY DEF MarkerInPlace
<1>4. \A i, j \in DOMAIN bytes : bytes[i] = Marker /\ bytes[j] = Marker => i = j
  BY DEF MarkerInPlace
<1>5. \A i, j \in DOMAIN Tail(bytes) :
         Tail(bytes)[i] = Marker /\ Tail(bytes)[j] = Marker => i = j
  BY <1>2, <1>4
<1>6. reader = "abridged" => NoMarkerIn(Tail(bytes))
  BY <1>2 DEF MarkerInPlace, NoMarkerIn
<1>7. Head(bytes) = Marker => NoMarkerIn(Tail(bytes))
  BY <1>1, <1>2, <1>4 DEF NoMarkerIn
<1> QED
  BY <1>3, <1>5, <1>6, <1>7 DEF MarkerInPlace

\* A stream that ended has no marker to misplace.
LEMMA MarkerEmpty ==
  ASSUME NEW life, NEW reader, life = "connecting" => reader = "new"
  PROVE  MarkerInPlace(life, <<>>, reader)
  BY DEF MarkerInPlace, NoMarkerIn

\* Closing a connecting or connected socket leaves what was written to it.
LEMMA MarkerClosing ==
  ASSUME NEW life \in {"connecting", "connected"}, NEW bytes, NEW reader,
         MarkerInPlace(life, bytes, reader)
  PROVE  MarkerInPlace("closing", bytes, reader)
  BY DEF MarkerInPlace

\* A message is no marker.
LEMMA MarkerSend ==
  ASSUME TypeOK, MarkerOpensStream, NEW s \in Sessions, NEW salt, NEW useful, NEW item,
         \/ WriteMessage(s, salt, useful, item)
         \/ toServer' = toServer,
         UNCHANGED <<link, stream>>
  PROVE  MarkerOpensStream'
<1>1. CASE toServer' = toServer
  BY <1>1 DEF MarkerOpensStream, Marker
<1>2. CASE WriteMessage(s, salt, useful, item) /\ toServer' # toServer
  <2>1. PICK m : m # Marker /\ toServer' = [toServer EXCEPT ![s] = Append(@, m)]
    BY <1>2, SendingWire
  <2>2. link[s] \in {"connecting", "connected", "closing"}
    BY <1>2, SendingWire
  <2>3. toServer \in [Sessions -> Seq(Message \cup {Marker})]
    BY TypesOfWires
  <2>4. \A x \in Sessions : toServer'[x] = IF x = s THEN Append(toServer[s], m) ELSE toServer[x]
    BY <2>1, <2>3
  <2>5. MarkerInPlace(link[s], Append(toServer[s], m), stream[s])
    BY <2>1, <2>2, <2>3, MarkerAppendMessage DEF MarkerOpensStream
  <2>6. \A x \in Sessions : MarkerInPlace(link[x], toServer'[x], stream[x])
    BY <2>4, <2>5 DEF MarkerOpensStream
  <2> QED
    BY <2>6 DEF MarkerOpensStream
<1> QED
  BY <1>1, <1>2

\* One session's socket, bytes or reader change as the cases above allow.
LEMMA MarkerOneSession ==
  ASSUME MarkerOpensStream, NEW s \in Sessions,
         MarkerInPlace(link'[s], toServer'[s], stream'[s]),
         \A x \in Sessions \ {s} : /\ link'[x] = link[x] /\ toServer'[x] = toServer[x]
                                 /\ stream'[x] = stream[x]
  PROVE  MarkerOpensStream'
<1>1. \A x \in Sessions : MarkerInPlace(link'[x], toServer'[x], stream'[x])
  BY DEF MarkerOpensStream
<1> QED
  BY <1>1 DEF MarkerOpensStream

\* The life of a session keeps the marker in place.
LEMMA MarkerLife ==
  ASSUME TypeOK, MarkerOpensStream, NEW s \in Sessions,
         Opens(s) \/ Connects(s) \/ Closes(s) \/ Loses(s)
  PROVE  MarkerOpensStream'
<1>1. /\ link \in [Sessions -> LinkStates]
      /\ toServer \in [Sessions -> Seq(Message \cup {Marker})]
      /\ stream \in [Sessions -> {"new", "abridged", "noise"}]
  BY TypesOfWires DEF TypeOK
<1>2. MarkerInPlace(link[s], toServer[s], stream[s])
  BY DEF MarkerOpensStream
<1>3. ASSUME Delete(s), stream' = stream
      PROVE  MarkerOpensStream'
  <2>1. link'[s] = "closed" /\ toServer'[s] = <<>>
    BY <1>1, <1>3 DEF Delete
  <2>2. MarkerInPlace(link'[s], toServer'[s], stream'[s])
    BY <2>1, MarkerEmpty
  <2> QED
    BY <1>1, <1>3, <2>2, MarkerOneSession DEF Delete
<1>4. CASE NewSession(s) /\ UNCHANGED envVars
  <2>1. link[s] = "none" /\ link' = [link EXCEPT ![s] = "unconnected"]
        /\ toServer' = toServer /\ stream' = stream
    BY <1>4 DEF NewSession, envVars, serverVars
  <2>2. toServer[s] = <<>>
    BY <1>2, <2>1 DEF MarkerInPlace
  <2>3. MarkerInPlace(link'[s], toServer'[s], stream'[s])
    BY <1>1, <2>1, <2>2, MarkerEmpty
  <2> QED
    BY <1>1, <2>1, <2>3, MarkerOneSession
<1>5. CASE OnConnected(s) /\ UNCHANGED envVars
  <2>1. /\ link[s] = "connecting" /\ link' = [link EXCEPT ![s] = "connected"]
        /\ toServer' = [toServer EXCEPT ![s] = Append(@, Marker)] /\ stream' = stream
    BY <1>5 DEF OnConnected, envVars, serverVars
  <2>2. MarkerInPlace("connected", Append(toServer[s], Marker), stream[s])
    BY <1>1, <1>2, <2>1, MarkerAppendMarker
  <2>3. link'[s] = "connected" /\ toServer'[s] = Append(toServer[s], Marker)
    BY <1>1, <2>1
  <2> QED
    BY <1>1, <2>1, <2>2, <2>3, MarkerOneSession
<1>6. CASE Connects(s)
  <2>1. /\ link' = [link EXCEPT ![s] = "connecting"]
        /\ toServer' = [toServer EXCEPT ![s] = <<>>]
        /\ stream' = [stream EXCEPT ![s] = "new"]
    BY <1>6 DEF Connects, ConnectToServer, StreamEnds
  <2>2. MarkerInPlace(link'[s], toServer'[s], stream'[s])
    BY <1>1, <2>1, MarkerEmpty
  <2> QED
    BY <1>1, <2>1, <2>2, MarkerOneSession
<1>7. CASE Close(s) /\ UNCHANGED envVars
  <2>1. stream' = stream
    BY <1>7 DEF envVars, serverVars
  <2>2. CASE Delete(s)
    BY <1>3, <2>1, <2>2
  <2>3. CASE /\ link[s] \in {"connecting", "connected"}
             /\ link' = [link EXCEPT ![s] = "closing"] /\ toServer' = toServer
    <3>1. MarkerInPlace("closing", toServer[s], stream[s])
      BY <1>2, <2>3, MarkerClosing
    <3>2. link'[s] = "closing"
      BY <1>1, <2>3
    <3> QED
      BY <1>1, <2>1, <2>3, <3>1, <3>2, MarkerOneSession
  <2> QED
    BY <1>7, <2>2, <2>3 DEF Close
<1>8. CASE OnDisconnected(s) /\ UNCHANGED envVars
  BY <1>3, <1>8 DEF OnDisconnected, envVars, serverVars
<1>9. CASE Loses(s)
  <2>1. /\ link' = [link EXCEPT ![s] = "unconnected"]
        /\ toServer' = [toServer EXCEPT ![s] = <<>>] /\ stream' = stream
    BY <1>9 DEF Loses, ConnectionLost, serverVars
  <2>2. MarkerInPlace(link'[s], toServer'[s], stream'[s])
    BY <1>1, <2>1, MarkerEmpty
  <2> QED
    BY <1>1, <2>1, <2>2, MarkerOneSession
<1> QED
  BY <1>4, <1>5, <1>6, <1>7, <1>8, <1>9 DEF Opens, Closes

\* The server's reading keeps the marker in place.
LEMMA MarkerRead ==
  ASSUME TypeOK, MarkerOpensStream, NEW s \in Sessions,
         \/ ServerOpensStream(s)
         \/ ServerIgnores(s)
         \/ ServerRejects(s)
         \/ ServerAccepts(s)
  PROVE  MarkerOpensStream'
<1>1. /\ toServer \in [Sessions -> Seq(Message \cup {Marker})]
      /\ stream \in [Sessions -> {"new", "abridged", "noise"}]
  BY TypesOfWires DEF TypeOK
<1>2. Reads(s) /\ UNCHANGED ClientState
  BY DEF ServerOpensStream, ServerIgnores, ServerRejects, ServerAccepts
<1>3. /\ link' = link /\ link[s] # "connecting" /\ toServer[s] # <<>>
      /\ toServer' = [toServer EXCEPT ![s] = Tail(@)]
  BY <1>2 DEF Reads, ClientState
<1>4. MarkerInPlace(link[s], toServer[s], stream[s])
  BY DEF MarkerOpensStream
<1>5. \/ stream' = stream
      \/ stream' = [stream EXCEPT ![s] = IF Head(toServer[s]) = Marker THEN "abridged"
                                                                      ELSE "noise"]
  BY DEF ServerOpensStream, ServerIgnores, ServerRejects, ServerAccepts, serverVars
<1>6. /\ MarkerInPlace(link[s], Tail(toServer[s]), stream[s])
      /\ Head(toServer[s]) = Marker => MarkerInPlace(link[s], Tail(toServer[s]), "abridged")
      /\ MarkerInPlace(link[s], Tail(toServer[s]), "noise")
  BY <1>1, <1>3, <1>4, MarkerTail
<1>7. toServer'[s] = Tail(toServer[s]) /\ \A x \in Sessions \ {s} : toServer'[x] = toServer[x]
  BY <1>1, <1>3
<1>8. CASE stream' = stream
  BY <1>3, <1>6, <1>7, <1>8, MarkerOneSession
<1>9. CASE stream' = [stream EXCEPT ![s] = IF Head(toServer[s]) = Marker THEN "abridged"
                                                                       ELSE "noise"]
  <2>1. /\ stream'[s] = IF Head(toServer[s]) = Marker THEN "abridged" ELSE "noise"
        /\ \A x \in Sessions \ {s} : stream'[x] = stream[x]
    BY <1>1, <1>9
  <2>2. MarkerInPlace(link'[s], toServer'[s], stream'[s])
    BY <1>3, <1>6, <1>7, <2>1
  <2> QED
    BY <1>3, <1>7, <2>1, <2>2, MarkerOneSession
<1> QED
  BY <1>5, <1>8, <1>9

\* What the client writes keeps the marker in place.
LEMMA MarkerWork ==
  ASSUME TypeOK, MarkerOpensStream, NEW s \in Sessions,
         Works(s) \/ \E q \in Queries : Sends(s, q)
  PROVE  MarkerOpensStream'
<1>1. UNCHANGED <<link, stream>>
  <2>1. CASE Works(s)
    BY <2>1 DEF Works, RpcExecuteAnswer, WorkMsgsAck, WorkRpcResult, WorkBadServerSalt,
                WorkBadMsgNotification, WorkNewSessionCreated, WorkOther, envVars, serverVars,
                connVars
  <2>2. CASE \E q \in Queries : Sends(s, q)
    BY <2>2 DEF Sends, SendQuery, envVars, serverVars
  <2> QED
    BY <2>1, <2>2
<1>2. ASSUME NEW q, NEW table, ComposeQuery(s, q, table)
      PROVE  \/ toServer' = toServer
             \/ \E salt, useful, item : WriteMessage(s, salt, useful, item)
  BY <1>2 DEF ComposeQuery
<1>3. \/ toServer' = toServer
      \/ \E salt, useful, item : WriteMessage(s, salt, useful, item)
  <2>1. CASE WorkMsgsAck(s) \/ WorkRpcResult(s) \/ WorkNewSessionCreated(s) \/ WorkOther(s)
    BY <2>1 DEF WorkMsgsAck, WorkRpcResult, WorkNewSessionCreated, WorkOther, Crash, connVars
  <2>2. CASE WorkBadServerSalt(s)
    BY <2>2 DEF WorkBadServerSalt, Crash, ResendQuery
  <2>3. CASE WorkBadMsgNotification(s)
    BY <1>2, <2>3 DEF WorkBadMsgNotification, Crash
  <2>4. CASE \E q \in Queries : Sends(s, q)
    BY <1>2, <2>4 DEF Sends, SendQuery
  <2> QED
    BY <2>1, <2>2, <2>3, <2>4 DEF Works, RpcExecuteAnswer
<1> QED
  BY <1>1, <1>3, MarkerSend

\* Every step keeps the marker in place.
LEMMA MarkerNext ==
  ASSUME TypeOK, MarkerOpensStream, [Next]_vars
  PROVE  MarkerOpensStream'
<1>1. ASSUME UNCHANGED <<link, toServer, stream>> PROVE MarkerOpensStream'
  BY <1>1 DEF MarkerOpensStream
<1>2. CASE UNCHANGED vars
  BY <1>1, <1>2 DEF vars, sessionVars, envVars, serverVars
<1>3. ASSUME NEW s \in Sessions, Opens(s) \/ Connects(s) \/ Closes(s) \/ Loses(s)
      PROVE  MarkerOpensStream'
  BY <1>3, MarkerLife
<1>4. ASSUME NEW s \in Sessions, Handles(s) \/ Drops(s)
      PROVE  UNCHANGED <<link, toServer, stream>>
  BY <1>4 DEF Handles, Drops, ProcessRpcAnswer, connVars, envVars, serverVars
<1>5. ASSUME NEW s \in Sessions, Works(s) \/ \E q \in Queries : Sends(s, q)
      PROVE  MarkerOpensStream'
  BY <1>5, MarkerWork
<1>6. ASSUME NEW s \in Sessions, \/ ServerOpensStream(s) \/ ServerIgnores(s)
                                \/ ServerRejects(s) \/ ServerAccepts(s)
      PROVE  MarkerOpensStream'
  BY <1>6, MarkerRead
<1>7. ASSUME NEW s \in Sessions, \/ ServerAcks(s) \/ ServerAnswers(s)
                                \/ ServerRepeats(s) \/ ServerPushes(s)
      PROVE  UNCHANGED <<link, toServer, stream>>
  BY <1>7 DEF ServerAcks, ServerAnswers, ServerRepeats, ServerPushes, ClientState, serverVars
<1>8. ASSUME NEW q \in Queries, Times(q)
      PROVE  UNCHANGED <<link, toServer, stream>>
  BY <1>8 DEF Times, TimerEvent, connVars, envVars, serverVars
<1>9. ASSUME Tick \/ (\E k \in Skews : AdjustClock(k)) \/ (\E d \in DCs : ServerChangesSalt(d))
      PROVE  UNCHANGED <<link, toServer, stream>>
  BY <1>9 DEF Tick, AdjustClock, ServerChangesSalt, SessionUnclocked, sessionVars, serverVars
<1> QED
  BY <1>1, <1>2, <1>3, <1>4, <1>5, <1>6, <1>7, <1>8, <1>9 DEF Next, Server

\* No marker is written in the initial states.
LEMMA MarkerInit == Init => MarkerOpensStream
<1> SUFFICES ASSUME Init, NEW s \in Sessions
             PROVE  MarkerInPlace(link[s], toServer[s], stream[s])
  BY DEF MarkerOpensStream
<1>1. link[s] = "none" /\ toServer[s] = <<>>
  BY DEF Init, SessionInit
<1> QED
  BY <1>1, MarkerEmpty

---------------------------------------------------------------------------
(* The invariant and what it implies. *)

\* The inductive invariant is the types, the books and the marker.
LEMMA Splits == IInv <=> TypeOK /\ BookInv /\ MarkerOpensStream
  BY DEF IInv, BookInv

\* IInv, from which the properties below follow, holds in every reachable state.
THEOREM Inductive == Spec => []IInv
<1>1. Init => IInv
  BY TypeInit, BookInit, MarkerInit, Splits
<1>2. IInv /\ [Next]_vars => IInv'
  <2> SUFFICES ASSUME IInv, [Next]_vars PROVE IInv'
    OBVIOUS
  <2>1. TypeOK /\ BookInv /\ MarkerOpensStream
    BY Splits
  <2>2. TypeOK' /\ BookInv' /\ MarkerOpensStream'
    BY <2>1, TypeNext, BookNext, MarkerNext
  <2> QED
    BY <2>2 DEF IInv, BookInv
<1> QED
  BY <1>1, <1>2, PTL DEF Spec

\* Every variable keeps its type; in particular no id the server refuses and no
\* clock setting makes the client draw a message id that is no number.
THEOREM TypeCorrect == Spec => []TypeOK
<1>1. IInv => TypeOK
  BY DEF IInv
<1> QED
  BY <1>1, Inductive, PTL

\* No two messages carry the same id, whichever sessions of the process sent
\* them and however often the clock was set back (generateNextMsgId).
THEOREM UniqueIds == Spec => []MsgIdsUnique
<1>1. IInv => MsgIdsUnique
  BY DEF IInv
<1> QED
  BY <1>1, Inductive, PTL

\* A query sent again in a container keeps the id and the seqNo it was first
\* sent with (resendQuery).
THEOREM ResentUnchanged == Spec => []ResendKeepsIdentity
<1>1. IInv => ResendKeepsIdentity
  BY DEF IInv
<1> QED
  BY <1>1, Inductive, PTL

\* An entry of m_pendingQueries belongs to its session, stands under the id its
\* Query has, and has had no answer.
THEOREM TablesConsistent == Spec => []PendingConsistent
<1>1. IInv => PendingConsistent
  BY DEF IInv
<1> QED
  BY <1>1, Inductive, PTL

\* An entry of m_pendingQueries stands under an id its query was sent under, or under
\* NoMsgId because encryptSendMessage refused it.
THEOREM EntriesAreSent == Spec => []EntriesWereSent
<1>1. IInv => EntriesWereSent
  BY DEF IInv
<1> QED
  BY <1>1, Inductive, PTL

\* A query that is not answered stays in the table of its living session.
THEOREM NothingForgotten == Spec => []NoQueryForgotten
<1>1. IInv => NoQueryForgotten
  BY DEF IInv
<1> QED
  BY <1>1, Inductive, PTL

\* A step after the answer moves nothing of the query.
LEMMA FinalStep ==
  ASSUME IInv, IInv', [Next]_vars, NEW q \in Queries, answers[q] # <<>>
  PROVE  /\ answers'[q] = answers[q] /\ msgIdOf'[q] = msgIdOf[q]
         /\ \A s \in Sessions : \A id \in DOMAIN pending'[s] : pending'[s][id] # q
<1>1. TypeOK /\ SessionTypeOK /\ BookInv /\ PendingConsistent'
  BY Splits DEF IInv, TypeOK
<1>2. \A s \in Sessions : \A id \in DOMAIN pending[s] : pending[s][id] # q
  BY <1>1 DEF BookInv, PendingConsistent
<1>3. answers'[q] = answers[q] /\ msgIdOf'[q] = msgIdOf[q]
  <2>1. CASE UNCHANGED bookVars
    BY <2>1 DEF bookVars
  <2>2. ASSUME NEW s \in Sessions, Deletes(s)
        PROVE  answers'[q] = answers[q] /\ msgIdOf'[q] = msgIdOf[q]
    BY <2>2 DEF Deletes
  <2>3. ASSUME NEW s \in Sessions, WorkRpcResult(s)
        PROVE  answers'[q] = answers[q] /\ msgIdOf'[q] = msgIdOf[q]
    BY <1>1, <1>2, <2>3, EntryType DEF WorkRpcResult, SessionTypeOK
  <2>4. ASSUME NEW s \in Sessions, WorkBadServerSalt(s)
        PROVE  answers'[q] = answers[q] /\ msgIdOf'[q] = msgIdOf[q]
    BY <2>4 DEF WorkBadServerSalt, Crash
  <2>5. ASSUME NEW s \in Sessions, NEW p \in Queries, NEW table, IsTable(table),
               ComposeQuery(s, p, table), p # q
        PROVE  msgIdOf'[q] = msgIdOf[q]
    <3>1. PICK id : msgIdOf' = [msgIdOf EXCEPT ![p] = id]
      BY <1>1, <2>5, Composed
    <3> QED
      BY <1>1, <2>5, <3>1 DEF SessionTypeOK
  <2>6. ASSUME NEW s \in Sessions, WorkBadMsgNotification(s)
        PROVE  answers'[q] = answers[q] /\ msgIdOf'[q] = msgIdOf[q]
    <3>1. answers' = answers
      BY <2>6 DEF WorkBadMsgNotification
    <3>2. CASE Crash(s)
      BY <3>1, <3>2 DEF Crash
    <3>3. CASE /\ Current(s).id \in DOMAIN pending[s]
               /\ ComposeQuery(s, pending[s][Current(s).id], Without(pending[s], Current(s).id))
      <4>1. pending[s][Current(s).id] \in Queries /\ pending[s][Current(s).id] # q
        BY <1>1, <1>2, <3>3, EntryType
      <4>2. IsTable(Without(pending[s], Current(s).id))
        BY <1>1, WithoutEntry DEF SessionTypeOK
      <4> QED
        BY <2>5, <3>1, <3>3, <4>1, <4>2
    <3> QED
      BY <2>6, <3>2, <3>3 DEF WorkBadMsgNotification
  <2>7. ASSUME NEW s \in Sessions, NEW p \in Queries, SendQuery(s, p)
        PROVE  answers'[q] = answers[q] /\ msgIdOf'[q] = msgIdOf[q]
    <3>1. /\ home[p] = NoSession /\ answers' = answers
          /\ ComposeQuery(s, p, pending[s]) /\ IsTable(pending[s])
      BY <1>1, <2>7 DEF SendQuery, SessionTypeOK
    <3>2. p # q
      BY <1>1, <3>1 DEF BookInv, QueriesAtHome
    <3> QED
      BY <2>5, <3>1, <3>2
  <2> QED
    BY <2>1, <2>2, <2>3, <2>4, <2>6, <2>7, BookSteps
<1>4. \A s \in Sessions : \A id \in DOMAIN pending'[s] : pending'[s][id] # q
  BY <1>1, <1>3 DEF PendingConsistent
<1> QED
  BY <1>3, <1>4

\* An answered query is never touched again: not sent under a new id, not entered
\* in a table, not answered once more.
THEOREM Final == Spec => AnswerIsFinal
<1>1. IInv /\ IInv' /\ [Next]_vars =>
        [\A q \in Queries : answers[q] # <<>> =>
           /\ answers'[q] = answers[q] /\ msgIdOf'[q] = msgIdOf[q]
           /\ \A s \in Sessions : \A id \in DOMAIN pending'[s] : pending'[s][id] # q]_sessionVars
  BY FinalStep
<1> QED
  BY <1>1, Inductive, PTL DEF Spec, AnswerIsFinal

---------------------------------------------------------------------------
(* The order of seqNos, on top of the inductive invariant: m_seqNo is above *)
(* every seqNo its session has sent, as m_clientLastMsgId is above every id.*)

SeqDrawn == \A m \in sent : m.seqNo < seqNo[m.sess]

\* The variables only rpcSendMessage changes.
wireVars == <<sent, seqNo, clientLastMsgId>>
\* rpcSendMessage was called.
SendsMessage ==
  \E s \in Sessions, useful \in {0, 1} : \E salt, item : WriteMessage(s, salt, useful, item)

\* Composing a query sends one message, or none when the query is too large.
LEMMA ComposeSends ==
  ASSUME NEW s \in Sessions, NEW q, NEW table, ComposeQuery(s, q, table)
  PROVE  UNCHANGED wireVars \/ SendsMessage
<1>1. CASE q \in Oversized
  BY <1>1 DEF ComposeQuery, wireVars, idVars
<1>2. CASE q \notin Oversized
  BY <1>2 DEF ComposeQuery, SendsMessage
<1> QED
  BY <1>1, <1>2

\* Every step sends one message or leaves ids and seqNos alone.
LEMMA WireSteps ==
  ASSUME [Next]_vars
  PROVE  UNCHANGED wireVars \/ SendsMessage
<1>1. CASE UNCHANGED bookVars
  BY <1>1 DEF bookVars, wireVars
<1>2. ASSUME NEW s \in Sessions, Deletes(s) \/ WorkRpcResult(s)
      PROVE  UNCHANGED wireVars
  BY <1>2 DEF Deletes, WorkRpcResult, idVars, wireVars
<1>3. ASSUME NEW s \in Sessions, Crash(s)
      PROVE  UNCHANGED wireVars
  BY <1>3 DEF Crash, idVars, wireVars
<1>4. ASSUME NEW s \in Sessions, WorkBadServerSalt(s)
      PROVE  UNCHANGED wireVars \/ SendsMessage
  BY <1>3, <1>4 DEF WorkBadServerSalt, ResendQuery, SendsMessage, idVars, wireVars
<1>5. ASSUME NEW s \in Sessions, WorkBadMsgNotification(s)
      PROVE  UNCHANGED wireVars \/ SendsMessage
  BY <1>3, <1>5, ComposeSends DEF WorkBadMsgNotification
<1>6. ASSUME NEW s \in Sessions, NEW q \in Queries, SendQuery(s, q)
      PROVE  UNCHANGED wireVars \/ SendsMessage
  BY <1>6, ComposeSends DEF SendQuery
<1> QED
  BY <1>1, <1>2, <1>4, <1>5, <1>6, BookSteps

\* A message sent is above the others of its session in both orders.
LEMMA SeqSend ==
  ASSUME TypeOK, IdsDrawn, SeqDrawn, SeqFollowsId, SendsMessage
  PROVE  SeqDrawn' /\ SeqFollowsId'
<1>0. PICK s \in Sessions, useful \in {0, 1} :
        \E salt, item : WriteMessage(s, salt, useful, item)
  BY DEF SendsMessage
<1>1. PICK salt, item : WriteMessage(s, salt, useful, item)
  BY <1>0
<1> DEFINE m == [sess |-> s, salt |-> salt, msgId |-> NextMsgId(s),
                 seqNo |-> seqNo[s] + useful, item |-> item]
<1>2. sent' = sent \cup {m} /\ seqNo' = [seqNo EXCEPT ![s] = @ + 2]
  BY <1>1 DEF WriteMessage
<1>3. seqNo \in [Sessions -> Nat] /\ sent \subseteq Message /\ clientLastMsgId \in Nat
  BY DEF TypeOK, SessionTypeOK
<1>4. /\ m.sess = s /\ m.seqNo = seqNo[s] + useful
      /\ m.msgId \in Nat /\ m.msgId > clientLastMsgId
  BY NextMsgIdGrows DEF TypeOK
<1> HIDE DEF m
<1>5. \A n \in sent : /\ n.sess \in Sessions /\ n.msgId \in Nat /\ n.seqNo \in Nat
                      /\ n.msgId < m.msgId /\ n.seqNo < seqNo[n.sess]
  BY <1>3, <1>4 DEF Message, IdsDrawn, SeqDrawn
<1>6. \A x \in Sessions : seqNo'[x] = IF x = s THEN seqNo[s] + 2 ELSE seqNo[x]
  BY <1>2, <1>3
<1>7. SeqDrawn'
  <2> SUFFICES ASSUME NEW n \in sent' PROVE n.seqNo < seqNo'[n.sess]
    BY DEF SeqDrawn
  <2>1. CASE n \in sent
    BY <1>3, <1>5, <1>6, <2>1
  <2>2. CASE n = m
    BY <1>3, <1>4, <1>6, <2>2
  <2> QED
    BY <1>2, <2>1, <2>2
<1>8. SeqFollowsId'
  <2> SUFFICES ASSUME NEW n \in sent', NEW o \in sent', n.sess = o.sess, n.msgId < o.msgId
               PROVE  n.seqNo < o.seqNo
    BY DEF SeqFollowsId
  <2>1. CASE n \in sent /\ o \in sent
    BY <2>1 DEF SeqFollowsId
  <2>2. CASE n \in sent /\ o = m
    BY <1>3, <1>4, <1>5, <2>2
  <2>3. n # m
    BY <1>2, <1>4, <1>5
  <2> QED
    BY <1>2, <2>1, <2>2, <2>3
<1> QED
  BY <1>7, <1>8

\* In every session the seqNos rise with the message ids (rpcSendMessage), so the
\* server never sees them out of order.
THEOREM SeqOrdered == Spec => []SeqFollowsId
<1>1. Init => SeqDrawn /\ SeqFollowsId
  BY DEF Init, SessionInit, SeqDrawn, SeqFollowsId
<1>2. IInv /\ SeqDrawn /\ SeqFollowsId /\ [Next]_vars => SeqDrawn' /\ SeqFollowsId'
  <2> SUFFICES ASSUME IInv, SeqDrawn, SeqFollowsId, [Next]_vars
               PROVE  SeqDrawn' /\ SeqFollowsId'
    OBVIOUS
  <2>1. CASE UNCHANGED wireVars
    BY <2>1 DEF wireVars, SeqDrawn, SeqFollowsId
  <2>2. CASE SendsMessage
    BY <2>2, SeqSend DEF IInv
  <2> QED
    BY <2>1, <2>2, WireSteps
<1> QED
  BY <1>1, <1>2, Inductive, PTL DEF Spec
=============================================================================
