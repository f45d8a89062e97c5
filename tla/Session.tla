------------------------------ MODULE Session ------------------------------
(***************************************************************************)
(* The RPC layer of the client: src/src/core/session.cpp with the Query    *)
(* objects it keeps and the part of Connection that opens and closes its   *)
(* socket.  Every Session turns a query into an encrypted message with a   *)
(* fresh message id, keeps it in m_pendingQueries until its answer comes,  *)
(* and reacts to what the server says about earlier messages.              *)
(*                                                                         *)
(* The client is one thread with one event loop.  A message from the       *)
(* server is handled by ProcessRpcAnswer, which leaves the answers it      *)
(* carries (several when it is a container) in executing; the Work...      *)
(* actions then take them one by one, as the loop of workContainer does,   *)
(* and no other event is handled before executing is empty again.          *)
(*                                                                         *)
(* A message id is counted in units of 4 and a second holds IdsPerSecond   *)
(* of them (2^30 in the code), so that id \div IdsPerSecond is the code's  *)
(* msgId >> 32.  The encryption, and a server salt's 64 bits, are          *)
(* abstracted: a salt is the number of its generation.                     *)
(*                                                                         *)
(* A definition marked "Mistake" is a plausible bug of the code modelled by*)
(* the definition that follows it; no other definition uses it.            *)
(***************************************************************************)
EXTENDS Integers, Sequences

CONSTANTS
  Sessions,       \* the Session objects the program may create
  DCs,            \* the data centres
  DcOf,           \* the data centre each session talks to
  Queries,        \* the Query objects; each one is sent by one sendQuery
  Oversized,      \* the queries encryptSendMessage refuses (MAX_MESSAGE_INTS)
  Unresendable,   \* those whose container, six ints longer, it refuses
  SendStates,     \* link states in which the application sends queries
  ResendQueries,  \* Settings::resendQueries()
  IdsPerSecond,   \* message ids in one second
  Ahead,          \* a server date this far ahead of ours is refused (30 s)
  Behind,         \* a server date this far behind ours is refused (300 s)
  NoSession

ASSUME DcOfAssumption == DcOf \in [Sessions -> DCs]
ASSUME QueriesAssumption ==
  /\ Oversized \subseteq Unresendable /\ Unresendable \subseteq Queries
  /\ ResendQueries \in BOOLEAN /\ NoSession \notin Sessions
ASSUME TimeAssumption ==
  IdsPerSecond \in Nat \ {0} /\ Ahead \in Nat /\ Behind \in Nat

VARIABLES
  clientTime,       \* QDateTime::currentDateTime().toTime_t()
  dcSalt,           \* DC::serverSalt, shared by the sessions of a DC
  dcSync,           \* DC::timeSyncFactor, shared as well
  clientLastMsgId,  \* static Session::m_clientLastMsgId
  link,             \* the life of the object and of its socket
  sync,             \* m_timeSyncFactor, copied from the DC by the constructor
  seqNo,            \* m_seqNo
  pending,          \* m_pendingQueries: message id -> query
  executing,        \* answers of the current message still to be executed
  crashed,          \* a null Query has been dereferenced
  home,             \* the session a query was sent by
  msgIdOf, seqNoOf, acked,  \* the fields of a Query
  timer,            \* its timer: off, armed, or fired (timeout was emitted)
  answers,          \* what resultReceived / errorReceived reported for it
  toServer,         \* bytes written and not yet read by the server
  toClient,         \* messages of the server not yet handled
  sent              \* history: every message ever composed

connVars   == <<link, toServer>>
dcVars     == <<dcSalt, dcSync>>
idVars     == <<clientLastMsgId, seqNo>>
queryVars  == <<home, msgIdOf, seqNoOf, acked, timer, answers>>
sessionVars == <<clientTime, dcSalt, dcSync, clientLastMsgId, link, sync, seqNo,
                 pending, executing, crashed, home, msgIdOf, seqNoOf, acked,
                 timer, answers, toServer, toClient, sent>>

LinkStates == {"none", "unconnected", "connecting", "connected", "closing", "closed"}
Outcomes   == {"result", "error"}
Ops == Outcomes \cup {"ack", "badSalt", "badMsg", "newSession", "update", "notice"}

\* encryptSendMessage's "nothing was sent".
NoMsgId == -1
\* The byte that opens an abridged stream.
Marker == [sess |-> NoSession]

\* An answer inside a message of the server: id is the message it is about, time
\* and salt the server's when it was written.
Answer == [op : Ops, id : Nat, salt : Nat, time : Nat]
\* A query on the wire, and the message around it: for a query sent alone the
\* item has the message's own id and seqNo, for a resent one those of the first
\* transmission.
Item    == [msgId : Nat, seqNo : Nat, query : Queries]
Message == [sess : Sessions, salt : Nat, msgId : Nat, seqNo : Nat, item : Item]

---------------------------------------------------------------------------
(* QMap::insert, QMap::remove and the map with no entry. *)
IsTable(table) ==
  /\ DOMAIN table \subseteq Nat \cup {NoMsgId}
  /\ table \in [DOMAIN table -> Queries]
EmptyTable == [id \in {} |-> CHOOSE q \in Queries : TRUE]
Insert(table, id, q) ==
  [x \in DOMAIN table \cup {id} |-> IF x = id THEN q ELSE table[x]]
Without(table, id) == [x \in DOMAIN table \ {id} |-> table[x]]

Running == ~crashed
\* The event loop is free: no message is being executed.
Idle    == Running /\ \A s \in Sessions : executing[s] = <<>>
Alive(s) == link[s] \notin {"none", "closed"}

\* A socket takes bytes from connectToHost on; without one write() returns -1.
Writable(s) == link[s] \in {"connecting", "connected", "closing"}

\* Mistake: the id is the clock's, whatever was drawn before.
ClockMsgId(s) == (clientTime - sync[s]) * IdsPerSecond
NextMsgId(s) ==
  LET id == (clientTime - sync[s]) * IdsPerSecond
  IN  IF id <= clientLastMsgId THEN clientLastMsgId + 1 ELSE id

\* Mistake: a container goes under the seqNo of the query in it.
WriteUnderOldSeqNo(s, salt, useful, item) ==
  LET m == [sess |-> s, salt |-> salt, msgId |-> NextMsgId(s),
            seqNo |-> item.seqNo, item |-> item]
  IN  /\ clientLastMsgId' = NextMsgId(s)
      /\ seqNo' = [seqNo EXCEPT ![s] = @ + 2]
      /\ sent' = sent \cup {m}
      /\ toServer' = IF Writable(s) THEN [toServer EXCEPT ![s] = Append(@, m)]
                                    ELSE toServer

\* initEncryptedMessage and rpcSendMessage: m_seqNo is even, so | 1 adds useful.
WriteMessage(s, salt, useful, item) ==
  LET m == [sess |-> s, salt |-> salt, msgId |-> NextMsgId(s),
            seqNo |-> seqNo[s] + useful, item |-> item]
  IN  /\ clientLastMsgId' = NextMsgId(s)
      /\ seqNo' = [seqNo EXCEPT ![s] = @ + 2]
      /\ sent' = sent \cup {m}
      /\ toServer' = IF Writable(s) THEN [toServer EXCEPT ![s] = Append(@, m)]
                                    ELSE toServer

\* Mistake: the seqNo noted is the one after next.
EnterNextSeqNo(s, q, table, id, seq) ==
  /\ msgIdOf' = [msgIdOf EXCEPT ![q] = id]
  /\ seqNoOf' = [seqNoOf EXCEPT ![q] = seq]
  /\ acked' = [acked EXCEPT ![q] = FALSE]
  /\ pending' = [pending EXCEPT ![s] = Insert(table, id, q)]

\* What sendQuery and recomposeAndSendQuery share: send q, note the id and the
\* seqNo it got, and enter it in the table under that id.  encryptSendMessage
\* returns before it draws an id when the query is too large.
EnterQuery(s, q, table, id, seq) ==
  /\ msgIdOf' = [msgIdOf EXCEPT ![q] = id]
  /\ seqNoOf' = [seqNoOf EXCEPT ![q] = seq - 1]
  /\ acked' = [acked EXCEPT ![q] = FALSE]
  /\ pending' = [pending EXCEPT ![s] = Insert(table, id, q)]

\* Mistake: a query that is not sent is entered under the last id drawn.
ComposeUnderLastId(s, q, table) ==
  \/ /\ q \notin Oversized
     /\ WriteMessage(s, dcSalt[DcOf[s]], 1,
          [msgId |-> NextMsgId(s), seqNo |-> seqNo[s] + 1, query |-> q])
     /\ EnterQuery(s, q, table, NextMsgId(s), seqNo[s] + 2)
  \/ /\ q \in Oversized
     /\ EnterQuery(s, q, table, clientLastMsgId, seqNo[s])
     /\ UNCHANGED <<idVars, sent, toServer>>

ComposeQuery(s, q, table) ==
  \/ /\ q \notin Oversized
     /\ WriteMessage(s, dcSalt[DcOf[s]], 1,
          [msgId |-> NextMsgId(s), seqNo |-> seqNo[s] + 1, query |-> q])
     /\ EnterQuery(s, q, table, NextMsgId(s), seqNo[s] + 2)
  \/ /\ q \in Oversized
     /\ EnterQuery(s, q, table, NoMsgId, seqNo[s])
     /\ UNCHANGED <<idVars, sent, toServer>>

---------------------------------------------------------------------------
(* The life of a session and its socket. *)

\* Session::Session: copies the DC's time difference, once.
NewSession(s) ==
  /\ Idle /\ link[s] = "none"
  /\ link' = [link EXCEPT ![s] = "unconnected"]
  /\ sync' = [sync EXCEPT ![s] = dcSync[DcOf[s]]]
  /\ UNCHANGED <<clientTime, dcVars, idVars, pending, executing, crashed,
                 queryVars, toServer, toClient, sent>>

\* Connection::connectToServer; connectToHost starts with empty buffers.
ConnectToServer(s) ==
  /\ Idle /\ link[s] = "unconnected"
  /\ link' = [link EXCEPT ![s] = "connecting"]
  /\ toServer' = [toServer EXCEPT ![s] = <<>>]
  /\ UNCHANGED <<clientTime, dcVars, idVars, sync, pending, executing, crashed,
                 queryVars, toClient, sent>>

\* Connection::onConnected: the marker goes out behind whatever was written
\* while the socket was connecting; sessionReady is emitted.
OnConnected(s) ==
  /\ Idle /\ link[s] = "connecting"
  /\ link' = [link EXCEPT ![s] = "connected"]
  /\ toServer' = [toServer EXCEPT ![s] = Append(@, Marker)]
  /\ UNCHANGED <<clientTime, dcVars, idVars, sync, pending, executing, crashed,
                 queryVars, toClient, sent>>

\* Dropping a Session drops its queries and the events queued for it.
Delete(s) ==
  /\ link' = [link EXCEPT ![s] = "closed"]
  /\ pending' = [pending EXCEPT ![s] = EmptyTable]
  /\ toClient' = [toClient EXCEPT ![s] = <<>>]
  /\ toServer' = [toServer EXCEPT ![s] = <<>>]
  /\ UNCHANGED <<clientTime, dcVars, idVars, sync, executing, crashed, queryVars, sent>>

\* Session::close: without a connection sessionClosed is emitted at once and
\* SessionManager::onSessionClosed deletes the object, otherwise when the
\* socket reports disconnected().
Close(s) ==
  /\ Idle
  /\ \/ link[s] = "unconnected" /\ Delete(s)
     \/ /\ link[s] \in {"connecting", "connected"}
        /\ link' = [link EXCEPT ![s] = "closing"]
        /\ UNCHANGED <<clientTime, dcVars, idVars, sync, pending, executing, crashed,
                       queryVars, toServer, toClient, sent>>

\* Session::onDisconnected, connected by close() only.
OnDisconnected(s) == Idle /\ link[s] = "closing" /\ Delete(s)

\* The peer or the network ends the connection and nobody is told: error() is
\* not connected to onError.  The n messages already read are queued events and
\* will still be handled.
ConnectionLost(s, n) ==
  /\ Idle /\ link[s] \in {"connecting", "connected"}
  /\ n \in 0..Len(toClient[s])
  /\ link' = [link EXCEPT ![s] = "unconnected"]
  /\ toServer' = [toServer EXCEPT ![s] = <<>>]
  /\ toClient' = [toClient EXCEPT ![s] = SubSeq(@, 1, n)]
  /\ UNCHANGED <<clientTime, dcVars, idVars, sync, pending, executing, crashed,
                 queryVars, sent>>

---------------------------------------------------------------------------
(* Sending. *)

\* Session::sendQuery, called by the Api in an event of its own or by a slot
\* that one of the answers being executed triggers.
SendQuery(s, q) ==
  /\ Running /\ Alive(s) /\ link[s] \in SendStates /\ home[q] = NoSession
  /\ ComposeQuery(s, q, pending[s])
  /\ home' = [home EXCEPT ![q] = s]
  /\ timer' = [timer EXCEPT ![q] = IF ResendQueries THEN "armed" ELSE "off"]
  /\ UNCHANGED <<clientTime, dcVars, link, sync, executing, crashed, answers, toClient>>

\* Mistake: a query that was not acknowledged in time is composed anew.
TimerRecomposes(q) ==
  /\ Idle /\ timer[q] # "off"
  /\ home[q] \in Sessions /\ Alive(home[q])
  /\ timer' = [timer EXCEPT ![q] = IF acked[q] THEN "off" ELSE "fired"]
  /\ \/ /\ ~acked[q] /\ timer[q] = "armed"
        /\ ComposeQuery(home[q], q, Without(pending[home[q]], msgIdOf[q]))
     \/ acked[q] /\ UNCHANGED <<msgIdOf, seqNoOf, acked, pending, idVars, sent, toServer>>
  /\ UNCHANGED <<clientTime, dcVars, link, sync, executing, crashed, home, answers, toClient>>

\* Query::timerEvent: timeout() is emitted to nobody, or the timer is killed.
TimerEvent(q) ==
  /\ Idle /\ timer[q] # "off"
  /\ home[q] \in Sessions /\ Alive(home[q])
  /\ timer' = [timer EXCEPT ![q] = IF acked[q] THEN "off" ELSE "fired"]
  /\ UNCHANGED <<clientTime, dcVars, connVars, idVars, sync, pending, executing, crashed,
                 home, msgIdOf, seqNoOf, acked, answers, toClient, sent>>

---------------------------------------------------------------------------
(* Receiving. *)

\* processRpcMessage's test of the date of a message, with the DC's difference.
DateAccepted(s, serverTime) ==
  LET local == clientTime - dcSync[DcOf[s]]
  IN  local > serverTime - Ahead /\ local < serverTime + Behind

\* Session::processRpcAnswer and processRpcMessage.  drop stands for the
\* uninitialised op: when peekIn finds no further byte in the socket, op is what
\* the stack holds, and a value in -999..-1 loses the message unread.
ProcessRpcAnswer(s, drop) ==
  /\ Idle /\ Alive(s) /\ toClient[s] # <<>>
  /\ toClient' = [toClient EXCEPT ![s] = Tail(@)]
  /\ LET m == Head(toClient[s]) IN
     \/ drop /\ UNCHANGED <<dcSalt, executing>>
     \/ /\ ~drop
        /\ dcSalt' = [dcSalt EXCEPT ![DcOf[s]] = Head(m).salt]
        /\ executing' = IF DateAccepted(s, Head(m).time)
                          THEN [executing EXCEPT ![s] = m] ELSE executing
  /\ UNCHANGED <<clientTime, dcSync, connVars, idVars, sync, pending, crashed,
                 queryVars, sent>>

\* The answer rpcExecuteAnswer dispatches on, and the step past it.
Executes(s, ops) == Running /\ executing[s] # <<>> /\ Head(executing[s]).op \in ops
Current(s) == Head(executing[s])
Executed(s) == executing' = [executing EXCEPT ![s] = Tail(@)]

\* A null Query is dereferenced: the process ends here.
Crash(s) ==
  /\ Current(s).id \notin DOMAIN pending[s]
  /\ crashed' = TRUE
  /\ UNCHANGED <<pending, acked, msgIdOf, seqNoOf, idVars, sent, toServer>>

\* Mistake: the acknowledgement is taken for the answer.
AckIsAnswer(s) ==
  /\ Executes(s, {"ack"}) /\ Current(s).id \in DOMAIN pending[s]
  /\ LET q == pending[s][Current(s).id] IN
     /\ acked' = [acked EXCEPT ![q] = TRUE]
     /\ answers' = [answers EXCEPT ![q] = Append(@, Current(s).op)]
  /\ Executed(s)
  /\ UNCHANGED <<clientTime, dcVars, connVars, idVars, sync, pending, crashed, home,
                 msgIdOf, seqNoOf, timer, toClient, sent>>

WorkMsgsAck(s) ==
  /\ Executes(s, {"ack"})
  /\ \/ Crash(s)
     \/ /\ Current(s).id \in DOMAIN pending[s]
        /\ acked' = [acked EXCEPT ![pending[s][Current(s).id]] = TRUE]
        /\ UNCHANGED <<pending, msgIdOf, seqNoOf, idVars, sent, toServer, crashed>>
  /\ Executed(s)
  /\ UNCHANGED <<clientTime, dcVars, link, sync, home, timer, answers, toClient>>

\* Mistake: the entry is looked up and not taken out.
ResultKeepsEntry(s) ==
  /\ Executes(s, Outcomes) /\ Current(s).id \in DOMAIN pending[s]
  /\ LET q == pending[s][Current(s).id] IN
     /\ acked' = [acked EXCEPT ![q] = TRUE]
     /\ answers' = [answers EXCEPT ![q] = Append(@, Current(s).op)]
  /\ Executed(s)
  /\ UNCHANGED <<clientTime, dcVars, connVars, idVars, sync, pending, crashed, home,
                 msgIdOf, seqNoOf, timer, toClient, sent>>

\* workRpcResult with queryOnResult and queryOnError: the entry is taken out and
\* the Api told; an answer to no pending query is passed over.
WorkRpcResult(s) ==
  /\ Executes(s, Outcomes)
  /\ LET id == Current(s).id IN
     \/ id \notin DOMAIN pending[s] /\ UNCHANGED <<pending, acked, answers>>
     \/ /\ id \in DOMAIN pending[s]
        /\ pending' = [pending EXCEPT ![s] = Without(@, id)]
        /\ acked' = [acked EXCEPT ![pending[s][id]] = TRUE]
        /\ answers' = [answers EXCEPT ![pending[s][id]] = Append(@, Current(s).op)]
  /\ Executed(s)
  /\ UNCHANGED <<clientTime, dcVars, connVars, idVars, sync, crashed, home, msgIdOf,
                 seqNoOf, timer, toClient, sent>>

\* Mistake: the query goes out with a seqNo of its own.
ResendRenumbered(s, q, salt) ==
  WriteMessage(s, salt, 1,
               [msgId |-> msgIdOf[q], seqNo |-> seqNo[s] + 1, query |-> q])

\* resendQuery: a container around the query as it was first sent.  Nobody looks
\* at what encryptSendMessage returns: where the container is too large nothing is
\* sent, and the query stays in the table.
ResendQuery(s, q, salt) ==
  \/ /\ q \notin Unresendable
     /\ WriteMessage(s, salt, 0,
          [msgId |-> msgIdOf[q], seqNo |-> seqNoOf[q], query |-> q])
  \/ q \in Unresendable /\ UNCHANGED <<idVars, sent, toServer>>

\* Mistake: the entry is taken, as workBadMsgNotification does, and resent.
SaltTakesEntry(s) ==
  /\ Executes(s, {"badSalt"}) /\ Current(s).id \in DOMAIN pending[s]
  /\ dcSalt' = [dcSalt EXCEPT ![DcOf[s]] = Current(s).salt]
  /\ pending' = [pending EXCEPT ![s] = Without(@, Current(s).id)]
  /\ ResendQuery(s, pending[s][Current(s).id], Current(s).salt)
  /\ Executed(s)
  /\ UNCHANGED <<clientTime, dcSync, link, sync, home, timer, answers, toClient, acked,
                 msgIdOf, seqNoOf, crashed>>

\* Mistake: only the salt is taken over.
SaltOnly(s) ==
  /\ Executes(s, {"badSalt"})
  /\ dcSalt' = [dcSalt EXCEPT ![DcOf[s]] = Current(s).salt]
  /\ Executed(s)
  /\ UNCHANGED <<clientTime, dcSync, connVars, idVars, sync, pending, crashed, queryVars,
                 toClient, sent>>

WorkBadServerSalt(s) ==
  /\ Executes(s, {"badSalt"})
  /\ dcSalt' = [dcSalt EXCEPT ![DcOf[s]] = Current(s).salt]
  /\ \/ Crash(s)
     \/ /\ Current(s).id \in DOMAIN pending[s]
        /\ ResendQuery(s, pending[s][Current(s).id], Current(s).salt)
        /\ UNCHANGED <<pending, acked, msgIdOf, seqNoOf, crashed>>
  /\ Executed(s)
  /\ UNCHANGED <<clientTime, dcSync, link, sync, home, timer, answers, toClient>>

\* Mistake: the entry stays under the old id as well.
RecomposeKeepsEntry(s) ==
  /\ Executes(s, {"badMsg"}) /\ Current(s).id \in DOMAIN pending[s]
  /\ dcSync' = [dcSync EXCEPT ![DcOf[s]] = clientTime - Current(s).time]
  /\ ComposeQuery(s, pending[s][Current(s).id], pending[s])
  /\ Executed(s)
  /\ UNCHANGED <<clientTime, dcSalt, link, sync, home, timer, answers, toClient, crashed>>

\* Error codes 16 and 17; the others are ignored, which WorkOther models.  The
\* DC's time difference is set from the notification's own message id.
WorkBadMsgNotification(s) ==
  /\ Executes(s, {"badMsg"})
  /\ dcSync' = [dcSync EXCEPT ![DcOf[s]] = clientTime - Current(s).time]
  /\ \/ Crash(s)
     \/ LET id == Current(s).id IN
        /\ id \in DOMAIN pending[s]
        /\ ComposeQuery(s, pending[s][id], Without(pending[s], id))
        /\ UNCHANGED crashed
  /\ Executed(s)
  /\ UNCHANGED <<clientTime, dcSalt, link, sync, home, timer, answers, toClient>>

WorkNewSessionCreated(s) ==
  /\ Executes(s, {"newSession"})
  /\ dcSalt' = [dcSalt EXCEPT ![DcOf[s]] = Current(s).salt]
  /\ Executed(s)
  /\ UNCHANGED <<clientTime, dcSync, connVars, idVars, sync, pending, crashed, queryVars,
                 toClient, sent>>

\* Updates, which are only announced by signals, and the answers that are read
\* and forgotten: pong, the two detailed infos, the other bad_msg errors.
WorkOther(s) ==
  /\ Executes(s, {"update", "notice"})
  /\ Executed(s)
  /\ UNCHANGED <<clientTime, dcVars, connVars, idVars, sync, pending, crashed, queryVars,
                 toClient, sent>>

RpcExecuteAnswer(s) ==
  \/ WorkMsgsAck(s)
  \/ WorkRpcResult(s)
  \/ WorkBadServerSalt(s)
  \/ WorkBadMsgNotification(s)
  \/ WorkNewSessionCreated(s)
  \/ WorkOther(s)

---------------------------------------------------------------------------
\* The DC's salt and time difference come from the key exchange or from the
\* settings file, which keeps the salt but not the difference.
SessionInit ==
  /\ clientTime \in Nat
  /\ dcSalt = [d \in DCs |-> 1]
  /\ dcSync \in [DCs -> Int]
  /\ clientLastMsgId = 0
  /\ link = [s \in Sessions |-> "none"]
  /\ sync = [s \in Sessions |-> 0]
  /\ seqNo = [s \in Sessions |-> 0]
  /\ pending = [s \in Sessions |-> EmptyTable]
  /\ executing = [s \in Sessions |-> <<>>]
  /\ crashed = FALSE
  /\ home = [q \in Queries |-> NoSession]
  /\ msgIdOf = [q \in Queries |-> 0]
  /\ seqNoOf = [q \in Queries |-> 0]
  /\ acked = [q \in Queries |-> FALSE]
  /\ timer = [q \in Queries |-> "off"]
  /\ answers = [q \in Queries |-> <<>>]
  /\ toServer = [s \in Sessions |-> <<>>]
  /\ toClient = [s \in Sessions |-> <<>>]
  /\ sent = {}

SessionTypeOK ==
  /\ clientTime \in Int
  /\ dcSalt \in [DCs -> Nat]
  /\ dcSync \in [DCs -> Int]
  /\ clientLastMsgId \in Nat
  /\ link \in [Sessions -> LinkStates]
  /\ sync \in [Sessions -> Int]
  /\ seqNo \in [Sessions -> Nat]
  /\ pending = [s \in Sessions |-> pending[s]]
  /\ \A s \in Sessions : IsTable(pending[s])
  /\ executing \in [Sessions -> Seq(Answer)]
  /\ crashed \in BOOLEAN
  /\ home \in [Queries -> Sessions \cup {NoSession}]
  /\ msgIdOf \in [Queries -> Nat \cup {NoMsgId}]
  /\ seqNoOf \in [Queries -> Nat \cup {-1}]
  /\ acked \in [Queries -> BOOLEAN]
  /\ timer \in [Queries -> {"off", "armed", "fired"}]
  /\ answers \in [Queries -> Seq(Outcomes)]
  /\ toServer \in [Sessions -> Seq(Message \cup {Marker})]
  /\ toClient \in [Sessions -> Seq(Seq(Answer) \ {<<>>})]
  /\ sent \subseteq Message
=============================================================================
