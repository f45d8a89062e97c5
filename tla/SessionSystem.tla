--------------------------- MODULE SessionSystem ---------------------------
(***************************************************************************)
(* The sessions of one client together with the server they talk to, the   *)
(* network between them and the two clocks.  The server is not in the      *)
(* repository: it is modelled from what session.cpp expects of it, namely  *)
(* that a message under an outdated salt is answered by bad_server_salt    *)
(* with the id of that message, one whose id is out of time by a           *)
(* bad_msg_notification 16 or 17, and that any other is executed once,     *)
(* acknowledged, and answered by a result or an error carrying the id of   *)
(* the query.  The server may put several answers in one container.  It    *)
(* sends an answer again when the connection that carried it was lost,     *)
(* since the client acknowledges nothing.                                  *)
(***************************************************************************)
EXTENDS Session, FiniteSets

CONSTANTS
  Start,          \* the server's clock in the initial state
  MaxTime,        \* bound: the server's clock stops here
  Skews,          \* values of (client clock - server clock)
  KeyRestored,    \* BOOLEAN: may the DC come from the settings file
  MaxAdjust,      \* bound: how often the user changes the client's clock
  MaxSalt,        \* bound: the last generation of salts
  MaxLost,        \* bound: connections lost
  MaxDrops,       \* bound: messages dropped for an uninitialised op
  MaxRejects,     \* bound: bad_msg_notifications the server sends for one query
  MaxPush,        \* bound: updates and notices the server sends
  MaxBatch,       \* bound: answers in one container
  AckAfterResult  \* BOOLEAN: may an acknowledgement follow the result

ASSUME SystemAssumption ==
  /\ Start \in Nat /\ MaxTime \in Nat /\ Skews \subseteq Int
  /\ \A k \in Skews : Start + k >= 0
  /\ MaxAdjust \in Nat /\ MaxSalt \in Nat /\ MaxLost \in Nat /\ MaxDrops \in Nat
  /\ MaxPush \in Nat /\ MaxRejects \in Nat /\ MaxBatch \in Nat
  /\ KeyRestored \in BOOLEAN /\ AckAfterResult \in BOOLEAN

VARIABLES
  now,         \* the server's clock
  skew,        \* client clock - server clock
  srvSalt,     \* the salt a DC accepts
  stream,      \* what the server takes a byte stream for
  greeted,     \* sessions that have been told new_session_created
  inService,   \* queries accepted and not yet answered
  finished,    \* answers given
  unacked,     \* ids accepted and not yet acknowledged
  executions,  \* history: how the server executed a query
  rejections,  \* history: how often it refused a query's message id
  adjusts, lost, drops, pushes  \* the bounded counters

serverVars == <<srvSalt, stream, greeted, inService, finished, unacked, executions,
                rejections>>
envVars == <<now, skew, serverVars, adjusts, lost, drops, pushes>>
vars == <<sessionVars, envVars>>

Request == [sess : Sessions, id : Nat, query : Queries]
Reply   == [sess : Sessions, id : Nat, op : Outcomes]

AnswerOf(s, op, id) ==
  [op |-> op, id |-> id, salt |-> srvSalt[DcOf[s]], time |-> now]

\* The server writes answers as a message of their own, or puts them in the
\* container it has not finished yet.
Writes(s, answersToSend) ==
  \/ toClient' = [toClient EXCEPT ![s] = Append(@, answersToSend)]
  \/ /\ toClient[s] # <<>>
     /\ LET last == toClient[s][Len(toClient[s])] IN
        /\ Len(last) + Len(answersToSend) <= MaxBatch
        /\ Head(last).salt = srvSalt[DcOf[s]] /\ Head(last).time = now
        /\ toClient' = [toClient EXCEPT ![s][Len(toClient[s])] = last \o answersToSend]

ClientState == <<clientTime, dcVars, idVars, link, sync, pending, executing, crashed,
                queryVars, sent>>
Counters == <<adjusts, lost, drops, pushes>>

---------------------------------------------------------------------------
(* Reading the stream of a session; what is written while the socket is still *)
(* connecting waits in the client. *)
Reads(s) ==
  /\ toServer[s] # <<>> /\ link[s] # "connecting"
  /\ toServer' = [toServer EXCEPT ![s] = Tail(@)]

\* The first byte decides: a stream that does not open with the marker is noise.
ServerOpensStream(s) ==
  /\ Reads(s) /\ stream[s] = "new"
  /\ stream' = [stream EXCEPT ![s] = IF Head(toServer[s]) = Marker THEN "abridged"
                                                                    ELSE "noise"]
  /\ UNCHANGED <<ClientState, toClient, now, skew, srvSalt, greeted, inService,
                 finished, unacked, executions, rejections, Counters>>

ServerIgnores(s) ==
  /\ Reads(s) /\ stream[s] = "noise"
  /\ UNCHANGED <<ClientState, toClient, now, skew, serverVars, Counters>>

Incoming(s) == Head(toServer[s])
IdTime(id)  == id \div IdsPerSecond
SaltValid(s) == Incoming(s).salt = srvSalt[DcOf[s]]
OnTime(s) == /\ IdTime(Incoming(s).msgId) < now + Ahead
             /\ IdTime(Incoming(s).msgId) > now - Behind

ServerRejects(s) ==
  /\ Reads(s) /\ stream[s] = "abridged"
  /\ \/ /\ ~SaltValid(s)
        /\ Writes(s, <<AnswerOf(s, "badSalt", Incoming(s).msgId)>>)
        /\ UNCHANGED rejections
     \/ /\ ~OnTime(s) /\ rejections[Incoming(s).item.query] < MaxRejects
        /\ Writes(s, <<AnswerOf(s, "badMsg", Incoming(s).msgId)>>)
        /\ rejections' = [rejections EXCEPT ![Incoming(s).item.query] = @ + 1]
  /\ UNCHANGED <<ClientState, now, skew, srvSalt, stream, greeted, inService, finished,
                 unacked, executions, Counters>>

Known(s, id) == \E r \in inService \cup finished : r.sess = s /\ r.id = id

\* A new message is taken into service; one already known is only acknowledged.
ServerAccepts(s) ==
  /\ Reads(s) /\ stream[s] = "abridged" /\ SaltValid(s) /\ OnTime(s)
  /\ LET item == Incoming(s).item IN
     /\ inService' = IF Known(s, item.msgId) THEN inService
                     ELSE inService \cup {[sess |-> s, id |-> item.msgId, query |-> item.query]}
     /\ unacked' = unacked \cup {<<s, item.msgId>>}
     /\ IF s \in greeted THEN UNCHANGED toClient
                         ELSE Writes(s, <<AnswerOf(s, "newSession", item.msgId)>>)
  /\ greeted' = greeted \cup {s}
  /\ UNCHANGED <<ClientState, now, skew, srvSalt, stream, finished, executions, rejections,
                 Counters>>

---------------------------------------------------------------------------
(* What the server sends. *)
Reachable(s) == link[s] = "connected" /\ stream[s] = "abridged"

ServerAcks(s) ==
  \E id \in {u[2] : u \in {v \in unacked : v[1] = s}} :
    /\ Reachable(s)
    /\ AckAfterResult \/ \E r \in inService : r.sess = s /\ r.id = id
    /\ unacked' = unacked \ {<<s, id>>}
    /\ Writes(s, <<AnswerOf(s, "ack", id)>>)
    /\ UNCHANGED <<ClientState, toServer, now, skew, srvSalt, stream, greeted, inService,
                   finished, executions, rejections, Counters>>

ServerAnswers(s) ==
  \E r \in inService, op \in Outcomes :
    /\ r.sess = s /\ Reachable(s)
    /\ inService' = inService \ {r}
    /\ finished' = finished \cup {[sess |-> s, id |-> r.id, op |-> op]}
    /\ executions' = [executions EXCEPT ![r.query] = Append(@, op)]
    /\ Writes(s, <<AnswerOf(s, op, r.id)>>)
    /\ UNCHANGED <<ClientState, toServer, now, skew, srvSalt, stream, greeted, unacked,
                   rejections, Counters>>

\* An answer the client never confirmed goes out again after a loss.
ServerRepeats(s) ==
  \E r \in finished :
    /\ r.sess = s /\ Reachable(s)
    /\ lost > 0 /\ pushes < MaxPush
    /\ pushes' = pushes + 1
    /\ Writes(s, <<AnswerOf(s, r.op, r.id)>>)
    /\ UNCHANGED <<ClientState, toServer, now, skew, serverVars, adjusts, lost, drops>>

ServerPushes(s) ==
  \E op \in {"update", "notice"} :
    /\ Reachable(s) /\ pushes < MaxPush
    /\ pushes' = pushes + 1
    /\ Writes(s, <<AnswerOf(s, op, 0)>>)
    /\ UNCHANGED <<ClientState, toServer, now, skew, serverVars, adjusts, lost, drops>>

ServerChangesSalt(d) ==
  /\ srvSalt[d] < MaxSalt
  /\ srvSalt' = [srvSalt EXCEPT ![d] = @ + 1]
  /\ UNCHANGED <<sessionVars, now, skew, stream, greeted, inService, finished, unacked,
                 executions, rejections, Counters>>

Server(s) ==
  \/ ServerOpensStream(s)
  \/ ServerIgnores(s)
  \/ ServerRejects(s)
  \/ ServerAccepts(s)
  \/ ServerAcks(s)
  \/ ServerAnswers(s)

---------------------------------------------------------------------------
(* Clocks, and the client's steps in this environment. *)
SessionUnclocked ==
  <<dcVars, idVars, link, sync, pending, executing, crashed, queryVars, toServer,
    toClient, sent>>

Tick ==
  /\ now < MaxTime
  /\ now' = now + 1
  /\ clientTime' = clientTime + 1
  /\ UNCHANGED <<SessionUnclocked, skew, serverVars, Counters>>

\* The user, or the phone network, sets the phone's clock.
AdjustClock(k) ==
  /\ adjusts < MaxAdjust /\ k # skew
  /\ adjusts' = adjusts + 1
  /\ skew' = k
  /\ clientTime' = now + k
  /\ UNCHANGED <<SessionUnclocked, now, serverVars, lost, drops, pushes>>

\* A connection that ends, or an object that goes, ends the stream.
StreamEnds(s) == stream' = [stream EXCEPT ![s] = "new"]

Connects(s) ==
  /\ ConnectToServer(s) /\ StreamEnds(s)
  /\ UNCHANGED <<now, skew, srvSalt, greeted, inService, finished, unacked, executions,
                 rejections, Counters>>

Loses(s) ==
  /\ lost < MaxLost
  /\ \E n \in 0..Len(toClient[s]) : ConnectionLost(s, n)
  /\ lost' = lost + 1
  /\ UNCHANGED <<now, skew, serverVars, adjusts, drops, pushes>>

Drops(s) ==
  /\ drops < MaxDrops
  /\ ProcessRpcAnswer(s, TRUE)
  /\ drops' = drops + 1
  /\ UNCHANGED <<now, skew, serverVars, adjusts, lost, pushes>>

Handles(s) == ProcessRpcAnswer(s, FALSE) /\ UNCHANGED envVars
Works(s)   == RpcExecuteAnswer(s) /\ UNCHANGED envVars
Opens(s)   == (NewSession(s) \/ OnConnected(s)) /\ UNCHANGED envVars
Closes(s)  == (Close(s) \/ OnDisconnected(s)) /\ UNCHANGED envVars
Sends(s, q) == SendQuery(s, q) /\ UNCHANGED envVars
Times(q)   == TimerEvent(q) /\ UNCHANGED envVars

\* The DC's time difference was just computed by the key exchange, or is 0
\* because the key was read back from the settings file.
Init ==
  /\ now = Start
  /\ skew \in Skews
  /\ clientTime = Start + skew
  /\ \E fresh \in {D \in SUBSET DCs : D = DCs \/ KeyRestored} :
       dcSync = [d \in DCs |-> IF d \in fresh THEN skew ELSE 0]
  /\ SessionInit
  /\ srvSalt = [d \in DCs |-> 1]
  /\ stream = [s \in Sessions |-> "new"]
  /\ greeted = {} /\ inService = {} /\ finished = {} /\ unacked = {}
  /\ executions = [q \in Queries |-> <<>>]
  /\ rejections = [q \in Queries |-> 0]
  /\ adjusts = 0 /\ lost = 0 /\ drops = 0 /\ pushes = 0

Next ==
  \/ \E s \in Sessions :
       \/ Opens(s) \/ Connects(s) \/ Closes(s) \/ Loses(s) \/ Drops(s)
       \/ Handles(s) \/ Works(s) \/ Server(s) \/ ServerRepeats(s) \/ ServerPushes(s)
       \/ \E q \in Queries : Sends(s, q)
  \/ \E q \in Queries : Times(q)
  \/ \E d \in DCs : ServerChangesSalt(d)
  \/ \E k \in Skews : AdjustClock(k)
  \/ Tick

Spec == Init /\ [][Next]_vars

---------------------------------------------------------------------------
(* Invariants. *)
TypeOK ==
  /\ SessionTypeOK
  /\ now \in Nat /\ skew \in Int /\ clientTime = now + skew
  /\ srvSalt \in [DCs -> Nat]
  /\ stream \in [Sessions -> {"new", "abridged", "noise"}]
  /\ greeted \subseteq Sessions
  /\ inService \subseteq Request /\ finished \subseteq Reply
  /\ unacked \subseteq Sessions \X Nat
  /\ executions \in [Queries -> Seq(Outcomes)]
  /\ rejections \in [Queries -> Nat]
  /\ adjusts \in Nat /\ lost \in Nat /\ drops \in Nat /\ pushes \in Nat

\* No two messages ever carry the same id, whichever sessions sent them and
\* however the clock was set in between (the static m_clientLastMsgId).
MsgIdsUnique == \A m, n \in sent : m.msgId = n.msgId => m = n

\* A query that is sent again under its id is sent with the seqNo it had, so the
\* server can tell the repetition from a new query.
ResendKeepsIdentity ==
  \A m, n \in sent : m.item.msgId = n.item.msgId => m.item = n.item

\* An entry of m_pendingQueries belongs to the session that holds it, stands
\* under the id its Query has, and has had no answer.
PendingConsistent ==
  \A s \in Sessions : \A id \in DOMAIN pending[s] :
    LET q == pending[s][id] IN
    home[q] = s /\ msgIdOf[q] = id /\ answers[q] = <<>>

\* A part of the inductive invariant: the Api's onAnswer or onError runs at most
\* once for a query, as KeepsPromise says among other things.
AnsweredOnce == \A q \in Queries : Len(answers[q]) <= 1

\* A query that was sent stays in the table of its session until it is answered,
\* as long as the session lives: no path forgets one.
NoQueryForgotten ==
  Running => \A q \in Queries \ Oversized :
    home[q] # NoSession /\ Alive(home[q]) /\ answers[q] = <<>> =>
      \E id \in DOMAIN pending[home[q]] : pending[home[q]][id] = q

\* No answer of the server makes the client dereference a null Query
\* (workMsgsAck, workBadServerSalt, workBadMsgNotification).
NeverNull == ~crashed

\* An entry's query was sent under that very id and seqNo, so that it can be resent
\* and its answer found.  Only a query too large to be sent stands under NoMsgId,
\* where the next such query takes its place: no other query is put there, nor does
\* one that was refused stand under an id that was drawn.
EntriesWereSent ==
  \A s \in Sessions : \A id \in DOMAIN pending[s] :
    LET q == pending[s][id] IN
    IF id = NoMsgId THEN q \in Oversized
    ELSE \E m \in sent : m.item = [msgId |-> id, seqNo |-> seqNoOf[q], query |-> q]

\* m_clientLastMsgId is the largest id any session ever drew.
IdsDrawn ==
  \A m \in sent : m.msgId <= clientLastMsgId /\ m.item.msgId <= clientLastMsgId

\* A query nobody sent is untouched, one that was sent has a session.
QueriesAtHome ==
  \A q \in Queries :
    IF home[q] = NoSession THEN answers[q] = <<>> ELSE link[home[q]] # "none"

\* The server reads an abridged stream only past the marker, which is written
\* once for each connection.
NoMarkerIn(bytes) == \A i \in DOMAIN bytes : bytes[i] # Marker
MarkerInPlace(life, bytes, reader) ==
  /\ life \in {"none", "unconnected", "closed"} => bytes = <<>>
  /\ life = "connecting" => reader = "new" /\ NoMarkerIn(bytes)
  /\ reader = "abridged" => NoMarkerIn(bytes)
  /\ \A i, j \in DOMAIN bytes : bytes[i] = Marker /\ bytes[j] = Marker => i = j
MarkerOpensStream ==
  \A s \in Sessions : MarkerInPlace(link[s], toServer[s], stream[s])

\* The inductive invariant the proofs of this module's properties rest on.
IInv ==
  /\ TypeOK /\ PendingConsistent /\ EntriesWereSent /\ IdsDrawn /\ QueriesAtHome
  /\ MarkerOpensStream
  /\ MsgIdsUnique /\ ResendKeepsIdentity /\ AnsweredOnce /\ NoQueryForgotten

\* Refinement: the layer keeps its promise to the Api.
Promise == INSTANCE RpcPromise WITH
  issued   <- {q \in Queries : home[q] # NoSession},
  executed <- executions,
  told     <- answers
KeepsPromise == Promise!Spec

\* The messages of a session have rising seqNos in the order of their ids, also
\* where a container around a resent query comes between two new ones and where
\* other sessions draw ids in between: the server refuses any other order.
SeqFollowsId ==
  \A m, n \in sent : m.sess = n.sess /\ m.msgId < n.msgId => m.seqNo < n.seqNo

\* Once a query is answered, nothing the server still says about it moves it
\* again: no new id, no entry in a table, no other answer.
AnswerIsFinal ==
  [][\A q \in Queries : answers[q] # <<>> =>
       /\ answers'[q] = answers[q] /\ msgIdOf'[q] = msgIdOf[q]
       /\ \A s \in Sessions : \A id \in DOMAIN pending'[s] : pending'[s][id] # q]_sessionVars

---------------------------------------------------------------------------
(* Liveness.  The event loop, the network and the server go on; nobody has  *)
(* to send, to close, to change a salt or to set a clock.                   *)
Fairness ==
  /\ \A s \in Sessions :
       /\ WF_vars(OnConnected(s) /\ UNCHANGED envVars)
       /\ WF_vars(OnDisconnected(s) /\ UNCHANGED envVars)
       /\ WF_vars(Handles(s)) /\ WF_vars(Works(s))
       /\ WF_vars(ServerOpensStream(s)) /\ WF_vars(ServerIgnores(s))
       /\ WF_vars(ServerRejects(s)) /\ WF_vars(ServerAccepts(s))
       /\ WF_vars(ServerAcks(s)) /\ WF_vars(ServerAnswers(s))
  /\ \A q \in Queries : WF_vars(Times(q))

FairSpec == Spec /\ Fairness

\* Every query that is sent is answered, through salt changes and containers,
\* unless its session is closed.  One that is too large is entered in the table,
\* never sent, and its sender never told; one that is too large for a container
\* only is lost in the same way if the DC changes its salt.
EventuallyAnswered ==
  \A q \in Queries \ Oversized, s \in Sessions :
    home[q] = s ~> \/ answers[q] # <<>>
                   \/ link[s] \in {"closing", "closed"}
                   \/ q \in Unresendable /\ srvSalt[DcOf[s]] > 1
=============================================================================
