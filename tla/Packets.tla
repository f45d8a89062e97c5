------------------------------ MODULE Packets -------------------------------
(***************************************************************************)
(* A session takes the messages of its Connection apart:                   *)
(* src/src/core/session.cpp from processRpcAnswer on.  A message is one    *)
(* item or a container of items; an item is an update or the answer to a   *)
(* query, and either may be gzipped.  The handlers find the end of an item *)
(* only by reading its fields, so one that reads too little or too much    *)
(* leaves the next item to be read from the wrong place.                   *)
(*                                                                         *)
(* The environment is the server, which writes the messages of Messages in *)
(* full, and the event loop, which makes the queued calls in order.  Calls *)
(* outlive the connection they came from; Messages are read on one         *)
(* connection, since a lost one is never opened again.                     *)
(*                                                                         *)
(* A definition marked "Mistake" is a plausible bug of the code modelled by*)
(* the definition that follows it; no other definition uses it.            *)
(***************************************************************************)
EXTENDS Connection, Items, SequencesExt
INSTANCE Codec

CONSTANTS
  TL_MsgContainer, TL_RpcResult, TL_GZipPacked, TL_Vector,
  Constructors,   \* the constructors of Update the program knows
  Messages,       \* the messages, sequences of items [form, id, op, values]
  Noise           \* byte the encryption fills a message up with

VARIABLES
  sent,       \* history: the messages the server has written
  handled,    \* calls of processRpcAnswer made
  pending,    \* ids of m_pendingQueries
  executed,   \* history: for each call what the program was told
  outcomes,   \* history: for each call "ended" when every item was read to its
              \* end, "displaced" when one was not, or "discarded"
  astray      \* the program has read outside a message or stopped at an ASSERT

packetVars == <<sent, handled, pending, executed, outcomes, astray>>

---------------------------------------------------------------------------
(* The server. *)

\* Of the three vectors of updates (updates, users, chats) the first stands for all.
Types(op) ==
  CASE op = TL_NewSessionCreated  -> <<"int", "int", "int">>
    [] op = TL_UpdateShortMessage -> <<"int", "int", "string", "int", "int", "int">>
    [] op = TL_Updates            -> <<"vector", "int", "int">>
    [] op = TL_UpdatesCombined    -> <<"vector", "int", "int", "int">>
    [] op = TL_RpcError           -> <<"int", "string">>
    [] OTHER                      -> <<"int">>    \* one the program does not know

SentTypes(item) ==
  IF IsAnswer(item) /\ item.op # TL_RpcError THEN Queries[item.id].fields ELSE Types(item.op)

Field(type, v) ==
  CASE type = "int"    -> AppendInt(v)
    [] type = "string" -> TLString(v)
    [] type = "vector" -> AppendInt(TL_Vector) \o AppendInt(Len(v)) \o
                          FlattenSeq([i \in DOMAIN v |-> AppendInt(v[i])])
Plain(item) ==
  AppendInt(item.op) \o
  FlattenSeq([i \in DOMAIN item.values |-> Field(SentTypes(item)[i], item.values[i])])

\* What is gzipped is what the reader will find, so the text stands for its archive.
Gzipped(bytes) == AppendInt(TL_GZipPacked) \o TLString(bytes)
Content(item) ==
  CASE item.form = "direct"       -> Plain(item)
    [] item.form = "packed"       -> Gzipped(Plain(item))
    [] item.form = "result"       -> AppendInt(TL_RpcResult) \o AppendInt(item.id) \o Plain(item)
    [] item.form = "packedResult" -> AppendInt(TL_RpcResult) \o AppendInt(item.id) \o
                                     Gzipped(Plain(item))

\* msg_id, seq_no and bytes in front of an item of a container.
InContainer(item) ==
  AppendInt(1) \o AppendInt(2) \o AppendInt(Len(Content(item))) \o Content(item)
Body(m) ==
  IF Len(m) = 1 THEN Content(m[1])
  ELSE AppendInt(TL_MsgContainer) \o AppendInt(Len(m)) \o
       FlattenSeq([i \in DOMAIN m |-> InContainer(m[i])])

\* The decrypted message: its length, the text, and what fills it up to whole
\* blocks of four words.
Block == 4 * WordSize
Envelope(m) ==
  LET used == WordSize + Len(Body(m))
  IN AppendInt(Len(Body(m))) \o Body(m) \o Repeat(Noise, (Block - (used % Block)) % Block)

---------------------------------------------------------------------------
(* What the server may write: every number fits into a word, every length  *)
(* into the place it has, and an answer is that of the query it names.     *)

Distinct(seq) == \A i, j \in DOMAIN seq : i # j => seq[i] # seq[j]
IsSequence(s, n) == s = [i \in 1..n |-> s[i]]
IsFields(types) == types \in Seq({"int", "string", "vector"})
IsQuery(query) ==
  /\ IsWord(query.op) /\ query.op \notin {TL_RpcError, TL_GZipPacked}
  /\ IsFields(query.fields) /\ IsFields(query.reads) /\ IsPrefixOf(query.reads, query.fields)

IsString(s) == s \in Seq(Byte) /\ (Len(s) < Long \/ IsWord((Base * Len(s)) + Long))
IsValue(type, v) ==
  CASE type = "int"    -> IsWord(v)
    [] type = "string" -> IsString(v)
    [] type = "vector" -> v \in Seq(Constructors) /\ IsWord(Len(v))
\* An archive or a container is not sent in another one, nor an error in an archive.
IsItem(item) ==
  /\ item.form \in {"direct", "packed", "result", "packedResult"} /\ IsWord(item.op)
  /\ IF IsAnswer(item)
       THEN /\ item.id \in DOMAIN Queries
            /\ \/ item.op = Queries[item.id].op
               \/ item.op = TL_RpcError /\ item.form = "result"
       ELSE item.op \notin {TL_MsgContainer, TL_RpcResult, TL_GZipPacked}
  /\ IsSequence(item.values, Len(SentTypes(item)))
  /\ \A i \in DOMAIN item.values : IsValue(SentTypes(item)[i], item.values[i])
  /\ item.form \in {"packed", "packedResult"} => IsString(Plain(item))
IsMessage(m) ==
  /\ IsSequence(m, Len(m)) /\ Len(m) > 0 /\ IsWord(Len(m)) /\ IsWord(Len(Body(m)))
  /\ \A i \in DOMAIN m : IsItem(m[i]) /\ IsWord(Len(Content(m[i])))

ASSUME PacketsAssumption ==
  /\ MaxConnects = 1
  /\ Distinct(<<TL_MsgContainer, TL_RpcResult, TL_GZipPacked, TL_RpcError, TL_NewSessionCreated,
                TL_UpdateShortMessage, TL_Updates, TL_UpdatesCombined>>)
  /\ \A op \in {TL_MsgContainer, TL_RpcResult, TL_GZipPacked, TL_RpcError, TL_Vector}
                \cup DirectOps \cup Constructors : IsWord(op)
  /\ IsWord(1) /\ IsWord(2)    \* msg_id and seq_no of an item
  /\ NoQuery \notin DOMAIN Queries
  /\ \A id \in DOMAIN Queries : IsWord(id) /\ IsQuery(Queries[id])
  /\ \A m \in Messages : IsMessage(m)
  /\ Payloads = {Envelope(m) : m \in Messages}

ServerWritesMessage(m) ==
  /\ ServerWrites(Envelope(m))
  /\ sent' = Append(sent, m)
  /\ UNCHANGED <<handled, pending, executed, outcomes, astray>>

---------------------------------------------------------------------------
(* The handlers.  A reader (Codec) with what was told, the queries pending *)
(* and whether all items so far were read to their end.                    *)

FetchField(r, type) ==
  IF ~r.ok THEN r
  ELSE CASE type = "int"    -> FetchInt(r)
         [] type = "string" -> FetchQString(r)
         [] type = "vector" -> FetchVector(r, Constructors)
Fetch(r, types) ==
  LET read[n \in 0..Len(types)] ==
        IF n = 0 THEN [r EXCEPT !.got = <<>>]
        ELSE LET sofar == read[n - 1] IN FetchField(sofar, types[n])
  IN read[Len(types)]

Told(r, op, id) ==
  IF r.ok THEN [r EXCEPT !.told = Append(@, [op |-> op, id |-> id, got |-> r.got])] ELSE r
\* Mistake: what is not handled is left to be read.
LeaveIt(r) == r
\* setInPtr(inEnd()): what is not handled is skipped.
ToEnd(r) == [r EXCEPT !.ptr = r.end]

\* rpcExecuteAnswer reads the constructor and the handler its fields; the case of
\* updatesCombined goes on into that of updates.
Work(r, op) == Told(Fetch(FetchInt(r), Types(op)), op, NoQuery)
WorkUpdates(r) ==
  IF r.ok THEN Told(Fetch(r, <<"int", "vector", "int", "int">>), TL_Updates, NoQuery) ELSE r
WorkUpdate(r) ==
  LET op == WordAt(r.mem, r.ptr)
  IN CASE op = TL_UpdatesCombined -> WorkUpdates(Work(r, op))
       [] op \in DirectOps \ {TL_UpdatesCombined} -> Work(r, op)
       [] OTHER -> ToEnd(r)

\* queryOnResult without the unpacking: onAnswer stops at another constructor.
Answer(r, id) ==
  LET taken == [r EXCEPT !.pending = @ \ {id}]
      op == WordAt(r.mem, r.ptr)
  IN CASE id \notin r.pending -> ToEnd(r)
       [] id \in r.pending /\ op # Queries[id].op -> Astray(taken)
       [] id \in r.pending /\ op = Queries[id].op ->
            Told(Fetch(FetchInt(taken), Queries[id].reads), op, id)
QueryOnError(r, id) ==
  LET read == Fetch(FetchInt(r), Types(TL_RpcError))
  IN IF id \notin r.pending THEN read
     ELSE Told([read EXCEPT !.pending = @ \ {id}], TL_RpcError, id)

\* workPacked, queryOnResult: the text of an archive is handled in a buffer of its
\* own, and then the position behind the archive is restored.
Archive(r) ==
  LET text == Fetch(FetchInt(r), <<"string">>)
  IN IF text.ok /\ text.got = <<SomeString>> THEN Astray(text) ELSE text
Unpack(archive) ==
  [archive EXCEPT !.mem = archive.got[1], !.ptr = 0,
                  !.end = Len(archive.got[1]) \div WordSize]
Restored(r, archive) ==
  [r EXCEPT !.mem = archive.mem, !.ptr = archive.ptr, !.end = archive.end]
UpdateInside(archive) ==
  IF archive.ok THEN Restored(WorkUpdate(Unpack(archive)), archive) ELSE archive
AnswerInside(archive, id) ==
  IF archive.ok THEN Restored(Answer(Unpack(archive), id), archive) ELSE archive

RpcResult(r, id) ==
  LET op == WordAt(r.mem, r.ptr)
  IN CASE op = TL_RpcError   -> QueryOnError(r, id)
       [] op = TL_GZipPacked -> AnswerInside(Archive(r), id)
       [] OTHER              -> Answer(r, id)
WorkRpcResult(r) ==
  LET head == Fetch(r, <<"int", "int">>)
  IN IF head.ok /\ InMemory(head, 1) THEN RpcResult(head, head.got[2]) ELSE Astray(r)

\* The archives and containers the server writes hold no further ones.
RpcExecuteAnswer(r) ==
  IF ~InMemory(r, 1) THEN Astray(r)
  ELSE LET op == WordAt(r.mem, r.ptr)
       IN CASE op = TL_RpcResult    -> WorkRpcResult(r)
            [] op = TL_GZipPacked   -> UpdateInside(Archive(r))
            [] op = TL_MsgContainer -> Astray(r)
            [] OTHER                -> WorkUpdate(r)

\* One pass of workContainer.
Framed(head, bytes) == [head EXCEPT !.end = head.ptr + (bytes \div WordSize)]
NextItem(item, end) == [item EXCEPT !.end = end, !.inEnd = @ /\ item.ptr = item.end]
ContainerItem(r) ==
  LET head == Fetch(r, <<"int", "int", "int">>)
  IN IF ~r.ok \/ ~head.ok THEN Astray(r)
     ELSE NextItem(RpcExecuteAnswer(Framed(head, head.got[3])), r.end)

WorkContainer(r) ==
  LET head == Fetch(r, <<"int", "int">>)
      after[n \in 0..head.got[2]] == IF n = 0 THEN head ELSE ContainerItem(after[n - 1])
  IN IF head.ok THEN after[head.got[2]] ELSE head

\* processRpcMessage from the decrypted text on.
Reader(message) ==
  [mem |-> message, ptr |-> 1, end |-> 1 + (WordAt(message, 0) \div WordSize), ok |-> TRUE,
   got |-> <<>>, told |-> <<>>, pending |-> pending, inEnd |-> TRUE]
RpcMessage(r) ==
  IF WordAt(r.mem, r.ptr) = TL_MsgContainer THEN WorkContainer(r) ELSE RpcExecuteAnswer(r)

ProcessRpcMessage ==
  /\ ~reading /\ ~astray /\ handled < Len(queued)
  /\ \E start \in {Reader(queued[handled + 1])} : \E read \in {RpcMessage(start)} :
       /\ pending' = read.pending
       /\ executed' = Append(executed, read.told)
       /\ outcomes' = Append(outcomes, IF read.inEnd /\ read.ptr = start.end THEN "ended"
                                       ELSE "displaced")
       /\ astray' = ~read.ok
  /\ handled' = handled + 1
  /\ UNCHANGED sent /\ UNCHANGED vars

\* The time of the message is more than 30 seconds ahead of the clock or 300 behind.
DiscardRpcMessage ==
  /\ ~reading /\ ~astray /\ handled < Len(queued)
  /\ executed' = Append(executed, <<>>)
  /\ outcomes' = Append(outcomes, "discarded")
  /\ handled' = handled + 1
  /\ UNCHANGED <<sent, pending, astray>> /\ UNCHANGED vars

PacketsInit ==
  /\ Init
  /\ sent = <<>> /\ handled = 0 /\ pending = DOMAIN Queries
  /\ executed = <<>> /\ outcomes = <<>> /\ astray = FALSE

PacketsNext ==
  \/ Steps /\ UNCHANGED packetVars
  \/ \E m \in Messages : ServerWritesMessage(m)
  \/ ProcessRpcMessage
  \/ DiscardRpcMessage

PacketsSpec == PacketsInit /\ [][PacketsNext]_<<vars, packetVars>>
FairPackets == PacketsSpec /\ Fairness

---------------------------------------------------------------------------
PacketsTypeOK ==
  /\ TypeOK
  /\ Len(sent) = Len(written) /\ handled \in 0..Len(queued) /\ Len(executed) = handled /\ Len(outcomes) = handled
  /\ pending \subseteq DOMAIN Queries /\ astray \in BOOLEAN
  /\ outcomes \in Seq({"ended", "displaced", "discarded"})

\* The queries that no message before the k-th answered, as the program was told.
Unanswered(k) ==
  {id \in DOMAIN Queries : \A j \in 1..(k - 1) : \A i \in DOMAIN executed[j] : executed[j][i].id # id}

\* Whatever else a message holds, the program is told the items in front of and
\* including the first one misread as the server sent them, every message anew,
\* and an item that was not sent only behind a misread one.
ExecutedTruly ==
  \A k \in 1..handled : outcomes[k] # "discarded" => Truly(executed[k], Unanswered(k), sent[k])

\* The session keeps the promise of MessagePromise: the messages are taken in the order
\* the server wrote them, each once, told truly or not at all, and what was told stays.
Promise == INSTANCE MessagePromise WITH told <- executed
TellsAsSent == Promise!Spec

\* session.cpp asserts after every item that it was read to its end, and so much
\* depends on: it holds unless an item is misread.
\* The program reads outside a message, or stops at an ASSERT, only then too.
ReadToTheEnd ==
  /\ \A k \in 1..handled : outcomes[k] = "displaced" => Misreads(sent[k])
  /\ astray => Misreads(sent[handled])

\* A string that came and goes back, as the hash of auth.sentCode does in
\* auth.signIn, leaves as it came, through appendCString or serializeBignum.
WritersAgree ==
  \A k \in DOMAIN sent : \A i \in DOMAIN sent[k] : \A j \in DOMAIN sent[k][i].values :
    SentTypes(sent[k][i])[j] = "string" =>
      LET s == sent[k][i].values[j]
      IN AppendCString(s) = TLString(s) /\ SerializeBignum(s) = TLString(s)
=============================================================================
