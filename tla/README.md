# TB10, specified in TLA+

TB10 is a Telegram client for BlackBerry 10: Qt/C++ on one thread with one event
loop, and a QML user interface. Its core (`src/src/core`) speaks MTProto: sockets and
framing, sessions that carry remote procedure calls, the exchange of keys with every
data centre (DC), and a start-up that brings all of them to a usable state. Above it
`ApplicationUI` keeps conversations in SQLite and photos on the disk. This directory
models these parts, checks the models with TLC, and proves the safety properties of
the RPC layer, of the connection, of the reading of messages, of the log-in, of the start-up, of the downloads and
of the conversations with TLAPS. The repository has no tests; what it promises is in
comments and assertions, and properties quote them where they can.

## Inventory

| component | state | operations | module |
|---|---|---|---|
| `Session` (`session.cpp`, `query.cpp`) | `m_pendingQueries`, `m_seqNo`, a copy of the time difference, the DC's salt, the static `m_clientLastMsgId`; each `Query`: id, seqNo, acked, timer | send a query, handle a message or a container, resend, recompose, acknowledge, open, close | `Session`, `SessionSystem` |
| `Connection` (`connection.cpp`) | socket, `mOpLength`, `mBuffer` | open, lose, read pieces, cut them into messages | `Connection` |
| `DcProvider`, `DCAuth`, `DC`, `Settings` | `mDcs`, `mDcAuths`, `mPendingDcs`, the lists of the transfer, the file `data/auth` | start, exchange a key, ask for the configuration, log in, transfer the log-in, save, log out | `DcProvider` |
| `SessionManager` | main session, file sessions with use counts | create, share, delete, change the main session | parts of `Session`, `Downloads`, `LogIn` |
| log-in (`applicationui.cpp` 110-377, the pages in `src/assets/login`) | `mApi`, `phone`, `hash`, the stack of pages, the working DC | open a page, ask for a code, sign in, move to the user's DC | `LogIn` |
| downloads (`applicationui.cpp` 441-463, 1911-2117, `downloadfile.cpp`) | `mDownloadsMap`, `mActiveDownloads`, `mDownloadsList`, `m_downloadFile`, the table `attachments`, the files under `data/` | ask for a photo, ask for the next part, write a part, finish | `Downloads` |
| messages and contacts (`applicationui.cpp`, `database.cpp`, the pages in `src/assets/Chats`) | the tables `messagesTab` and `contacts` | insert from answers and updates, delete, clear, open a page, load more | `MessageStore` |
| `Api` (`api.cpp`) | nothing but the query methods and the initConnection flag | encode a query, decode its answer, emit the signal | used by the above |
| TL codec (`inboundpkt.cpp`, `outboundpkt.cpp`) and the handlers of `session.cpp` | a buffer, a position and an end | append and fetch words, strings, vectors; take messages, containers and archives apart | `Codec`, `Packets` |
| cryptography, utilities | none | OpenSSL calls, padding, gcd, factorisation of pq | `serializeBignum` in `Codec` |
| `UploadFile` | - | - | no code of the program constructs one |
| types, QML layout, platform glue, vendored JavaScript | plain data | - | not modelled |

How they interact: `ApplicationUI` calls `Api`; `Api` builds a packet and hands it to
`Session::sendQuery`; `Session` writes to its `Connection`; what arrives is cut into
messages by `Connection`, decrypted and executed by `Session`, decoded by `Api` and
emitted as signals, which `ApplicationUI` stores. All sessions of a DC share the DC
object, so its salt and time difference; all sessions share `m_clientLastMsgId`.
`DcProvider` drives `DCAuth` and an `Api` of its own; `ApplicationUI::changeServer`
makes another one, which is the one the user interface uses.

What is hard here: answers, acknowledgements, salts and refusals for one query come in
any order, in containers, late or twice; two clocks differ and are set; a connection
is lost with half of an exchange done; a file on the disk is written in the middle of
another exchange; downloads share one file handle, one session and one table of names;
answers composed before an update are handled after it. `PROJECT.json` lists each such
hazard with its line and the properties that cover it.

## What makes the components correct

- Session: ids are unique over all sessions and seqNos follow them; a resent query
  keeps its identity; the table holds exactly the unanswered queries; a query is
  executed at most once and its sender told at most once, and truly; a query that is
  sent is answered.
- Connection: messages arrive whole, in order, completely.
- Codec and handlers: what the server packed is told as it was sent; an item that is read
  wrongly can spoil only what stands behind it in the same message.
- Log-in: the session asked is a living one to the working DC; a DC is marked as signed in
  by its own answer; the user is told what came of a query.
- DcProvider: `dcProviderReady` comes, and only with a key for every DC; the transfer
  reaches every DC; a log-in survives restarts.
- Downloads: a file holds the photo it is named for; no download is forgotten or doubled;
  photos arrive.
- MessageStore: a message is on the page of its conversation and on no other; what an
  update told holds; nothing stored is lost without a reason; what was deleted comes back
  only with what was under way; sent messages appear, all but the texts acknowledged by
  `sentMessageLink`.

## Modules

| module | what it is |
|---|---|
| `RpcPromise` | the abstract specification of the RPC layer: issue, execute at most once, tell at most once and truly |
| `Session` | the client's side: one action per operation of `session.cpp`, and the life of the socket |
| `SessionSystem` | composes `Session` with the server, the network and the clocks; properties; `Promise == INSTANCE RpcPromise WITH ...` |
| `SessionProofs` | theorems about `SessionSystem` |
| `PromiseProofs` | extends `SessionProofs`: `SessionSystem` implements `RpcPromise` |
| `Connection` | the reader of `connection.cpp` and a TCP stream that delivers pieces |
| `Codec` | words, strings and vectors as operators on sequences of bytes |
| `Items` | the items of messages as sender and receiver see them, without bytes: which the program is to be told |
| `MessagePromise` | the abstract specification of the messages of a server: taken in order, each once, told truly or not at all |
| `Packets` | extends `Connection` and `Items`: messages, containers, archives, answers and updates, taken apart by the handlers of `session.cpp`; `Promise == INSTANCE MessagePromise WITH told <- executed` |
| `LogIn` | pages, Apis and main sessions while a user logs in |
| `DcProvider` | start-up, key exchange, configuration, log-in, transfer, the settings file, restarts |
| `Downloads` | photos from the request to the disk |
| `MessageStore` | the conversations in SQLite, the pages, and a server that answers in order |
| `ConnectionProofs`, `LogInProofs`, `DcProviderProofs`, `DownloadsProofs`, `MessageStoreProofs` | theorems about `Connection`, `LogIn`, `DcProvider`, `Downloads` and `MessageStore` |
| `PacketsProofs` | extends `ConnectionProofs`: theorems about `Packets` and `Codec`; `Packets` implements `MessagePromise` |
| `MC...` | instances for TLC: constants |

In every module a definition carries the name of the function it models where there
is one. A definition marked "Mistake" stands before the definition it could be
confused with: it is a plausible bug of that code, used by no specification, and shows
which property would notice it.

### Session and SessionSystem

One message of the server is handled in one slot, which calls a `work...` function for
each answer it contains. `ProcessRpcAnswer` models the slot up to the loop and leaves
the answers in `executing`; the `Work...` actions take them one by one, and `Idle`
keeps every other event out until they are done. `pending` is `m_pendingQueries`;
`msgIdOf`, `seqNoOf`, `acked` and `timer` are the fields of `Query`; `link` is the life
of the object and its socket; `toServer` and `toClient` are the bytes and messages
under way. `sent` is a history variable, `answers` what `resultReceived` and
`errorReceived` told. An id counts in units of 4, and `IdsPerSecond` stands for 2^30.
A null `Query` that is dereferenced sets `crashed` and stops the client. `Oversized` are the
queries `encryptSendMessage` refuses, `Unresendable` those whose container, six ints
longer, it refuses too: `resendQuery` does not look at what it returns.

`SessionSystem` adds the server as the client's code knows it: it reads the abridged
stream only after the marker, refuses a wrong salt, a date too far off, or a seqNo out
of order, executes a new query once, acknowledges, answers, packs answers in
containers, repeats answers whose connection was lost. Ahead, Behind and the salt's
generations are its parameters.

### Connection

`Arrive` is TCP: any prefix of what is on the wire. `OnReadyRead`, `ReadOnce` and
`EndOfReading` are the loop of `onReadyRead`/`readMessages`. `WholeHeaders` restricts
pieces to those that do not cut a length; with it the reader is correct, without it
`LengthsGenuine` fails (below). Bytes are 0..Base-1, `Escape` stands for 0x7f and
`WordSize` for 4.

### Codec and Packets

`Codec` translates `appendInt`, `appendCString`, `serializeBignum`, `prefetchStrlen`,
`fetchStr`, `fetchInt` and the loop over a vector. A reader is a record of the memory,
`m_inPtr`, `m_inEnd` and what was fetched; it is no longer `ok` once the program reads
outside the memory or stops at an `ASSERT`. `TLString` is the format as TL defines it,
which the server writes. `Packets` gives the bytes of `Connection` a meaning: the
server writes one of `Messages`, `ProcessRpcMessage` models the queued call with
everything it calls (`workContainer`, `workRpcResult`, `workPacked`, `queryOnResult`,
`queryOnError`, the updates), `DiscardRpcMessage` its return for a bad date. A handler
knows where an item ends only by reading its fields: `Types` are the fields the server
sends, `reads` of a query those its `onAnswer` fetches. An archive is its text.
`executed` is what the signals told, `outcomes` whether every item was read to its end.

`MessagePromise` knows neither bytes nor pieces: a message sent is later taken, in its
turn, and the program is told nothing of it (`Discard`) or what is due (`Tell`). `Items`
says what is due: the modelled items that `rpcExecuteAnswer` has a case for, and the answers to
queries that no item before answered. Where an item is misread (the updates of
`updatesCombined`, the answers whose `onAnswer` leaves fields unread) the promise ends
with that item, and whatever the program is told behind it is allowed.

### LogIn

A phone page makes an Api and a session, neither of which is ever destroyed: `opened`
counts them, `main` is `mMainSession` of each Api, `sessions` all Session objects.
`executing` holds the answers of one message, so that a 303 in front of an answer
changes the session that is being read. `told` is what the user saw, and for which
query. A query written while the socket connects leaves in front of the marker:
`garbled`. So do the three queries of `onserverready`, the slot of every session that a
page makes: they go to `mMainSession` of the newest Api, whichever session became ready
(`SpoilsMain`).

### DcProvider

A DC object is a number with an address, because `onConfigReceived` replaces the object
of a DC that has moved. `state` is `DC::m_state`; `talk` and `authLink` are the
`DCAuth`; `api` is the session that asks for the configuration; `file` is `data/auth`
and outlives `Exit`, which may come at any moment. `ApiLost` is a lost connection
nobody is told of. `ServerMoves` gives the next of `Arrangements`, the addresses the
configuration lists.

### Downloads

A download is a number; `inFlight` is `mDownloadsMap` (message id to download), `waiting`
the list that waits for the file session, `rows` the photo rows of `attachments`, `open`
the one `m_downloadFile`, `disk` the files, `bytes` the parts a download has collected.
Besides the photos of contacts and chats there is the account's own
(`onUsersGetUsersAnswer`), whose row replaces those of earlier photos of the account. A
part typed partial may leave the shared file open, and the next part of any download is
written to it. `origin` is a history variable: which download opened a file, in which
state. The name of a file is the photo's id; the extension is left out. `managed` is `Settings::m_managedDownloads`,
which no code initialises: any Boolean, drawn again at each start. `m_id` is read without
having been set when the row is missing: `Stray`, any name.

### MessageStore

`messages` maps a number to a row of `messagesTab`, `contacts` a peer to its row.
`asked` and `coming` are the requests and the answers and updates under way, in the
server's order. `box`, `gone` and `seen` are the server's messages. The short forms of
an update, the answer to a history, the message fetched after `sentMessage`, and the
notes of `addGroupMember` are five ways to `insertMessage`. `toldGone`, `toldRead` and
`mine` are history variables; `mine` notes with each message the user sends the
constructor of the answer that acknowledges it. `SentAppears` is about two of the three
constructors: `sentMessageLink` is received by no slot (Observations).

## Runs

| run | asks | shows |
|---|---|---|
| `session_pair` | two sessions of one DC, two queries, one of them too large for a container, one change of salt | `MsgIdsUnique`, `SeqFollowsId`, `ResendKeepsIdentity`, `PendingConsistent`, `NoQueryForgotten` |
| `session_rough` | one query; clocks wrong and set, refused ids, a query sent in any state of the socket, a lost connection, dropped, repeated and late messages, the resend option | `IInv`, `AnswerIsFinal`, and `KeepsPromise`: the layer implements `RpcPromise` |
| `session_live` | one session, three queries, two of them too large, one change of salt, no losses | `EventuallyAnswered`, `EntriesWereSent` |
| `connection_pieces` | two of seven messages with containers, archives, errors and misread items, cut anywhere but in a length | `MessagesIntact`, `Delivered`, `ReadToTheEnd`, `WritersAgree`, and `TellsAsSent`: the session implements `MessagePromise` |
| `startup` | three starts, a DC that moves at any time, two lost connections | `ReadyMeansKeys`, `HandshakeSavedByTransferOnly`, `TransferReachesAll`, `LoginSurvives`, `FirstStartReady`, `TransferEnds` |
| `log_in_pages` | two phone pages, two numbers with different DCs, three queries, a lost connection | `MainAtWorking`, `OldSessionsClosed`, `MainAlive`, `MarkedTruly`, `OutcomeTold` |
| `photos_shared` | two overlapping downloads of two photos, of one part and of two, parts typed partial or not, the account's photo or another's, two losses or refusals, two new ids, a restart | `FilesGenuine`, `PlacedOnce`, `PhotoArrives` |
| `message_pages` | a user, a group, two messages, pages of two, two runs of the program, four deeds of the user and others | `InItsConversation`, `ToldStays`, `LostOnPurpose`, `DeletedForGood`, `SentAppears` |
| `session_null` | two changes of salt | finds `NeverNull` violated |
| `connection_split` | a length cut in two | finds `LengthsGenuine` violated |
| `startup_moved` | a restart where one DC has moved | finds `Announced` violated |
| `download_renamed` | a query that was given a new id | finds `AnswerKnown` violated |

Every module's `TypeOK` is checked in its first run.

### Bounds, and why they are enough

- Sessions share only the salt, the time difference and the last id, so two sessions
  of one DC show every interference two can have, and one is enough for the fate of a
  query. A second salt is needed for a resend, a third for a refused container; the
  passing runs stop at the second because the third one crashes the client. The
  second query of `session_pair` is sent but never resent. In `session_live` two queries
  that are too large stand beside one that must be answered: both are entered under -1.
- Clocks move by two units against margins of one and two, so that a date is
  accepted, too early and too late.
- Bytes are 0..15 and words two bytes, so that `Escape` is 7 and `Long` 14: messages of
  seven words have a long header and texts of 14 bytes a long length. The texts have 2,
  3, 5, 13 and 14 bytes, which are all remainders and both sides of the limit. Of two
  messages the second is read after the first has displaced something. TCP delivers
  pieces of 3 bytes or all there is (`PieceSizes`): with bodies of 8 bytes and more a
  body is cut in up to ten pieces at every remainder; `connection_split` uses 1 and 2.
- Two pages are enough for an answer to an Api that is no longer `mApi`, three queries
  for a code, a move and a sign-in.
- Three DCs stand for five: the working one, one that stays and one that moves. Three
  runs show a first start, a log-in and a start with it.
- Two downloads give both kinds of overlap (same photo, other photo). A part is two
  units; one photo is one unit, the other three: a full part and a short one. A part
  typed partial leaves the file open between two steps, so the parts of the other
  download meet it there.
- Four deeds are enough to write, fetch, delete and fetch again; a page of one message
  makes a history of two need two answers.

Deadlock is not checked: all these programs may stop once their bounds are used up or
nobody does anything. Counters bounded in guards are named in the `CONSTANTS`.

### Fairness

Only what the code's scheduling gives: weak fairness of the slots (the event loop
delivers every queued event), of the server's and TCP's steps, and of single-shot
timers. Nothing is assumed of the user, of closing, of clocks, of losses, or of changes
of salt. In `MessageStore` the handlers and the server's answers are fair. The runs for
liveness exclude losses by their bounds or name them in the property, because the
program does not recover from them (Observations). In `LogIn` the slots, the sockets'
steps and the answers of servers that are connected are fair; in `DcProvider` the
`DCAuth`s, the `Api` and the transfer.

## What is proved

`SessionProofs` proves, for every set of sessions, data centres and queries, every
clock, margin and bound:

| theorem | property |
|---|---|
| `Inductive` | `Spec => []IInv` |
| `TypeCorrect` | `TypeOK` |
| `UniqueIds` | `MsgIdsUnique` |
| `ResentUnchanged` | `ResendKeepsIdentity` |
| `TablesConsistent` | `PendingConsistent` |
| `EntriesAreSent` | `EntriesWereSent` |
| `NothingForgotten` | `NoQueryForgotten` |
| `Final` | the action property `AnswerIsFinal` |
| `SeqOrdered` | `SeqFollowsId` |

The assumptions are those of the modules: `DcOfAssumption`, `QueriesAssumption`,
`TimeAssumption` and `SystemAssumption`, all of them types and the positiveness of
`IdsPerSecond`; TLC evaluates them in each run.

The argument. No property is inductive alone. `MsgIdsUnique` needs `IdsDrawn`: every id
ever sent is at most `m_clientLastMsgId`, and the next is larger. `ResendKeepsIdentity`
needs `EntriesWereSent`: the entry of a query that will be resent names an item that was
sent, so the container repeats it. `AnsweredOnce` needs `PendingConsistent`: an answer is
told only by taking the entry of an unanswered query, and then no entry is left, because
a query stands under its own current id only. `NoQueryForgotten` needs that every
handler that takes an entry enters the query again or tells it. `MarkerOpensStream` and
`QueriesAtHome` keep the stream and unsent queries out of these cases. `IInv` is their
conjunction; it is checked by `session_rough` and proved with one lemma per action and
per group of conjuncts. `SeqFollowsId` adds an invariant of its own, `SeqDrawn`: every
seqNo a session has sent is below its `m_seqNo`, so the message with the next, larger
id has a larger seqNo too.

`PromiseProofs` proves the refinement, theorem `Implements`: `Spec => KeepsPromise`. For
this the client's invariant is not enough: `executed` changes at the server, `told` at the
client, and between the two lie the wires. `PromiseInv` follows a query there and back.
What is written stands under the query's present id, on one wire and once (`WireInv`,
`OnceOnWire`); an id that is refused is on no wire any more, and a query that is refused
for its date was never taken into service nor put into a container (`RefusalInv`), so
that composing it anew cannot make the server execute it twice; a query in service
has not been executed (`ServiceInv`), one that has been executed is known to the server
under its present id (`ExecutedInv`), and every answer under way says what was done
(`FinishedInv`, `AnswerInv`). The last step is `ResendKeepsIdentity`: the id of an answer
names one query, the one the table of the session holds under it.

`ConnectionProofs` proves, for any number of byte values, any word size, any messages
and any pieces, under `OneStream`:

| theorem | property |
|---|---|
| `ConnectionInvariant` | `Spec => []IInv` |
| `ConnectionTypes` | `TypeOK` |
| `MessagesArriveIntact` | `MessagesIntact` |
| `LengthsAreGenuine` | `LengthsGenuine` |

The argument: every message has a place in the stream, counted from the first byte that
is not yet read (`Order`), and the socket's buffer holds what stands there (`Agrees`);
the reader stands at the beginning of a message or as far into one as its buffer is long
(`Reads`), and the wire begins with a header or within a body (`Arrived`). A pass of the
loop moves all places by what it takes (`Shifts`). That a header is read as the length
that was written is arithmetic in base `Base` (`Digits`, `Announces`, `Decodes`).
`OneStream` says that headers come whole and that `connectToServer` is called once.
Neither can go: `connection_split` refutes `LengthsGenuine` without the first, and
`connectToServer` keeps `mOpLength` and `mBuffer`, so that a second stream begins in the
middle of a message of the first. The assumption beside the types is that a message is
whole words and its length fits in the three bytes there are for it.

`PacketsProofs` proves, for any base of bytes and width of words, any constructors, any
queries with any fields, and any set of messages, under `WholeHeaders`:

| theorem | property |
|---|---|
| `SessionUsesConnection` | `PacketsSpec => Spec`: `Packets` implements `Connection` |
| `PacketsInvariant` | `PacketsSpec => []PacketsIInv` |
| `PacketsTypes` | `PacketsTypeOK` |
| `PacketsArriveIntact` | `MessagesIntact` |
| `SessionKeepsPromise` | `TellsAsSent`: `Packets` implements `MessagePromise` |
| `AllExecutedTruly` | `ExecutedTruly`, the same as an invariant: of every call so far |
| `AllReadToTheEnd` | `ReadToTheEnd` |
| `AllWritersAgree` | `WritersAgree` |

The argument has four layers. The codec: a number that fits into a word is read as it was
written (`WordRead`: the bytes are divided out from the low end and summed up from the high
one), and the writers of strings agree byte by byte with what TL says and `fetchStr` reads
(`StringsAgree`, `TheString`). Then the handlers, twice. Whatever stands in the memory,
they only go on, tell the program more, and take from the table just the queries they told
the answer of (`Handled`); this is what holds behind a misread item, where nothing is
known of the bytes. Where an item stands as the server writes it, each handler reads just
that item and tells it (`Did`), in an archive or out of one, and one that is no misreader
leaves the reader at the end of the item. A container is followed item by item: up to the
first misread one the program is told what is due (`Exact`), and afterwards no less
(`Covers`). At last `PacketsIInv` joins this to the connection: the frames written are the
messages sent, the text a call gets is that of its message (from `IInv` of
`ConnectionProofs`), and the queries pending are those of no answer to which the
program was told (`Waiting`), so that what is due can be told from what was told before.
The refinement follows from that invariant, before a step and behind it: a call that is
processed is the next one sent, because there are no more calls than messages
(`ProcessedAsSent`), and what is due of it is reckoned in `MessagePromise` from what was told
before, in `Packets` from what was told in all calls in front of it (`SameItems`). The
steps of the connection and of the socket are stutters.

The functions in `Codec` and `Packets` are recursive, and no induction theorem of the
library can be instantiated with an operator. `Counting` takes a set in place of the
predicate: what contains 0, and each number that follows one it contains, contains all,
by the least counterexample (`WFMin`). With it a recursive function is first shown to
exist and then to be what its definition says (`ShiftedIs`, `FetchIs`, `ContainerIs`,
`DueIs`).

`PacketsAssumption` says what the server may write: numbers fit into words, texts and
archives into the length in front of them, an answer is that of the query it names and has
that query's constructor or is an error, and archives and containers hold no further ones.
What a query's `onAnswer` fetches is a beginning of what the server sends (`IsQuery`);
`updatesCombined` is part of the model as it is. TLC evaluates all of it for the messages
of `connection_pieces`. A server that breaks it can lead the program astray
(Observations).

`LogInProofs` proves, for every set of numbers, any homes of theirs among the DCs, and
every bound on pages, queries and losses:

| theorem | property |
|---|---|
| `LogInInvariant` | `Spec => []IInv` |
| `LogInTypes` | `TypeOK` |
| `PagesAskTheWorkingDc` | `MainAtWorking` |
| `OldSessionsAreClosed` | `OldSessionsClosed` |
| `MainSessionsLive` | `MainAlive` |
| `MarksAreTrue` | `MarkedTruly` |

Its assumptions are the types of the constants (`HomeAssumption` and the ones beside it).
The argument: an Api's main session changes in one place, which makes the new session to
the DC the working DC has just become and closes the old one in the same slot; sessions
are numbered as they are made, so a session that is open and not closing is the main one
of its page. `MarkedTruly` needs to know of each sign-in under way that it either goes to
the working DC or was overtaken by a move, and of each answer which query it belongs to.

`DcProviderProofs` proves, for every set of DCs, every sequence of arrangements, and
every number of starts, losses and moves:

| theorem | property |
|---|---|
| `DcProviderInvariant` | `Spec => [](IInv /\ Listed)` |
| `DcProviderTypes` | `TypeOK` |
| `ReadyMeansAllKeys` | `ReadyMeansKeys` |
| `HandshakesSaved` | `HandshakeSavedByTransferOnly` |

The argument: `mPendingDcs` is never smaller than the number of DCs without a key less
one (`Counting`: every `DCAuth` that is made was counted, and is discounted once, when it
ends); no exchange runs while the configuration is unknown; and a DC whose log-in is
transferred has its key. So when the count passes zero no DC is left without one. The
assumption beside the types is `DcsStay`: configurations add DCs and move them, none
drops one, and there are at most `AllDcs`. The program writes the number five for them
(`dcprovider.cpp:296`); for a server that lists more, or drops one,
`ReadyMeansKeys` is not proved.

Its second part adds, for the same constants and as long as nothing was lost or moved
(`Undisturbed`, part of both properties), under `Contiguous`:

| theorem | property |
|---|---|
| `TransferInvariant` | `Spec => []Calm` |
| `EveryDcIsReached` | `TransferReachesAll` |
| `LoginOutlivesRuns` | the action property `LoginSurvives` |

The argument: until something is lost the file and, once there is an answer to
`getConfig`, `mDcs` name exactly the DCs of the configuration (`FileWhole`,
`TableWhole`), so no DC is made anew after the user has signed in; whoever is signed in
anywhere is signed in at the working DC, and the view tells it (`SignIn`); then every key
is there, so no exchange runs that could end in `fatalError`, and every DC has the log-in
or a session of the transfer (`Covered`). `Contiguous` says that the DCs are numbered
from 1 without a gap: `ApplicationUI::init` takes the DC it asks for the log-in from
`mDcs.values()` at the number less one, which is another DC when a number is missing.
`NoFileAssumption` tells a missing file from every file.

`DownloadsProofs` proves, for any DCs, photos and bounds:

| theorem | property |
|---|---|
| `DownloadsInvariant` | `Spec => []IInv` |
| `DownloadsTypes` | `TypeOK` |
| `PlacedInTables` | `PlacedOnce`, for photos and parts of any size |
| `PhotosGenuine` | `FilesGenuine`, for photos and parts of any size, typed partial or not |

The argument: what is asked for and still known asks for the part its download needs
next (`AsksNext`), so an answer that finds a download takes its one entry and either
ends it or enters it again under a new id; a list that is replaced holds nobody but
downloads whose attempt failed (`WaitsForSomething`). For the files a second invariant,
`GInv`, stands beside it: each row names the photo of its download (`RowsTrue`), so the
file a download opens bears its photo's name if it had a row; a download that is in the
tables has collected its photo just up to its offset (`Collects`), and what is asked for
begins there (`AsksNext`), so a part continues what was collected whatever came between;
a file that is open was left open by a part typed partial (`OpenShared`), and from then on
`FilesGenuine` claims only its beginning. The assumption beside the types is that `None`,
`Stray` and the photos' names differ.

`MessageStoreProofs` proves, for any users, chats, messages, page lengths and bounds:

| theorem | property |
|---|---|
| `MessageStoreInvariant` | `Spec => []IInv` |
| `MessageStoreTypes` | `TypeOK` |
| `PagesAreTheirOwn` | `InItsConversation` |
| `ToldIsKept` | `ToldStays` |
| `LosesOnPurpose` | the action property `LostOnPurpose` |
| `DeletedStaysAway` | the action property `DeletedForGood` |

The argument: every row has its author and addressee from the server's message, or from
the note it is (`Stored`), and the columns the pages select by follow from those two. The
queue under way is the hard part: a copy of a message in an answer was true when the
server sent it, and what makes it untrue later, a deletion or a reading, is told by an
update behind it; so whatever stands in front of a copy in the queue says nothing that
the copy denies (`OnTheWay`), and no older copy can arrive after the news. The proof needs
that answers and updates share one order; what a lost connection takes from the queue
changes nothing of the rest (`Loses`). A message the server has deleted is in no answer it
composes afterwards and its number is not drawn again; so when it is neither in the table
nor in the queue, no step brings it back (`Away`, and a lemma for each actor). Pages are
cut from
`NewestFirst`, a CHOOSE; that there is such an order is proved by least counterexample
(`InOrder`, from the library's `WFMin`). The assumptions are that users and chats share no
number, nor messages and notes, and that there are finitely many of both.

## What is only model-checked

- Liveness under fairness and everything about ENABLED: `EventuallyAnswered`,
  `Delivered`, `OutcomeTold`, `FirstStartReady`, `TransferEnds`, `PhotoArrives`,
  `SentAppears`; and the violated ones.
- Every safety property of a passing run is a theorem; liveness is not, nor that the
  handlers are called at all.
- `NeverNull` is no theorem: it is what the code means and `session_null` finds violated.

## Findings

1. `session_null`: `workBadServerSalt` takes the query under the refused id from the
   table and dereferences it (`session.cpp:411`, under the comment "resend the last
   query"). A query resent after a change of salt travels in a
   container with an id of its own, which is in no table; when a second change refuses
   the container, the query is null.
2. `connection_split`: the three bytes of a long length may arrive in two pieces; the
   reader takes what there is and the stream is misread from then on.
3. `startup_moved`: on a restart where one DC has moved `mPendingDcs` passes zero one
   event short of the check that emits the signal, and `dcProviderReady` is never
   emitted although every DC has its key.
4. `download_renamed`: `mDownloadsMap` is keyed by the id of the message; a query the
   session composed anew is answered under another one, `take` returns 0 and is
   dereferenced two lines after `Q_ASSERT(f)`.

## Observations

Real behaviours met while modelling, which no run states as a property.

Session: `timeout()` is connected to nothing (`session.cpp:557`), whatever
`settings.h:144` says of resending. An acknowledgement that follows the result of its
query dereferences null (`:276`; `AckAfterResult` in `session_rough`). A query
refused for its date is composed anew with the session's stale copy of the time
difference and refused again, for ever (`:457`). The comment at `:44` speaks of copies,
but the salt is shared. `m_clientLastMsgId` is static: a session whose clock was wrong
spoils the ids of all. A query that is too large is entered under -1 and never answered. One that
fits but whose container does not is lost when the salt changes: `resendQuery` ignores
that `encryptSendMessage` returned -1 (`:596`).

Reading: `updatesCombined` lacks a return and falls into `workUpdates` (`:197`), which
reads the next item, or what fills up the message, as another update. The answers of
`sendCode` and `signIn` are not read to their end (`api.cpp:289`, `:357`), so in a
container the next item is read from the wrong place (`session.cpp:254`; its assertion
is compiled out, that of `abstractapi.cpp:74` commented out). The macro `ASSERT`
(`constants.h:25`) is active in a release and ends the program at an update it does not
know, whereas `mAsserter.check` only emits `fatalError` and goes on. `phoneRegistered`
is read as an integer and always true. When `tinflate` fails the buffer of the last
archive is read again.

Connection: `connectToServer` keeps `mOpLength` and `mBuffer` of the last connection
(`connection.cpp:84`). `error()` is connected to nothing, so a lost connection is never
opened again although `constants.h:60` names a reconnect delay.

DcProvider: five DCs are hard-coded (`dcprovider.cpp:296`). On a first start a failed
configuration leaves the bootstrap DC alone as "all" (`:222`). The export is sent before
the stream's marker when the transfer sessions are ready before the main session
(`:343`), and the transfer then never ends. Its end saves DCs in the middle of their
exchange (`:374`) and may report completion while a DC that moved is not signed in
(`:375`).

DcProvider and log-in: a working DC that moves while the log-in is transferred is saved
without its key, and the log-in is lost.

Keys: `dcauth.cpp:326` fills a key of less than 256 bytes up behind instead of in front,
so one exchange in 256 ends with keys that differ; this explains the comment "XXX failed
once!" (`:371`). The failed check removes the file and goes on, the DC counts as one with
a key, and the next save writes it; no later start makes a new exchange.
`padRsaEncrypt` encrypts the same first 255 bytes for every chunk.

Log-in: "Switching DataCenter Please try Again" is shown at once, and whoever does so
before the new session is connected writes in front of the marker, which ruins the
stream (`connection.cpp:152`). Errors other than 303 and 400 tell the user nothing, and
the toast for 400 is never shown, since `if("PHONE_NUMBER_UNOCCUPIED")` is always true.
Two phone pages each push a page for the code. A sign-in answered after another number
moved the working DC marks the wrong DC (`applicationui.cpp:368`); `MarkedTruly` names
this case. The first queries go out without the initConnection prefix that
`session.h:95` speaks of. `dcchange` passes null for a DC it does not know.
`onserverready` asks for contacts before the log-in, and asks them of the newest Api's main
session, also when the session that became ready is an older page's; if the newest is
still connecting its stream is ruined.

SessionManager: the old main session is not deleted after `changeMainSessionToDc`; the
use counts of file sessions never fall, because `sessionReleased` is connected to
nothing; `resetFileSessions` is never called.

Downloads: a file in several parts is truncated at each part when downloads are not
managed, so that only its last part stays; a file left open by a part typed partial is
continued with the parts of whatever download comes next; a download whose row a later
photo has taken writes under any name; the list of those who wait for a file session is
replaced by the download that comes after a failed attempt. `m_managedDownloads`,
`m_downloadFileExpectedLength` and `m_id` are read without having been set.

Messages: `getDialogs` and `getContacts` are asked for together, and the answer to the
second one deletes the rows of chats the first has inserted (`applicationui.cpp:410`).
The first version of a message stays, since a second insert violates the primary key.
`setinitfalse` always deletes rows of type 'chat', so opening a user's page removes that
user's messages from all group chats, while the page's own rows stay. An
`updateNewMessage` to the account updates the row of the account, which does not exist,
and not the sender's line in the list. The line shows a message of an older page after
loading more. A text acknowledged by `sentMessageLink` is never stored: its signal is
connected to a signal that `ApplicationUI` does not declare. Updates missed while the
program was off are not fetched (`onUpdatesTooLong` does not exist). A message the user
deleted comes back with a history under way and then stays (`DeletedForGood` states that
this is the only way). The number of a note is drawn by `rand()`
and may be a message's. Service messages are never stored. An answer with exactly one
foreign message emits neither signal, so the page's spinner does not end. Other signals
of `changeServer` that never connect: `messagesGetMessagesMessagesSlice`,
`messagesForwardMsgsStatedMessages`, `sessionClosed(qint32)`; `contactsBlockResult` goes
to the slot for unblocking.

## What is not modelled, and why

Encryption, hashes, the factorisation of pq and the checks of the key exchange: numbers
of many bytes, out of TLC's reach, and calls of OpenSSL; a key that comes out short
(above) is not among the outcomes of `DcProvider`'s exchange. The hundreds of
constructors of the API's types, plain data, of which `Packets` has one of each shape,
and the table of query methods in `api.cpp`, which keeps no state; `auth.signUp` and
`switchDC`, which nothing calls; the QML layout; broadcasts, favourites,
themes and attachments other than photos; uploads, for which the program has no
caller; dates and the order of rows within a page; a connection that reorders, which
TCP does not do.

In `MessageStore` users and chats share no number, although both are keys of `contacts`;
a user with the number of a chat would share its row and its page.

## Plan

1. The short key in `DcProvider`, with a property for what may be saved.
2. `Broadcasts`: the tables of broadcast lists and the copies of a message sent to one.
