------------------------------ MODULE Downloads ------------------------------
(***************************************************************************)
(* The photos of contacts and chats: ApplicationUI::DownloadImageThumb and *)
(* uploadGetFile, the answers of upload.getFile, the file they are written *)
(* to, and the file sessions of SessionManager they travel on.             *)
(*                                                                         *)
(* A DC has at most one file session: mDcResourceCounts counts the files   *)
(* that use it, File::~File releases it, and sessionReleased is connected  *)
(* to nothing, so the count never falls and the session is never closed.   *)
(* It is connected by the download that finds it unconnected, and nobody   *)
(* opens it again when it is lost.                                         *)
(*                                                                         *)
(* The session layer is taken at its word (RpcPromise): a query is answered*)
(* at most once.  Recompose is what workBadMsgNotification does to a query:*)
(* it gets another message id, which the answer will carry.                *)
(*                                                                         *)
(* A photo is a sequence of units, Block of which fill one part.  Its name *)
(* on the disk is its id.                                                  *)
(*                                                                         *)
(* A definition marked "Mistake" is a plausible bug of the code modelled by*)
(* the definition that follows it; no other definition uses it.            *)
(***************************************************************************)
EXTENDS Integers, SequencesExt, FiniteSets

CONSTANTS
  Dcs,           \* the data centres
  Photos,        \* the photos users and chats have
  Own,           \* those of the account
  DcOf,          \* the DC a photo is stored at
  SizeOf,        \* its size in units
  Block,         \* units in a part (512 KB)
  Stray,         \* a file name that is no photo's
  None,
  PartTypes,     \* is a part's storage type "partial": what the server may say
  MaxFiles,      \* bound: DownloadFile objects created
  MaxRuns,       \* bound: runs of the program
  MaxLost,       \* bound: connections lost
  MaxRecomposed  \* bound: queries that get another message id

ASSUME PhotosAssumption ==
  /\ DcOf \in [Photos -> Dcs] /\ SizeOf \in [Photos -> Nat \ {0}]
  /\ Block \in Nat \ {0} /\ PartTypes \subseteq BOOLEAN
  /\ Own \subseteq Photos /\ Stray \notin Photos /\ None \notin Photos \cup {Stray}
ASSUME BoundsAssumption ==
  MaxFiles \in Nat /\ MaxRuns \in Nat /\ MaxLost \in Nat /\ MaxRecomposed \in Nat

VARIABLES
  managed,    \* Settings::m_managedDownloads, which nothing initialises
  link,       \* the file session of a DC: none, unconnected, connecting, connected
  photo,      \* the DownloadFile objects in the order of their creation, each with
              \* the photo it is for; the place stands for m_id, a random number
  offset,     \* m_offset: the units received
  bytes,      \* m_bytes: those kept until the photo is complete
  active,     \* mActiveDownloadsMap
  waiting,    \* mInitialDownloadsMap, by the DC of the session
  inFlight,   \* mDownloadsMap: message id -> DownloadFile
  rows,       \* the attachments table
  open,       \* the name m_downloadFile is open with
  disk,       \* file name -> content
  queries,    \* queries the server has not executed
  replies,    \* its answers that will still arrive
  lastId,     \* the last message id
  crashed,    \* a null DownloadFile has been dereferenced
  origin,     \* history: file name -> the download that opened it, at what offset it
              \* was, whether it had a row, whether it had collected its parts, and
              \* whether the file has been left open
  victims,    \* history: downloads that waited for an attempt that failed
  runs, lost, recomposed  \* the bounded counters

memory == <<link, offset, bytes, active, waiting, inFlight, open>>
wire   == <<queries, replies, lastId>>
stored == <<rows, disk, origin>>
counts == <<runs, lost, recomposed>>
vars   == <<managed, photo, memory, stored, wire, crashed, victims, counts>>

Files == 1..MaxFiles
Links == {"none", "unconnected", "connecting", "connected"}
Names == Photos \cup {Stray}
Query == [id : Nat, dc : Dcs, file : Files, offset : Nat]
Row   == [id : Photos, messageid : Files, type : {"userprofile", "userphotomsgid"}]
Origin == [file : Files, at : Nat, named : BOOLEAN, collected : BOOLEAN,
           shared : BOOLEAN]

Running == ~crashed
Whole(p) == [i \in 1..SizeOf[p] |-> <<p, i>>]
\* The units of a photo from an offset on, a part at most, which is what the server
\* sends for a query.
Part(p, at) ==
  LET n == IF SizeOf[p] <= at THEN 0
           ELSE IF SizeOf[p] - at < Block THEN SizeOf[p] - at ELSE Block
  IN  [i \in 1..n |-> <<p, at + i>>]
Bytes(q) == Part(photo[q.file], q.offset)

---------------------------------------------------------------------------
(* Asking. *)

\* Api::uploadGetFile for the files of a list: message ids in the order of the
\* list; a socket that is not up loses what is written.
SendParts(dc, list, at, table, up) ==
  LET ids == 1..Len(list)
      q(i) == [id |-> lastId + i, dc |-> dc, file |-> list[i], offset |-> at[list[i]]]
  IN  /\ lastId' = lastId + Len(list)
      /\ inFlight' = [x \in DOMAIN table \cup {lastId + i : i \in ids} |->
                        IF x > lastId THEN list[x - lastId] ELSE table[x]]
      /\ queries' = IF up THEN queries \cup {q(i) : i \in ids} ELSE queries

\* Mistake: the row notes the message id of the query.
RegisterMsgId(f, p) ==
  rows' = {r \in rows : r.id # p} \cup
          {[id |-> p, messageid |-> lastId, type |-> "userprofile"]}

\* DownloadImageThumb: the rows of earlier downloads of the same photo go.
Register(f, p) ==
  rows' = {r \in rows : r.id # p} \cup {[id |-> p, messageid |-> f, type |-> "userprofile"]}

\* onUsersGetUsersAnswer: the rows of earlier photos of the account go.
RegisterOwn(f, p) ==
  rows' = {r \in rows : r.type # "userphotomsgid"} \cup
          {[id |-> p, messageid |-> f, type |-> "userphotomsgid"]}

\* Mistake: a download that finds the session unconnected only queues.
Enqueue(f, dc) ==
  /\ waiting' = [waiting EXCEPT ![dc] = Append(@, f)]
  /\ link' = link
  /\ UNCHANGED <<inFlight, queries, lastId>>

\* uploadGetFile's switch: wait for the connection being made, send, or connect
\* and be the first to wait; the list insert replaces is lost.
Enter(f, dc) ==
  \/ /\ link[dc] = "connecting"
     /\ waiting' = [waiting EXCEPT ![dc] = Append(@, f)]
     /\ UNCHANGED <<link, inFlight, queries, lastId>>
  \/ /\ link[dc] = "connected"
     /\ SendParts(dc, <<f>>, offset, inFlight, TRUE)
     /\ UNCHANGED <<link, waiting>>
  \/ /\ link[dc] \in {"none", "unconnected"}
     /\ waiting' = [waiting EXCEPT ![dc] = <<f>>]
     /\ link' = [link EXCEPT ![dc] = "connecting"]
     /\ UNCHANGED <<inFlight, queries, lastId>>

\* uploadGetFile: a DownloadFile is made and sent or left to wait.
UploadGetFile(p) ==
  LET f == Len(photo) + 1 IN
  /\ Running /\ f \in Files
  /\ photo' = Append(photo, p)
  /\ active' = active \cup {f}
  /\ Enter(f, DcOf[p])
  /\ UNCHANGED <<managed, offset, bytes, open, disk, origin, replies, crashed, victims, counts>>

DownloadImageThumb(p) == UploadGetFile(p) /\ Register(Len(photo) + 1, p)

\* Users and chats that arrive ask for a photo that has no file yet, an update of
\* a user's photo in any case.
OnContactsContacts(p) == p \notin DOMAIN disk /\ DownloadImageThumb(p)
UpdateUserPhoto(p)    == p \in DOMAIN disk /\ DownloadImageThumb(p)

\* The account's own photo, when it has no file yet.
OnUsersGetUsersAnswer(p) ==
  /\ p \notin DOMAIN disk
  /\ UploadGetFile(p) /\ RegisterOwn(Len(photo) + 1, p)

\* Mistake: the list is read and not taken out of the map.
ReadWaiting(dc) ==
  /\ Running /\ link[dc] = "connecting"
  /\ link' = [link EXCEPT ![dc] = "connected"]
  /\ SendParts(dc, waiting[dc], offset, inFlight, TRUE)
  /\ UNCHANGED <<managed, photo, offset, bytes, active, waiting, open, stored, replies, crashed,
                 victims, counts>>

\* Session::processConnected and onUploadGetFileSessionCreated.
OnUploadGetFileSessionCreated(dc) ==
  /\ Running /\ link[dc] = "connecting"
  /\ link' = [link EXCEPT ![dc] = "connected"]
  /\ waiting' = [waiting EXCEPT ![dc] = <<>>]
  /\ SendParts(dc, waiting[dc], offset, inFlight, TRUE)
  /\ UNCHANGED <<managed, photo, offset, bytes, active, open, stored, replies, crashed, victims,
                 counts>>

---------------------------------------------------------------------------
(* Receiving. *)

\* Where a download writes when no file is open: under its photo's id or, without a
\* row, under what m_id happens to hold.
Owns(f) == {r \in rows : r.messageid = f}
NamesFor(f) == IF Owns(f) = {} THEN Names ELSE {r.id : r \in Owns(f)}

\* A file is opened for a download, and perhaps left open.
OpenedFor(f, close) ==
  [file |-> f, at |-> offset[f], named |-> Owns(f) # {}, collected |-> managed,
   shared |-> ~close]

\* Mistake: an existing file is continued instead of emptied.
StoreAppends(f, data, partial) ==
  \E name \in NamesFor(f) :
    /\ disk' = [n \in DOMAIN disk \cup {name} |->
                  IF n # name THEN disk[n]
                  ELSE IF n \in DOMAIN disk THEN disk[n] \o data ELSE data]
    /\ origin' = [n \in DOMAIN disk' |-> IF n = name THEN OpenedFor(f, TRUE) ELSE origin[n]]
    /\ UNCHANGED open

\* The second onUploadGetFileAnswer: write to the file that is open or open one, which
\* empties it; close it unless the part is typed partial and shorter than an
\* uninitialised length.
Store(f, data, partial) ==
  \E close \in IF partial THEN BOOLEAN ELSE {TRUE} :
    \/ /\ open = None
       /\ \E name \in NamesFor(f) :
            /\ disk' = [n \in DOMAIN disk \cup {name} |-> IF n = name THEN data ELSE disk[n]]
            /\ origin' = [n \in DOMAIN disk' |->
                             IF n = name THEN OpenedFor(f, close) ELSE origin[n]]
            /\ open' = IF close THEN None ELSE name
    \/ /\ open # None
       /\ disk' = [disk EXCEPT ![open] = @ \o data]
       /\ origin' = origin
       /\ open' = IF close THEN None ELSE open

Answered(r) == [x \in DOMAIN inFlight \ {r.id} |-> inFlight[x]]

\* The next part is asked for on the same session, whatever became of it.
AskNext(r) ==
  LET at == [offset EXCEPT ![r.file] = @ + Len(Bytes(r))] IN
  /\ SendParts(r.dc, <<r.file>>, at, Answered(r), link[r.dc] = "connected")
  /\ offset' = at
  /\ UNCHANGED active

FinishDownload(r) ==
  /\ active' = active \ {r.file}
  /\ inFlight' = Answered(r)
  /\ UNCHANGED <<offset, bytes, queries, lastId>>

\* The flag is set: parts are collected and stored when a short one has come; a
\* first part that is short is followed by an empty one.
CollectPart(r, partial) ==
  LET whole == bytes[r.file] \o Bytes(r) IN
  \/ /\ Len(Bytes(r)) = Block \/ offset[r.file] = 0
     /\ bytes' = [bytes EXCEPT ![r.file] = whole]
     /\ AskNext(r)
     /\ UNCHANGED <<open, stored>>
  \/ /\ Len(Bytes(r)) # Block /\ offset[r.file] # 0
     /\ Store(r.file, whole, partial) /\ UNCHANGED rows
     /\ FinishDownload(r)

\* The flag is not set: every part is stored as it comes.
StorePart(r, partial) ==
  /\ Store(r.file, Bytes(r), partial) /\ UNCHANGED rows
  /\ \/ Len(Bytes(r)) = Block /\ AskNext(r) /\ UNCHANGED bytes
     \/ Len(Bytes(r)) # Block /\ FinishDownload(r)

\* The first onUploadGetFileAnswer; DownloadImageThumb announces no size, so
\* expectedSize is 0 until a part is short.
OnUploadGetFileAnswer(r, partial) ==
  /\ Running /\ r \in replies /\ r.id \in DOMAIN inFlight
  /\ replies' = replies \ {r}
  /\ \/ managed /\ CollectPart(r, partial)
     \/ ~managed /\ StorePart(r, partial)
  /\ UNCHANGED <<managed, link, photo, waiting, crashed, victims, counts>>

\* mDownloadsMap.take returns 0 for an id it does not hold, and f->id() follows.
OnUnknownAnswer(r) ==
  /\ Running /\ r \in replies /\ r.id \notin DOMAIN inFlight
  /\ crashed' = TRUE
  /\ UNCHANGED <<managed, photo, memory, stored, wire, victims, counts>>

---------------------------------------------------------------------------
(* The server, the network and the end of a run. *)
Uncounted == <<managed, photo, memory, stored, crashed, victims>>

ServerSendsPart(q) ==
  /\ Running /\ q \in queries
  /\ queries' = queries \ {q} /\ replies' = replies \cup {q}
  /\ UNCHANGED <<Uncounted, lastId, counts>>

\* The server refuses: uploadFileError is connected to nothing.
ServerRefuses(q) ==
  /\ Running /\ q \in queries /\ lost < MaxLost
  /\ queries' = queries \ {q}
  /\ lost' = lost + 1
  /\ UNCHANGED <<Uncounted, replies, lastId, runs, recomposed>>

Recompose(q) ==
  /\ Running /\ q \in queries /\ recomposed < MaxRecomposed
  /\ lastId' = lastId + 1
  /\ queries' = (queries \ {q}) \cup {[q EXCEPT !.id = lastId + 1]}
  /\ recomposed' = recomposed + 1
  /\ UNCHANGED <<Uncounted, replies, runs, lost>>

\* Some answers have arrived, or will be repeated on the next connection.
ConnectionLost(dc) ==
  /\ Running /\ lost < MaxLost /\ link[dc] \in {"connecting", "connected"}
  /\ lost' = lost + 1
  /\ link' = [link EXCEPT ![dc] = "unconnected"]
  /\ queries' = {q \in queries : q.dc # dc}
  /\ \E kept \in SUBSET {r \in replies : r.dc = dc} :
       replies' = {r \in replies : r.dc # dc} \cup kept
  /\ victims' = victims \cup {waiting[dc][i] : i \in DOMAIN waiting[dc]}
  /\ UNCHANGED <<managed, photo, offset, bytes, active, waiting, inFlight, open, stored, lastId,
                 crashed, runs, recomposed>>

\* The program ends; the database and the disk stay.
Exit ==
  /\ Running /\ runs < MaxRuns
  /\ runs' = runs + 1
  /\ managed' \in BOOLEAN
  /\ link' = [dc \in Dcs |-> "none"] /\ waiting' = [dc \in Dcs |-> <<>>]
  /\ active' = {} /\ inFlight' = <<>> /\ open' = None
  /\ queries' = {} /\ replies' = {} /\ victims' = {}
  /\ UNCHANGED <<photo, offset, bytes, stored, lastId, crashed, lost, recomposed>>

Init ==
  /\ managed \in BOOLEAN
  /\ link = [dc \in Dcs |-> "none"] /\ waiting = [dc \in Dcs |-> <<>>]
  /\ photo = <<>> /\ offset = [f \in Files |-> 0] /\ bytes = [f \in Files |-> <<>>]
  /\ active = {} /\ inFlight = <<>> /\ open = None
  /\ rows = {} /\ disk = <<>> /\ origin = <<>>
  /\ queries = {} /\ replies = {} /\ lastId = 0
  /\ crashed = FALSE /\ victims = {}
  /\ runs = 1 /\ lost = 0 /\ recomposed = 0

Next ==
  \/ \E p \in Photos : OnContactsContacts(p) \/ UpdateUserPhoto(p)
  \/ \E p \in Own : OnUsersGetUsersAnswer(p)
  \/ \E dc \in Dcs : OnUploadGetFileSessionCreated(dc) \/ ConnectionLost(dc)
  \/ \E r \in replies :
       OnUnknownAnswer(r) \/ \E partial \in PartTypes : OnUploadGetFileAnswer(r, partial)
  \/ \E q \in queries : ServerSendsPart(q) \/ ServerRefuses(q) \/ Recompose(q)
  \/ Exit

Spec == Init /\ [][Next]_vars

\* The event loop, the network and the server go on.
FairSpec ==
  /\ Spec
  /\ \A dc \in Dcs : WF_vars(OnUploadGetFileSessionCreated(dc))
  /\ WF_vars(\E q \in queries : ServerSendsPart(q))
  /\ WF_vars(\E r \in replies, partial \in PartTypes : OnUploadGetFileAnswer(r, partial))

---------------------------------------------------------------------------
TypeOK ==
  /\ managed \in BOOLEAN /\ crashed \in BOOLEAN
  /\ link \in [Dcs -> Links] /\ waiting \in [Dcs -> Seq(Files)]
  /\ photo \in Seq(Photos) /\ Len(photo) <= MaxFiles /\ offset \in [Files -> Nat]
  /\ active \subseteq Files /\ victims \subseteq Files
  /\ inFlight \in [DOMAIN inFlight -> Files] /\ DOMAIN inFlight \subseteq 1..lastId
  /\ rows \subseteq Row
  /\ open \in DOMAIN disk \cup {None} /\ DOMAIN disk \subseteq Names
  /\ \A n \in DOMAIN disk : disk[n] \in Seq(Photos \X (Nat \ {0}))
  /\ origin \in [DOMAIN disk -> Origin]
  /\ bytes \in [Files -> Seq(Photos \X (Nat \ {0}))]
  /\ queries \subseteq Query /\ replies \subseteq Query /\ lastId \in Nat
  /\ runs \in Nat /\ lost \in Nat /\ recomposed \in Nat

\* m_downloadFile is shared by all downloads.  However they overlap, a file begins
\* with what the download that opened it brought, the whole photo where parts are
\* collected and the part it was at where they are not, and holds nothing else unless
\* a part typed partial has left it open; it bears the photo's name where that
\* download had a row.
Brought(o) == IF o.collected THEN Whole(photo[o.file]) ELSE Part(photo[o.file], o.at)
FilesGenuine ==
  \A name \in DOMAIN disk :
    LET o == origin[name] IN
    /\ o.named => name = photo[o.file]
    /\ IsPrefix(Brought(o), disk[name])
    /\ ~o.shared => disk[name] = Brought(o)

\* An active download waits for its session or for one answer, and stands in the
\* tables once, so that no part of it is asked for twice and none is forgotten;
\* only the ones whose connection attempt failed may be dropped (the next download
\* replaces the list they wait in).
Places(f) ==
  {<<"id", x>> : x \in {y \in DOMAIN inFlight : inFlight[y] = f}} \cup
  UNION {{<<dc, i>> : i \in {j \in DOMAIN waiting[dc] : waiting[dc][j] = f}} : dc \in Dcs}
PlacedOnce ==
  \A f \in Files :
    Cardinality(Places(f)) <= 1 /\ (f \in active \ victims => Places(f) # {})

\* Q_ASSERT(f) in onUploadGetFileAnswer: an answer is for a known download.
AnswerKnown == ~crashed

\* A photo that was asked for arrives on the disk, whatever is downloaded at the
\* same time, unless a connection fails, the server refuses, the program ends, a file
\* is left open, or a newer photo of the account has taken its row.  Where parts are
\* not collected its last part is what stays; a download without a row may write over
\* it.
Disturbed ==
  lost > 0 \/ recomposed > 0 \/ runs > 1 \/ \E name \in DOMAIN disk : origin[name].shared
LastPart(p) == Part(p, (SizeOf[p] \div Block) * Block)
Arrived(p) ==
  p \in DOMAIN disk /\ (origin[p].named => disk[p] = IF managed THEN Whole(p) ELSE LastPart(p))
PhotoArrives ==
  \A p \in Photos :
    (\E f \in active : photo[f] = p)
      ~> Disturbed \/ Arrived(p) \/ \A r \in rows : r.id # p
=============================================================================
