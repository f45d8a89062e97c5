---------------------------- MODULE MessageStore ----------------------------
(***************************************************************************)
(* The conversations ApplicationUI keeps in SQLite: the tables messagesTab *)
(* and contacts of src/src/database.cpp, the slots of applicationui.cpp    *)
(* that fill them from answers and updates, and what the pages of the user *)
(* interface (src/assets/Chats) ask and delete.                            *)
(*                                                                         *)
(* The account's messages are numbered by the server.  The server executes *)
(* requests and sends answers and updates in one order; a connection that  *)
(* is lost takes what is under way with it, and nothing fetches the updates*)
(* missed.  The tables outlive a run of the program.                       *)
(*                                                                         *)
(* Text, dates and names are left out: a row of contacts holds the number  *)
(* of the message its latestmessage is the text of.  Users and chats share *)
(* no number, and a number drawn by rand() is none of the server's.        *)
(*                                                                         *)
(* A definition marked "Mistake" is a plausible bug of the code modelled by*)
(* the definition that follows it; no other definition uses it.            *)
(***************************************************************************)
EXTENDS Integers, Sequences, FiniteSets

CONSTANTS
  Me,         \* the account
  Users,      \* the users it talks to
  Contacts,   \* those in its contact list
  Chats,      \* its group chats
  Ids,        \* numbers of the server's messages
  Notes,      \* numbers rand() draws for the notes of group members
  None,
  Kinds,      \* "text", which stands for media too, and "service"
  Page,       \* messages in one answer of messages.getHistory (20)
  MaxRuns,    \* bound: runs of the program
  MaxDeeds,   \* bound: what the user and others do
  MaxQueue    \* bound: requests, answers and updates under way before another one starts

Peers == Users \cup Chats

ASSUME PeersAssumption ==
  /\ Me \notin Peers /\ None \notin Peers \cup {Me} /\ Users \cap Chats = {}
  /\ Contacts \subseteq Users
ASSUME NumbersAssumption ==
  /\ Ids \subseteq Nat \ {0} /\ Notes \subseteq Nat \ {0} /\ Ids \cap Notes = {}
  /\ None \notin Ids \cup Notes /\ IsFiniteSet(Ids) /\ IsFiniteSet(Notes)
  /\ Kinds \subseteq {"text", "service"} /\ Page \in Nat \ {0}
  /\ MaxRuns \in Nat /\ MaxDeeds \in Nat /\ MaxQueue \in Nat

VARIABLES
  net,       \* off: the program does not run; online; cut: it runs, unconnected
  messages,  \* messagesTab
  contacts,  \* contacts, without the broadcast lists
  asked,     \* requests the server has not executed
  coming,    \* its answers and updates, in the order it sent them
  box,       \* the account's messages at the server
  gone,      \* those deleted there
  seen,      \* those read
  toldGone, toldRead,  \* history: what updates have told this client
  mine,      \* history: messages sent in this run, each with the constructor of the answer
             \* that acknowledged it
  runs, deeds  \* the bounded counters

tables == <<messages, contacts>>
server == <<box, gone, seen>>
told   == <<toldGone, toldRead>>
vars   == <<net, tables, asked, coming, server, told, mine, runs, deeds>>

Request ==
  [op : {"dialogs", "contacts"}] \cup
  [op : {"history"}, peer : Peers, offset : Nat] \cup
  [op : {"send", "clear"}, peer : Peers] \cup
  [op : {"forward"}, id : Ids \cup Notes, peer : Peers] \cup
  [op : {"get", "delete"}, id : Ids \cup Notes]

\* A message as an answer or an update states it, and what the server sends.
Copy == [id : Ids, from : Users \cup {Me}, to : Peers \cup {Me}, kind : {"text", "service"},
         read : BOOLEAN]
Answer ==
  [op : {"messages"}, list : Seq(Copy)] \cup [op : {"new"}, message : Copy] \cup
  [op : {"shortMessage"}, id : Ids, from : Users] \cup
  [op : {"shortChatMessage"}, id : Ids, from : Users, chat : Chats] \cup
  [op : {"sent", "read", "deleted"}, id : Ids] \cup
  [op : {"contactLink"}, user : Users] \cup
  [op : {"dialogs"}, latest : UNION {[S -> Ids] : S \in SUBSET Peers}] \cup
  [op : {"contacts", "participants"}]

Acknowledgements == {"sentMessage", "sentMessageLink", "statedMessage"}

Running == net # "off"

---------------------------------------------------------------------------
(* The tables. *)

\* A message as it reaches insertMessage; to is None when toId is not set.
TypeOfRow(m) == IF m.to \in Chats THEN "chat" ELSE "contact"
Row(m) == [from |-> m.from, to |-> m.to, type |-> TypeOfRow(m), read |-> m.read]
LineOf(m) == IF m.to = None THEN m.from ELSE m.to

\* insertMessage, first half, for a list that holds a message once: id is the primary
\* key, so the first version of a message stays; a service message is not inserted.
AddRows(list) ==
  LET new == {n \in DOMAIN list : list[n].kind # "service" /\ list[n].id \notin DOMAIN messages}
      nth(i) == CHOOSE n \in new : list[n].id = i
  IN  messages' = [i \in DOMAIN messages \cup {list[n].id : n \in new} |->
                     IF i \in DOMAIN messages THEN messages[i] ELSE Row(list[nth(i)])]

\* Mistake: the row is made when there is none.
InsertOrShow(list) ==
  contacts' = [p \in DOMAIN contacts \cup {LineOf(list[n]) : n \in DOMAIN list} |->
    IF \A n \in DOMAIN list : LineOf(list[n]) # p THEN contacts[p]
    ELSE [latest |-> list[CHOOSE n \in DOMAIN list : LineOf(list[n]) = p].id,
          init |-> p \in DOMAIN contacts /\ contacts[p].init]]

\* insertMessage, second half: an update of the row of toId, or of fromId when there is
\* no toId, whether or not its message was newer.  The list goes in from its end, so
\* the first message for a row is the one that stays.
ShowLatest(list) ==
  LET for(p) == {n \in DOMAIN list : LineOf(list[n]) = p}
      first(p) == CHOOSE n \in for(p) : \A k \in for(p) : n <= k
  IN  contacts' = [p \in DOMAIN contacts |->
                     IF for(p) = {} THEN contacts[p]
                     ELSE [contacts[p] EXCEPT !.latest = list[first(p)].id]]

InsertMessages(list) == AddRows(list) /\ ShowLatest(list)
InsertMessage(m) == InsertMessages(<<m>>)

\* getMessagesModel, without its limit and offset.
TypeOf(p) == IF p \in Chats THEN "chat" ELSE "contact"
Matches(row, p) == row.from = p \/ row.to = p
Shown(p) == {i \in DOMAIN messages : messages[i].type = TypeOf(p) /\ Matches(messages[i], p)}

RowsWithout(gonerows) == [i \in DOMAIN messages \ gonerows |-> messages[i]]
ContactsWithout(p) == [q \in DOMAIN contacts \ {p} |-> contacts[q]]

---------------------------------------------------------------------------
(* What the user does.  A request written to a lost connection is lost. *)
Ask(r) == IF net = "online" THEN asked' = Append(asked, r) ELSE UNCHANGED asked

Room == Len(asked) + Len(coming) < MaxQueue

\* The user, or someone else, does one more thing.
Deed == Room /\ deeds < MaxDeeds /\ deeds' = deeds + 1

\* onserverready, after getCurrentUser.
Start ==
  /\ net = "off"
  /\ net' = "online"
  /\ asked' = <<[op |-> "dialogs"], [op |-> "contacts"]>>
  /\ UNCHANGED <<tables, coming, server, told, mine, runs, deeds>>

\* Mistake: the messages of chats are deleted, whosever they are.
AllOfChats(p) == {i \in DOMAIN messages : messages[i].type = "chat"}

\* setinitfalse: the rows a history will bring again.  The type is 'chat' even when
\* p is a user, whose messages in all chats go while those of the page stay.
OfFreshPage(p) == {i \in DOMAIN messages : messages[i].type = "chat" /\ Matches(messages[i], p)}

\* initloadchat of chat_contact.qml and chat_group.qml.
OpenPage(p) ==
  /\ Running /\ Deed /\ p \in DOMAIN contacts
  /\ \/ /\ Shown(p) = {}
        /\ Ask([op |-> "history", peer |-> p, offset |-> 0])
        /\ UNCHANGED tables
     \/ /\ Shown(p) # {} /\ contacts[p].init
        /\ messages' = RowsWithout(OfFreshPage(p))
        /\ contacts' = [contacts EXCEPT ![p].init = FALSE]
        /\ Ask([op |-> "history", peer |-> p, offset |-> 0])
  /\ UNCHANGED <<net, coming, server, told, mine, runs>>

\* chacheloadchat: the page has shown what the table holds and asks for more.
LoadMore(p) ==
  /\ Running /\ Deed /\ p \in DOMAIN contacts /\ Shown(p) # {}
  /\ Ask([op |-> "history", peer |-> p, offset |-> Cardinality(Shown(p))])
  /\ UNCHANGED <<net, tables, coming, server, told, mine, runs>>

SendMessage(p) ==
  /\ Running /\ Deed /\ p \in DOMAIN contacts
  /\ Ask([op |-> "send", peer |-> p])
  /\ UNCHANGED <<net, tables, coming, server, told, mine, runs>>

ForwardMessage(i, p) ==
  /\ Running /\ Deed /\ i \in DOMAIN messages /\ p \in DOMAIN contacts
  /\ Ask([op |-> "forward", id |-> i, peer |-> p])
  /\ UNCHANGED <<net, tables, coming, server, told, mine, runs>>

\* Mistake: only the server is told.
TellDeleted(i) == Ask([op |-> "delete", id |-> i]) /\ UNCHANGED messages

\* deleteMessage, which the user and updates call; the query for attachments finds
\* none, because attachmentId is never set.
DeleteMessage(i) ==
  /\ messages' = RowsWithout({i})
  /\ Ask([op |-> "delete", id |-> i])

UserDeletes(i) ==
  /\ Running /\ Deed /\ i \in DOMAIN messages
  /\ DeleteMessage(i)
  /\ UNCHANGED <<net, contacts, coming, server, told, mine, runs>>

ClearContactHistory(p) ==
  /\ Running /\ Deed /\ p \in DOMAIN contacts
  /\ messages' = RowsWithout(Shown(p))
  /\ Ask([op |-> "clear", peer |-> p])
  /\ UNCHANGED <<net, contacts, coming, server, told, mine, runs>>

\* deleteGroup, and deletecontactlocal.
DeletePeer(p) ==
  /\ Running /\ Deed /\ p \in DOMAIN contacts
  /\ contacts' = ContactsWithout(p)
  /\ UNCHANGED <<net, messages, asked, coming, server, told, mine, runs>>

\* addGroupMember and removeGroupMember: besides the query a note under a number
\* drawn by rand(), from the chat itself or from user 10.
NoteMember(c, n) ==
  /\ Running /\ Deed /\ c \in DOMAIN contacts
  /\ \E from \in {c, None} :
       InsertMessage([id |-> n, from |-> from, to |-> c, kind |-> "text", read |-> FALSE])
  /\ UNCHANGED <<net, asked, coming, server, told, mine, runs>>

\* The program ends; logging out empties the tables first.
Exit ==
  /\ Running /\ runs < MaxRuns
  /\ runs' = runs + 1
  /\ net' = "off"
  /\ \/ UNCHANGED tables
     \/ net = "online" /\ messages' = <<>> /\ contacts' = <<>>
  /\ asked' = <<>> /\ coming' = <<>> /\ mine' = {}
  /\ UNCHANGED <<server, told, deeds>>

---------------------------------------------------------------------------
(* What arrives. *)
Arrives(op) == Running /\ coming # <<>> /\ Head(coming).op = op
Event == Head(coming)
Taken == coming' = Tail(coming)
Elsewhere == <<net, server, mine, runs, deeds>>

\* onMessagesGetHistoryAnswer: the list is newest first and inserted from its end.
OnMessages ==
  /\ Arrives("messages") /\ Taken
  /\ InsertMessages(Event.list)
  /\ UNCHANGED <<asked, told, Elsewhere>>

\* updateNewMessage, and the message an answer to forwardMessage states.
OnNewMessage ==
  /\ Arrives("new") /\ Taken
  /\ InsertMessage(Event.message)
  /\ UNCHANGED <<asked, told, Elsewhere>>

OnUpdateShortMessage ==
  /\ Arrives("shortMessage") /\ Taken
  /\ InsertMessage([id |-> Event.id, from |-> Event.from, to |-> None, kind |-> "text",
                    read |-> FALSE])
  /\ UNCHANGED <<asked, told, Elsewhere>>

\* Mistake: toId is not set, as in onUpdateShortMessage.
ShortChatMessageFrom ==
  /\ Arrives("shortChatMessage") /\ Taken
  /\ InsertMessage([id |-> Event.id, from |-> Event.from, to |-> None, kind |-> "text",
                    read |-> TRUE])
  /\ UNCHANGED <<asked, told, Elsewhere>>

OnUpdateShortChatMessage ==
  /\ Arrives("shortChatMessage") /\ Taken
  /\ InsertMessage([id |-> Event.id, from |-> Event.from, to |-> Event.chat,
                    kind |-> "text", read |-> TRUE])
  /\ UNCHANGED <<asked, told, Elsewhere>>

\* Mistake: the message is taken to come as an update.
SentIsStored ==
  /\ Arrives("sent") /\ Taken
  /\ UNCHANGED <<asked, tables, told, Elsewhere>>

\* onMessagesSentMessage, and updateMessageID: fetch the message.
OnSentMessage ==
  /\ Arrives("sent") /\ Taken
  /\ Ask([op |-> "get", id |-> Event.id])
  /\ UNCHANGED <<tables, told, Elsewhere>>

\* Mistake: the row is replaced, and made when there is none.
ReplaceRead ==
  /\ Arrives("read") /\ Taken
  /\ messages' = [i \in DOMAIN messages \cup {Event.id} |->
                    IF i = Event.id
                      THEN [from |-> None, to |-> None, type |-> "contact", read |-> TRUE]
                      ELSE messages[i]]
  /\ toldRead' = toldRead \cup {Event.id}
  /\ UNCHANGED <<asked, contacts, toldGone, Elsewhere>>

\* updateReadMessages: an update of the row, if there is one.
OnReadMessages ==
  /\ Arrives("read") /\ Taken
  /\ messages' = [i \in DOMAIN messages |->
                    IF i = Event.id THEN [messages[i] EXCEPT !.read = TRUE] ELSE messages[i]]
  /\ toldRead' = toldRead \cup {Event.id}
  /\ UNCHANGED <<asked, contacts, toldGone, Elsewhere>>

\* updateDeleteMessages: deleted here, and by a request of this client once more.
OnDeleteMessages ==
  /\ Arrives("deleted") /\ Taken
  /\ DeleteMessage(Event.id)
  /\ toldGone' = toldGone \cup {Event.id}
  /\ UNCHANGED <<contacts, toldRead, Elsewhere>>

\* updateContactLink.
OnContactLink ==
  /\ Arrives("contactLink") /\ Taken
  /\ contacts' = ContactsWithout(Event.user)
  /\ UNCHANGED <<messages, asked, told, Elsewhere>>

\* updateChatParticipants, and the answer to createChat: getLatestMessages.
OnChatParticipants ==
  /\ Arrives("participants") /\ Taken
  /\ Ask([op |-> "dialogs"])
  /\ UNCHANGED <<tables, told, Elsewhere>>

\* onMessagesGetDialogsAnswer: the row of a user is inserted or updated, that of a
\* chat only inserted.
OnDialogs ==
  /\ Arrives("dialogs") /\ Taken
  /\ contacts' = [p \in DOMAIN contacts \cup DOMAIN Event.latest |->
                    IF p \in DOMAIN Event.latest \ (DOMAIN contacts \cap Chats)
                      THEN [latest |-> Event.latest[p], init |-> TRUE] ELSE contacts[p]]
  /\ UNCHANGED <<messages, asked, told, Elsewhere>>

\* onContactsContacts: every row goes, the ones of chats too; contacts come back bare.
OnContacts ==
  /\ Arrives("contacts") /\ Taken
  /\ contacts' = [p \in Contacts |-> [latest |-> None, init |-> FALSE]]
  /\ UNCHANGED <<messages, asked, told, Elsewhere>>

---------------------------------------------------------------------------
(* The server. *)
ConvOf(i) == IF box[i].to = Me THEN box[i].from ELSE box[i].to
Snapshot(i) == [id |-> i, from |-> box[i].from, to |-> box[i].to, kind |-> box[i].kind,
                read |-> i \in seen]
Kept(p) == {i \in DOMAIN box \ gone : ConvOf(i) = p}
NewestFirst(S) ==
  CHOOSE s \in [1..Cardinality(S) -> S] : \A m, n \in DOMAIN s : m < n => s[m] > s[n]
Fresh == {i \in Ids \ DOMAIN box : \A j \in Ids \ DOMAIN box : i <= j}
Push(e) == IF net = "online" THEN coming' = Append(coming, e) ELSE UNCHANGED coming
Post(i, from, to, kind) ==
  box' = [j \in DOMAIN box \cup {i} |->
            IF j = i THEN [from |-> from, to |-> to, kind |-> kind] ELSE box[j]]

\* Another user, or the account on another phone, writes, or a chat changes, which is a
\* service message; a text may be told in one
\* of the short forms.
SomeoneWrites(i, from, to, kind) ==
  /\ Deed
  /\ to \in Chats \/ (kind = "text" /\ (from = Me) # (to = Me))
  /\ Post(i, from, to, kind)
  /\ \/ Push([op |-> "new",
              message |-> [id |-> i, from |-> from, to |-> to, kind |-> kind, read |-> FALSE]])
     \/ /\ kind = "text" /\ from # Me /\ to = Me
        /\ Push([op |-> "shortMessage", id |-> i, from |-> from])
     \/ /\ kind = "text" /\ from # Me /\ to \in Chats
        /\ Push([op |-> "shortChatMessage", id |-> i, from |-> from, chat |-> to])
  /\ UNCHANGED <<net, tables, asked, gone, seen, told, mine, runs>>

SomeoneReads(i) ==
  /\ Deed
  /\ seen' = seen \cup {i}
  /\ Push([op |-> "read", id |-> i])
  /\ UNCHANGED <<net, tables, asked, box, gone, told, mine, runs>>

OtherPhoneDeletes(i) ==
  /\ Deed
  /\ gone' = gone \cup {i}
  /\ Push([op |-> "deleted", id |-> i])
  /\ UNCHANGED <<net, tables, asked, box, seen, told, mine, runs>>

OthersChange ==
  /\ Deed
  /\ \/ \E u \in Users : Push([op |-> "contactLink", user |-> u])
     \/ Push([op |-> "participants"])
  /\ UNCHANGED <<net, tables, asked, server, told, mine, runs>>

Requested == Head(asked)
PageOf(p, offset) ==
  LET all  == NewestFirst(Kept(p))
      last == IF offset + Page < Len(all) THEN offset + Page ELSE Len(all)
  IN  [n \in 1..(last - offset) |-> Snapshot(all[offset + n])]

\* Api, executed by the server in the order of the requests.  A text that changes the
\* links between users is acknowledged by sentMessageLink, which no slot receives.
ServerAnswers ==
  /\ net = "online" /\ asked # <<>>
  /\ asked' = Tail(asked)
  /\ \/ /\ Requested.op = "history"
        /\ Push([op |-> "messages", list |-> PageOf(Requested.peer, Requested.offset)])
        /\ UNCHANGED <<server, mine>>
     \/ /\ Requested.op = "dialogs"
        /\ Push([op |-> "dialogs",
                 latest |-> [p \in {q \in Peers : Kept(q) # {}} |-> NewestFirst(Kept(p))[1]]])
        /\ UNCHANGED <<server, mine>>
     \/ /\ Requested.op = "contacts"
        /\ Push([op |-> "contacts"])
        /\ UNCHANGED <<server, mine>>
     \/ /\ Requested.op = "get"
        /\ Push([op |-> "messages",
                 list |-> IF Requested.id \in DOMAIN box \ gone
                          THEN <<Snapshot(Requested.id)>> ELSE <<>>])
        /\ UNCHANGED <<server, mine>>
     \/ \E i \in Fresh :
        /\ Requested.op = "send"
        /\ Post(i, Me, Requested.peer, "text")
        /\ \/ Push([op |-> "sent", id |-> i]) /\ mine' = mine \cup {<<i, "sentMessage">>}
           \/ UNCHANGED coming /\ mine' = mine \cup {<<i, "sentMessageLink">>}
        /\ UNCHANGED <<gone, seen>>
     \/ \E i \in Fresh :
        /\ Requested.op = "forward" /\ Requested.id \in DOMAIN box \ gone
        /\ Post(i, Me, Requested.peer, "text")
        /\ Push([op |-> "new", message |-> [id |-> i, from |-> Me, to |-> Requested.peer,
                                            kind |-> "text", read |-> FALSE]])
        /\ mine' = mine \cup {<<i, "statedMessage">>}
        /\ UNCHANGED <<gone, seen>>
     \/ /\ Requested.op \in {"send", "forward"}   \* refused
        /\ UNCHANGED <<coming, server, mine>>
     \/ /\ Requested.op = "delete"
        /\ gone' = gone \cup ({Requested.id} \cap DOMAIN box)
        /\ UNCHANGED <<coming, box, seen, mine>>
     \/ /\ Requested.op = "clear"
        /\ gone' = gone \cup Kept(Requested.peer)
        /\ UNCHANGED <<coming, box, seen, mine>>
  /\ UNCHANGED <<net, tables, told, runs, deeds>>

\* Some of what is under way has arrived.
ConnectionLost ==
  /\ net = "online" /\ runs < MaxRuns
  /\ net' = "cut"
  /\ asked' = <<>>
  /\ \E n \in 0..Len(coming) : coming' = SubSeq(coming, 1, n)
  /\ UNCHANGED <<tables, server, told, mine, runs, deeds>>

---------------------------------------------------------------------------
\* The tables are empty: authNeeded and the last log-out have seen to it.
Init ==
  /\ net = "off"
  /\ messages = <<>> /\ contacts = <<>>
  /\ asked = <<>> /\ coming = <<>>
  /\ box = <<>> /\ gone = {} /\ seen = {}
  /\ toldGone = {} /\ toldRead = {} /\ mine = {}
  /\ runs = 1 /\ deeds = 0

User ==
  \/ Start \/ Exit
  \/ \E p \in Peers : \/ OpenPage(p) \/ LoadMore(p) \/ SendMessage(p)
                      \/ ClearContactHistory(p) \/ DeletePeer(p)
                      \/ \E i \in DOMAIN messages : ForwardMessage(i, p)
  \/ \E i \in DOMAIN messages : UserDeletes(i)
  \/ \E c \in Chats, n \in Notes : NoteMember(c, n)

Handle ==
  \/ OnMessages \/ OnNewMessage \/ OnUpdateShortMessage \/ OnUpdateShortChatMessage
  \/ OnSentMessage \/ OnReadMessages \/ OnDeleteMessages \/ OnContactLink
  \/ OnChatParticipants \/ OnDialogs \/ OnContacts

Server ==
  \/ \E i \in Fresh, from, to \in Peers \cup {Me}, kind \in Kinds :
       from \notin Chats /\ SomeoneWrites(i, from, to, kind)
  \/ \E i \in DOMAIN box \ (gone \cup seen) : SomeoneReads(i)
  \/ \E i \in DOMAIN box \ gone : OtherPhoneDeletes(i)
  \/ OthersChange
  \/ ServerAnswers
  \/ ConnectionLost

Next == User \/ Handle \/ Server
Spec == Init /\ [][Next]_vars
FairSpec == Spec /\ WF_vars(Handle) /\ WF_vars(ServerAnswers)

---------------------------------------------------------------------------
TypeOK ==
  /\ net \in {"off", "online", "cut"}
  /\ DOMAIN messages \subseteq Ids \cup Notes
  /\ messages \in [DOMAIN messages -> [from : Users \cup Chats \cup {Me, None},
                                       to : Peers \cup {Me, None},
                                       type : {"contact", "chat"}, read : BOOLEAN]]
  /\ DOMAIN contacts \subseteq Peers
  /\ contacts \in [DOMAIN contacts -> [latest : Ids \cup Notes \cup {None}, init : BOOLEAN]]
  /\ asked \in Seq(Request) /\ coming \in Seq(Answer)
  /\ DOMAIN box \subseteq Ids
  /\ gone \subseteq DOMAIN box /\ seen \subseteq DOMAIN box
  /\ toldGone \subseteq DOMAIN box /\ toldRead \subseteq DOMAIN box
  /\ mine \subseteq (DOMAIN box) \X Acknowledgements
  /\ runs \in Nat /\ deeds \in Nat

\* By whichever of five ways a message came, the page of its conversation shows it,
\* and no other page does; and a line of the list of conversations shows a text of
\* its own conversation.
Home(i) == IF i \in DOMAIN box THEN ConvOf(i) ELSE messages[i].to
InItsConversation ==
  /\ \A i \in DOMAIN messages, p \in Peers : i \in Shown(p) <=> p = Home(i)
  /\ \A p \in DOMAIN contacts : contacts[p].latest \in DOMAIN box => ConvOf(contacts[p].latest) = p

\* What an update has told about a message holds from then on, whatever answers
\* with older copies were under way: a deleted message is not stored, a read one
\* is not shown as unread.
ToldStays ==
  /\ toldGone \cap DOMAIN messages = {}
  /\ \A i \in toldRead \cap DOMAIN messages : messages[i].read

\* A stored message is lost only when it is deleted or its conversation cleared or
\* fetched anew, when the page of its author is opened afresh, or at a log-out.
LastAsked(r) == asked' # <<>> /\ asked'[Len(asked')] = r
LostOnPurpose ==
  [][\A i \in DOMAIN messages \ DOMAIN messages' :
       \/ ~Running' \/ net = "cut"
       \/ LastAsked([op |-> "delete", id |-> i])
       \/ LastAsked([op |-> "clear", peer |-> Home(i)])
       \/ \E p \in {Home(i), messages[i].from} :
            LastAsked([op |-> "history", peer |-> p, offset |-> 0])]_vars

\* The messages an answer or an update inserts.
ListOf(e) ==
  CASE e.op = "messages"         -> e.list
    [] e.op = "new"              -> <<e.message>>
    [] e.op = "shortMessage"     -> <<[id |-> e.id, from |-> e.from, to |-> None,
                                       kind |-> "text", read |-> FALSE]>>
    [] e.op = "shortChatMessage" -> <<[id |-> e.id, from |-> e.from, to |-> e.chat,
                                       kind |-> "text", read |-> TRUE]>>
    [] OTHER                     -> <<>>
Brings(e, i) == \E k \in DOMAIN ListOf(e) : ListOf(e)[k].id = i
UnderWay(i) == \E n \in DOMAIN coming : Brings(coming[n], i)

\* A message deleted at the server comes back only with an answer composed before: when
\* it is neither stored nor under way it stays so, whatever is asked for, read or told.
DeletedForGood ==
  [][\A i \in gone \ DOMAIN messages :
       ~UnderWay(i) => i \notin DOMAIN messages' /\ ~UnderWay(i)']_vars

\* A message the user has sent is stored by the answer that acknowledges it or the one
\* it makes the program ask for, unless the connection or the program ends first or the
\* message is deleted.  A text acknowledged by messages.sentMessageLink is not: no slot
\* receives that answer, and nothing fetches the message.
SentAppears ==
  \A i \in Ids :
    (\E by \in Acknowledgements \ {"sentMessageLink"} : <<i, by>> \in mine)
      ~> i \in DOMAIN messages \/ i \in gone \/ net # "online"
=============================================================================
