------------------------------- MODULE LogIn --------------------------------
(***************************************************************************)
(* The log-in of a new user, once every data centre has its key: the slots *)
(* of src/src/applicationui.cpp, the pages of src/assets/login, and the    *)
(* change of the main session in src/src/core/sessionmanager.cpp.          *)
(*                                                                         *)
(* Every phone page that is opened makes another Api with a session of its *)
(* own (changeServer); pages, Apis and sessions that are no longer used    *)
(* stay connected to all slots, since nothing destroys them.  Api number   *)
(* `opened' is ApplicationUI::mApi.                                        *)
(*                                                                         *)
(* A server answers a request for a code with the hash of the code, with   *)
(* 303 and the user's DC, with 400, or with another error.  It packs one   *)
(* or two answers in a message, all of which are executed even when the    *)
(* first one closes the session.                                           *)
(*                                                                         *)
(* A definition marked "Mistake" is a plausible bug of the code modelled by*)
(* the definition that follows it; no other definition uses it.            *)
(***************************************************************************)
EXTENDS Integers, Sequences, FiniteSets

CONSTANTS
  Ids,         \* DC numbers
  Phones,      \* numbers the user may type
  Home,        \* the DC of a number's account
  NoHash,
  MaxPages,    \* bound: phone pages opened
  MaxAsks,     \* bound: queries the user asks for
  MaxLost      \* bound: connections lost

ASSUME HomeAssumption ==
  /\ Ids \subseteq Nat \ {0} /\ 1 \in Ids /\ IsFiniteSet(Ids)
  /\ Phones # {} /\ Home \in [Phones -> Ids]
ASSUME LogInBounds == MaxPages \in Nat /\ MaxAsks \in Nat /\ MaxLost \in Nat

VARIABLES
  stack,       \* pages above the welcome page
  opened,      \* phone pages, and Apis, made so far
  phone, hash, \* of ApplicationUI
  told,        \* what the user was shown, and for which query
  sessions,    \* the Session objects in the order of their making
  main,        \* mMainSession of each Api
  working,     \* Settings::m_workingDcNum
  marked,      \* DCs in the state userSignedIn, here and in the file
  asked,       \* queries sent so far
  sent,        \* queries on the way to a server or with it
  answers,     \* answers on the way to the client
  executing,   \* answers of the message that is executed
  authorised,  \* DCs whose server has signed the user in
  overtaken,   \* history: DCs to which the program moved with a sign-in under way
  lost         \* the bounded counter

uiVars     == <<stack, opened, phone, hash, told>>
dcVars     == <<working, marked, overtaken>>
serverVars == <<sent, authorised>>
vars == <<uiVars, sessions, main, dcVars, asked, serverVars, answers, executing, lost>>

Top  == IF stack = <<>> THEN "welcome" ELSE stack[Len(stack)]
Main == main[opened]
\* The event loop runs: no message is being executed.
Idle == executing = <<>>

---------------------------------------------------------------------------
(* SessionManager: the change of the main session. *)

NewSession(a, d, byManager) ==
  [api |-> a, dc |-> d, link |-> "connecting", garbled |-> FALSE,
   managed |-> byManager, deleted |-> FALSE]

\* close: a socket with nothing to write is disconnected at once, any other later;
\* one that is not connected tells at once.  sessionClosed of a session that
\* createSession made reaches onSessionClosed, which deletes the main session.
Closing(s) ==
  CASE s.link = "ready"      -> {[s EXCEPT !.link = "closed", !.deleted = s.managed],
                                 [s EXCEPT !.link = "closing"]}
    [] s.link = "connecting" -> {[s EXCEPT !.link = "closing"]}
    [] OTHER                 -> {[s EXCEPT !.link = "closed", !.deleted = s.managed]}

\* Mistake: the session to the wrong DC stays.
ChangeKeepsOld(d) ==
  /\ sessions' = Append(sessions, NewSession(opened, d, TRUE))
  /\ main' = [main EXCEPT ![opened] = Len(sessions')]

\* Mistake: nobody tells the new session to connect.
ChangeUnconnected(d) ==
  \E old \in Closing(sessions[Main]) :
    /\ sessions' = Append([sessions EXCEPT ![Main] = old],
                          [NewSession(opened, d, TRUE) EXCEPT !.link = "new"])
    /\ main' = [main EXCEPT ![opened] = Len(sessions')]

ChangeMainSessionToDc(d) ==
  \E old \in Closing(sessions[Main]) :
    /\ sessions' = Append([sessions EXCEPT ![Main] = old], NewSession(opened, d, TRUE))
    /\ main' = [main EXCEPT ![opened] = Len(sessions')]

\* onserverready, a slot of the sessions changeServer makes: it asks three queries of
\* the main session of mApi, which garble the stream if that is still connecting.
SpoilsMain(s) ==
  ~sessions[s].managed /\ s # Main /\ sessions[Main].link = "connecting"

OnConnected(s) ==
  /\ Idle /\ sessions[s].link = "connecting"
  /\ sessions' = [sessions EXCEPT ![s].link = "ready",
                                  ![Main].garbled = @ \/ SpoilsMain(s)]
  /\ UNCHANGED <<uiVars, main, dcVars, asked, serverVars, answers, executing, lost>>

\* Mistake: the main session is deleted, whichever session is closed.
DeletesMain(s) ==
  /\ Idle /\ sessions[s].link = "closing"
  /\ sessions' = [sessions EXCEPT ![s].link = "closed",
                                  ![main[sessions[s].api]].deleted = sessions[s].managed]
  /\ UNCHANGED <<uiVars, main, dcVars, asked, serverVars, answers, executing, lost>>

\* disconnected() of a session that was closed; onSessionClosed looks for the number
\* of the main session.
OnDisconnected(s) ==
  /\ Idle /\ sessions[s].link = "closing"
  /\ sessions' = [sessions EXCEPT ![s].link = "closed",
                    ![s].deleted = sessions[s].managed /\ s = main[sessions[s].api]]
  /\ UNCHANGED <<uiVars, main, dcVars, asked, serverVars, answers, executing, lost>>

\* Nobody is told.
ConnectionLost(s) ==
  /\ Idle /\ lost < MaxLost /\ sessions[s].link \in {"connecting", "ready"}
  /\ lost' = lost + 1
  /\ sessions' = [sessions EXCEPT ![s].link = "lost"]
  /\ UNCHANGED <<uiVars, main, dcVars, asked, serverVars, answers, executing>>

---------------------------------------------------------------------------
(* What the user does. *)

\* The button of the welcome page pushes a new phone page, whose onCreationCompleted
\* calls changeServer with the index of the working DC.
ChangeServer ==
  /\ Idle /\ Top = "welcome" /\ opened < MaxPages
  /\ stack' = Append(stack, "phone")
  /\ opened' = opened + 1
  /\ sessions' = Append(sessions, NewSession(opened', working, FALSE))
  /\ main' = [main EXCEPT ![opened'] = Len(sessions')]
  /\ UNCHANGED <<phone, hash, told, dcVars, asked, serverVars, answers, executing, lost>>

Back ==
  /\ Idle /\ stack # <<>>
  /\ stack' = SubSeq(stack, 1, Len(stack) - 1)
  /\ UNCHANGED <<opened, phone, hash, told, sessions, main, dcVars, asked, serverVars,
                 answers, executing, lost>>

\* sendQuery on the main session of mApi.  A query that is written while the socket
\* connects leaves in front of the marker, and the server cannot read the stream; one
\* that is written later to a lost connection leaves not at all.
SendQuery(kind, p, h, right) ==
  /\ Idle /\ asked < MaxAsks
  /\ asked' = asked + 1
  /\ sent' = IF sessions[Main].link # "ready" \/ sessions[Main].garbled THEN sent
             ELSE sent \cup {[n |-> asked', session |-> Main, kind |-> kind, phone |-> p,
                              hash |-> h, right |-> right]}
  /\ sessions' = [sessions EXCEPT ![Main].garbled =
                    @ \/ sessions[Main].link = "connecting"]
  /\ UNCHANGED <<stack, opened, told, main, dcVars, authorised, answers, executing, lost>>

AuthSendCode(p) ==
  /\ Top = "phone"
  /\ SendQuery("sendCode", p, NoHash, FALSE)
  /\ phone' = p
  /\ UNCHANGED hash

\* The user types the code that was sent, or another one.
AuthUser(right) ==
  /\ Top = "code"
  /\ SendQuery("signIn", phone, hash, right)
  /\ UNCHANGED <<phone, hash>>

---------------------------------------------------------------------------
(* The servers. *)

Belongs(q) == Home[q.phone] = sessions[q.session].dc
HashFor(q) == [phone |-> q.phone, dc |-> sessions[q.session].dc]

\* What a server may answer: 400 stands for numbers it refuses, "other" for 420, 500
\* and the like.
Outcomes(q) ==
  IF q.kind = "signIn"
    THEN IF q.hash = HashFor(q) /\ q.right THEN {"authorized"} ELSE {"refused"}
    ELSE {"400", "other", IF Belongs(q) THEN "sentCode" ELSE "303"}

\* A server executes what reached it, whether or not the client is still there.
ServerAnswers(q) ==
  /\ Idle
  /\ sent' = sent \ {q}
  /\ \E x \in Outcomes(q) :
       /\ authorised' = IF x = "authorized"
                          THEN authorised \cup {sessions[q.session].dc} ELSE authorised
       /\ answers' = IF sessions[q.session].link = "ready"
                       THEN answers \cup {[query |-> q, is |-> x]} ELSE answers
  /\ UNCHANGED <<uiVars, sessions, main, dcVars, asked, executing, lost>>

\* One message arrives, with one answer or a container of two.
Arrives(s) ==
  /\ Idle /\ sessions[s].link = "ready"
  /\ \E x, y \in {a \in answers : a.query.session = s} :
       /\ executing' = IF x = y THEN <<x>> ELSE <<x, y>>
       /\ answers' = answers \ {x, y}
  /\ UNCHANGED <<uiVars, sessions, main, dcVars, asked, serverVars, lost>>

---------------------------------------------------------------------------
(* The slots. *)

Executing(x) == ~Idle /\ Head(executing).is = x /\ executing' = Tail(executing)
Query == Head(executing).query
Tell(what) == told' = told \cup {[query |-> Query.n, is |-> what]}

SignInUnderWay ==
  \/ \E q \in sent : q.kind = "signIn"
  \/ \E a \in answers : a.query.kind = "signIn"
  \/ \E i \in DOMAIN executing : executing[i].query.kind = "signIn"

\* Mistake: the user is not told that the DC has changed.
ChangesQuietly ==
  /\ Executing("303")
  /\ working' = Home[Query.phone]
  /\ overtaken' = IF SignInUnderWay THEN overtaken \cup {Home[Query.phone]} ELSE overtaken
  /\ ChangeMainSessionToDc(working')
  /\ UNCHANGED <<uiVars, marked, asked, serverVars, answers, lost>>

\* onauthSentCode; every phone page there is pushes a page for the code.
OnAuthSentCode ==
  /\ Executing("sentCode")
  /\ hash' = HashFor(Query)
  /\ stack' = stack \o [i \in 1..opened |-> "code"]
  /\ Tell("code")
  /\ UNCHANGED <<opened, phone, sessions, main, dcVars, asked, serverVars, answers, lost>>

\* Mistake: the session is changed and the number of the working DC is not.
ChangeSessionOnly ==
  /\ Executing("303")
  /\ overtaken' = IF SignInUnderWay THEN overtaken \cup {Home[Query.phone]} ELSE overtaken
  /\ ChangeMainSessionToDc(Home[Query.phone])
  /\ Tell("again")
  /\ UNCHANGED <<stack, opened, phone, hash, working, marked, asked, serverVars, answers,
                 lost>>

\* onAuthSendCodeError with 303: dcchange on mApi, whichever Api was answered, and
\* "Switching DataCenter Please try Again".
DcChange ==
  /\ Executing("303")
  /\ working' = Home[Query.phone]
  /\ overtaken' = IF SignInUnderWay THEN overtaken \cup {Home[Query.phone]} ELSE overtaken
  /\ ChangeMainSessionToDc(working')
  /\ Tell("again")
  /\ UNCHANGED <<stack, opened, phone, hash, marked, asked, serverVars, answers, lost>>

\* onAuthSendCodeError with 400 shakes the phone, onAuthSignInError shows the text.
Shown(x) == Executing(x) /\ Tell(x)
Silent(x) == Executing(x) /\ UNCHANGED told
OnError ==
  /\ Shown("400") \/ Shown("refused") \/ Silent("other")
  /\ UNCHANGED <<stack, opened, phone, hash, sessions, main, dcVars, asked, serverVars,
                 answers, lost>>

\* onUserAuthorized marks the DC that is the working one now, saves the file, and
\* asks the user to open the program again.
OnUserAuthorized ==
  /\ Executing("authorized")
  /\ marked' = marked \cup {working}
  /\ Tell("restart")
  /\ UNCHANGED <<stack, opened, phone, hash, sessions, main, working, overtaken, asked,
                 serverVars, answers, lost>>

---------------------------------------------------------------------------
Init ==
  /\ stack = <<>> /\ opened = 0
  /\ phone = CHOOSE p \in Phones : TRUE \* set before it is used
  /\ hash = NoHash /\ told = {}
  /\ sessions = <<>> /\ main = [a \in 1..MaxPages |-> 0]
  /\ working = 1 /\ marked = {} /\ overtaken = {}
  /\ asked = 0 /\ sent = {} /\ answers = {} /\ executing = <<>>
  /\ authorised = {} /\ lost = 0

Next ==
  \/ ChangeServer \/ Back
  \/ \E p \in Phones : AuthSendCode(p)
  \/ \E right \in BOOLEAN : AuthUser(right)
  \/ \E s \in DOMAIN sessions :
       OnConnected(s) \/ OnDisconnected(s) \/ ConnectionLost(s) \/ Arrives(s)
  \/ \E q \in sent : ServerAnswers(q)
  \/ OnAuthSentCode \/ DcChange \/ OnError \/ OnUserAuthorized

Spec == Init /\ [][Next]_vars

\* Sockets connect and close, servers answer those who are there, and the event loop
\* goes on; nothing is assumed of the user.
SomeServerAnswers == \E q \in sent : sessions[q.session].link = "ready" /\ ServerAnswers(q)
Slots == OnAuthSentCode \/ DcChange \/ OnError \/ OnUserAuthorized
FairSpec ==
  /\ Spec
  /\ WF_vars(\E s \in DOMAIN sessions : OnConnected(s))
  /\ WF_vars(\E s \in DOMAIN sessions : OnDisconnected(s))
  /\ WF_vars(\E s \in DOMAIN sessions : Arrives(s))
  /\ WF_vars(SomeServerAnswers) /\ WF_vars(Slots)

---------------------------------------------------------------------------
SessionRecords ==
  [api : 1..MaxPages, dc : Ids, managed : BOOLEAN, garbled : BOOLEAN, deleted : BOOLEAN,
   link : {"connecting", "ready", "closing", "closed", "lost"}]
Queries ==
  [n : 1..MaxAsks, session : DOMAIN sessions, kind : {"sendCode", "signIn"},
   phone : Phones, hash : {NoHash} \cup [phone : Phones, dc : Ids], right : BOOLEAN]
Answers ==
  [query : Queries, is : {"sentCode", "303", "400", "other", "authorized", "refused"}]

TypeOK ==
  /\ stack \in Seq({"phone", "code"}) /\ opened \in 0..MaxPages
  /\ phone \in Phones /\ hash \in {NoHash} \cup [phone : Phones, dc : Ids]
  /\ told \subseteq [query : 1..MaxAsks, is : {"code", "again", "400", "refused", "restart"}]
  /\ sessions \in Seq(SessionRecords)
  /\ main \in [1..MaxPages -> 0..Len(sessions)] /\ (opened > 0 => Main > 0)
  /\ working \in Ids /\ marked \subseteq Ids /\ overtaken \subseteq Ids
  /\ asked \in 0..MaxAsks /\ sent \subseteq Queries /\ answers \subseteq Answers
  /\ executing \in Seq(Answers) /\ authorised \subseteq Ids /\ lost \in 0..MaxLost

\* The session the user interface asks is one to the working DC, whatever page was
\* opened and whichever Api was told to move (Settings, dcchange).
MainAtWorking == opened > 0 => sessions[Main].dc = working

\* changeMainSessionToDc removes the "current main session that is connected to a
\* wrong dc": of an Api's sessions at most the main one is open.
OldSessionsClosed ==
  \A s \in DOMAIN sessions :
    sessions[s].link \in {"connecting", "ready"} => s = main[sessions[s].api]

\* A closed session is deleted later; mMainSession never points to one.
MainAlive == \A a \in 1..opened : ~sessions[main[a]].deleted

\* onUserAuthorized means to "change state of current dc": a DC is marked, and saved
\* as the one to start with, only if its server has signed the user in or a 303 led
\* there while the answer to a sign-in was under way.
MarkedTruly == marked \subseteq authorised \cup overtaken

\* The user is told the outcome of every query sent over an open connection that
\* stays open, except for the errors onAuthSendCodeError has no case for.
On(n, link) == {q \in sent \cup {a.query : a \in answers} :
                  q.n = n /\ sessions[q.session].link = link}
Outcome(n) ==
  \/ \E x \in told : x.query = n
  \/ \E link \in {"closing", "closed", "lost"} : On(n, link) # {}
  \/ ~Idle /\ Query.n = n /\ Head(executing).is = "other"
OutcomeTold == \A n \in 1..MaxAsks : On(n, "ready") # {} ~> Outcome(n)
=============================================================================
