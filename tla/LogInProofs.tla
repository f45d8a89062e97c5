---------------------------- MODULE LogInProofs -----------------------------
(***************************************************************************)
(* Proofs about LogIn for any DCs, phone numbers and bounds.  IInv is      *)
(* inductive; the invariants the run checks are among its conjuncts.       *)
(***************************************************************************)
EXTENDS LogIn, SequenceTheorems, TLAPS

\* A page above the welcome page there is only after changeServer.
PagesOpened == stack # <<>> => opened > 0
ApisOpened == \A s \in DOMAIN sessions : sessions[s].api <= opened

\* The main session of an Api is its own, has not been closed and is not deleted.
MainsOpen ==
  \A a \in 1..opened :
    /\ main[a] \in DOMAIN sessions
    /\ sessions[main[a]].api = a
    /\ sessions[main[a]].link \in {"connecting", "ready", "lost"}
    /\ ~sessions[main[a]].deleted

\* A sign-in under way was sent to the working DC, unless the program moved.
SignInsHome ==
  \A q \in sent : q.kind = "signIn" =>
    working = sessions[q.session].dc \/ working \in overtaken
UnderWay == answers \cup {executing[i] : i \in DOMAIN executing}
AuthorizedHere ==
  \A a \in UnderWay : a.is = "authorized" =>
    a.query.kind = "signIn" /\ working \in authorised \cup overtaken

SessionsInv ==
  PagesOpened /\ ApisOpened /\ MainsOpen /\ MainAtWorking /\ OldSessionsClosed
AnswersInv == SignInsHome /\ AuthorizedHere /\ MarkedTruly
IInv == TypeOK /\ SessionsInv /\ AnswersInv

---------------------------------------------------------------------------
(* What a change of the main session does. *)

\* A session that is closed keeps its Api and DC and is open no longer.
LEMMA ClosedSession ==
  ASSUME NEW s \in SessionRecords, NEW t \in Closing(s)
  PROVE  /\ t \in SessionRecords /\ t.api = s.api /\ t.dc = s.dc
         /\ t.link \in {"closing", "closed"}
  BY DEF SessionRecords, Closing

\* Once something was opened the main session is one of the sessions.
LEMMA MainThere ==
  ASSUME TypeOK, opened > 0
  PROVE  Main \in DOMAIN sessions /\ opened \in 1..MaxPages /\ sessions[Main] \in SessionRecords
<1>1. /\ sessions \in Seq(SessionRecords) /\ main \in [1..MaxPages -> 0..Len(sessions)]
      /\ opened \in 0..MaxPages /\ Main > 0
  BY DEF TypeOK
<1> QED
  BY <1>1, LogInBounds DEF Main

\* changeMainSessionToDc adds a session, makes it the main one and closes the old one.
LEMMA ChangedMain ==
  ASSUME TypeOK, opened > 0, NEW d \in Ids, ChangeMainSessionToDc(d)
  PROVE  /\ sessions' \in Seq(SessionRecords)
         /\ Len(sessions') = Len(sessions) + 1
         /\ main' = [main EXCEPT ![opened] = Len(sessions) + 1]
         /\ sessions'[Len(sessions) + 1] = NewSession(opened, d, TRUE)
         /\ sessions'[Main].api = sessions[Main].api
         /\ sessions'[Main].dc = sessions[Main].dc
         /\ sessions'[Main].link \in {"closing", "closed"}
         /\ \A s \in DOMAIN sessions \ {Main} : sessions'[s] = sessions[s]
<1>1. Main \in DOMAIN sessions /\ opened \in 1..MaxPages /\ sessions[Main] \in SessionRecords
  BY MainThere
<1>2. sessions \in Seq(SessionRecords)
  BY DEF TypeOK
<1>3. PICK old \in Closing(sessions[Main]) :
        /\ sessions' = Append([sessions EXCEPT ![Main] = old], NewSession(opened, d, TRUE))
        /\ main' = [main EXCEPT ![opened] = Len(sessions')]
  BY DEF ChangeMainSessionToDc
<1>4. /\ old \in SessionRecords /\ old.api = sessions[Main].api /\ old.dc = sessions[Main].dc
      /\ old.link \in {"closing", "closed"}
  BY <1>1, ClosedSession
<1>6. [sessions EXCEPT ![Main] = old] \in Seq(SessionRecords)
  BY <1>1, <1>2, <1>4
<1> DEFINE rest == [sessions EXCEPT ![Main] = old]
<1>7. Len(rest) = Len(sessions) /\ rest[Main] = old
      /\ \A s \in DOMAIN sessions \ {Main} : rest[s] = sessions[s]
  BY <1>1, <1>2
<1>8. Main \in 1..Len(rest) /\ DOMAIN sessions = 1..Len(rest)
  BY <1>1, <1>2, <1>7
<1> HIDE DEF rest
<1> DEFINE added == NewSession(opened, d, TRUE)
<1>5. added \in SessionRecords
  BY <1>1 DEF NewSession, SessionRecords
<1> HIDE DEF added
<1>9. /\ sessions' = Append(rest, added) /\ rest \in Seq(SessionRecords)
      /\ main' = [main EXCEPT ![opened] = Len(sessions')]
  BY <1>3, <1>6 DEF rest, added
<1>10. /\ Append(rest, added) \in Seq(SessionRecords) /\ Len(Append(rest, added)) = Len(rest) + 1
       /\ Append(rest, added)[Len(rest) + 1] = added
       /\ \A s \in 1..Len(rest) : Append(rest, added)[s] = rest[s]
  BY <1>5, <1>9, AppendProperties
<1>11. sessions'[Main] = old /\ \A s \in DOMAIN sessions \ {Main} : sessions'[s] = sessions[s]
  BY <1>7, <1>8, <1>9, <1>10
<1> QED
  BY <1>4, <1>7, <1>9, <1>10, <1>11 DEF added

---------------------------------------------------------------------------
(* Types. *)

\* Queries, answers and Apis are still what they were when sessions are added.
LEMMA QueuesKeepType ==
  ASSUME TypeOK, sessions' \in Seq(SessionRecords), Len(sessions') >= Len(sessions)
  PROVE  /\ Queries \subseteq Queries' /\ Answers \subseteq Answers'
         /\ sent \subseteq Queries' /\ answers \subseteq Answers'
         /\ executing \in Seq(Answers')
         /\ main \in [1..MaxPages -> 0..Len(sessions')]
<1>1. /\ sessions \in Seq(SessionRecords) /\ main \in [1..MaxPages -> 0..Len(sessions)]
      /\ sent \subseteq Queries /\ answers \subseteq Answers /\ executing \in Seq(Answers)
  BY DEF TypeOK
<1>2. DOMAIN sessions \subseteq DOMAIN sessions'
  BY <1>1
<1>3. Queries \subseteq Queries'
  BY <1>2 DEF Queries
<1>4. Answers \subseteq Answers'
  BY <1>3 DEF Answers
<1>5. \A i \in 1..Len(executing) : executing[i] \in Answers'
  BY <1>1, <1>4
<1>6. executing \in Seq(Answers')
  BY <1>1, <1>5
<1>7. main \in [1..MaxPages -> 0..Len(sessions')]
  BY <1>1
<1> QED
  BY <1>1, <1>3, <1>4, <1>6, <1>7

---------------------------------------------------------------------------
(* The sessions. *)

\* The session that is executed for, or asked by a page, belongs to an Api there is.
LEMMA HeadType ==
  ASSUME TypeOK, executing # <<>>
  PROVE  /\ Head(executing) \in Answers /\ Tail(executing) \in Seq(Answers)
         /\ Query \in Queries /\ Home[Query.phone] \in Ids /\ Query.session \in DOMAIN sessions
         /\ Query.n \in 1..MaxAsks /\ Query.phone \in Phones
         /\ \A i \in DOMAIN Tail(executing) : \E j \in DOMAIN executing :
              Tail(executing)[i] = executing[j]
<1>1. executing \in Seq(Answers)
  BY DEF TypeOK
<1>2. Head(executing) \in Answers /\ Tail(executing) \in Seq(Answers)
  BY <1>1
<1>3. \A i \in DOMAIN Tail(executing) : i + 1 \in DOMAIN executing
                                        /\ Tail(executing)[i] = executing[i + 1]
  BY <1>1
<1>4. Query \in Queries
  BY <1>2 DEF Answers, Query
<1>5. Query.session \in DOMAIN sessions /\ Query.n \in 1..MaxAsks /\ Query.phone \in Phones
  BY <1>4 DEF Queries
<1> QED
  BY <1>2, <1>3, <1>4, <1>5, HomeAssumption

\* While a message is executed there is an Api, with a main session.
LEMMA ExecutingOpened ==
  ASSUME TypeOK, ApisOpened, executing # <<>>
  PROVE  opened > 0
<1>1. sessions \in Seq(SessionRecords) /\ opened \in 0..MaxPages
  BY DEF TypeOK
<1>2. Query.session \in DOMAIN sessions
  BY HeadType
<1>3. sessions[Query.session] \in SessionRecords
  BY <1>1, <1>2
<1>4. sessions[Query.session].api \in 1..MaxPages
  BY <1>3 DEF SessionRecords
<1> QED
  BY <1>1, <1>2, <1>4, LogInBounds DEF ApisOpened

\* Sessions that close on their own, or are garbled, leave the main sessions alone.
LEMMA SessionsEdited ==
  ASSUME TypeOK, SessionsInv, UNCHANGED <<opened, main, working>>, PagesOpened',
         DOMAIN sessions' = DOMAIN sessions,
         \A s \in DOMAIN sessions :
           /\ sessions'[s].api = sessions[s].api /\ sessions'[s].dc = sessions[s].dc
           /\ sessions'[s].link \in {"connecting", "ready"} =>
                sessions[s].link \in {"connecting", "ready"}
           /\ sessions[s].link \in {"connecting", "ready", "lost"} =>
                /\ sessions'[s].link \in {"connecting", "ready", "lost"}
                /\ ~sessions[s].deleted => ~sessions'[s].deleted
  PROVE  SessionsInv'
<1>1. MainsOpen'
  BY DEF SessionsInv, MainsOpen
<1>2. ApisOpened' /\ OldSessionsClosed'
  BY DEF SessionsInv, ApisOpened, OldSessionsClosed
<1>3. MainAtWorking'
  BY MainThere DEF SessionsInv, MainAtWorking, Main
<1> QED
  BY <1>1, <1>2, <1>3 DEF SessionsInv

\* changeServer makes an Api whose only session is its main one.
LEMMA ChangeServerSessions ==
  ASSUME TypeOK, SessionsInv, ChangeServer
  PROVE  /\ SessionsInv' /\ TypeOK'
         /\ \A s \in DOMAIN sessions : s \in DOMAIN sessions' /\ sessions'[s].dc = sessions[s].dc
<1>1. /\ sessions \in Seq(SessionRecords) /\ main \in [1..MaxPages -> 0..Len(sessions)]
      /\ opened \in 0..MaxPages /\ working \in Ids /\ stack \in Seq({"phone", "code"})
  BY DEF TypeOK
<1> DEFINE added == NewSession(opened', working, FALSE)
<1>2. opened' = opened + 1 /\ opened' \in 1..MaxPages /\ stack' = Append(stack, "phone")
  BY <1>1, LogInBounds DEF ChangeServer
<1>3. /\ added \in SessionRecords /\ added.api = opened' /\ added.dc = working
      /\ added.link = "connecting" /\ ~added.deleted
  BY <1>1, <1>2 DEF NewSession, SessionRecords
<1>4. sessions' = Append(sessions, added) /\ main' = [main EXCEPT ![opened'] = Len(sessions')]
  BY DEF ChangeServer
<1> HIDE DEF added
<1>5. /\ sessions' \in Seq(SessionRecords) /\ Len(sessions') = Len(sessions) + 1
      /\ sessions'[Len(sessions) + 1] = added
      /\ \A s \in 1..Len(sessions) : sessions'[s] = sessions[s]
  BY <1>1, <1>3, <1>4, AppendProperties
<1>6. /\ DOMAIN sessions = 1..Len(sessions) /\ Len(sessions) \in Nat
      /\ DOMAIN sessions' = 1..(Len(sessions) + 1)
  BY <1>1, <1>5
<1>7. /\ main'[opened'] = Len(sessions) + 1
      /\ \A a \in 1..opened : main'[a] = main[a] /\ a # opened'
      /\ main' \in [1..MaxPages -> 0..Len(sessions')]
  BY <1>1, <1>2, <1>4, <1>5, <1>6
<1>8. \A s \in DOMAIN sessions : sessions[s].api \in 1..opened
  <2> SUFFICES ASSUME NEW s \in DOMAIN sessions PROVE sessions[s].api \in 1..opened
    OBVIOUS
  <2>1. sessions[s] \in SessionRecords
    BY <1>1
  <2>2. sessions[s].api \in 1..MaxPages
    BY <2>1 DEF SessionRecords
  <2> QED
    BY <1>1, <2>2 DEF SessionsInv, ApisOpened
<1>9. PagesOpened' /\ ApisOpened'
  BY <1>1, <1>2, <1>3, <1>5, <1>6, <1>8 DEF PagesOpened, ApisOpened
<1>10. MainsOpen'
  <2> SUFFICES ASSUME NEW a \in 1..opened'
               PROVE  /\ main'[a] \in DOMAIN sessions' /\ sessions'[main'[a]].api = a
                      /\ sessions'[main'[a]].link \in {"connecting", "ready", "lost"}
                      /\ ~sessions'[main'[a]].deleted
    BY DEF MainsOpen
  <2>1. CASE a = opened'
    BY <2>1, <1>3, <1>5, <1>6, <1>7
  <2>2. CASE a \in 1..opened
    BY <2>2, <1>5, <1>6, <1>7 DEF SessionsInv, MainsOpen
  <2> QED
    BY <1>1, <1>2, <2>1, <2>2
<1>11. MainAtWorking'
  <2>1. working' = working
    BY DEF ChangeServer, dcVars
  <2> QED
    BY <2>1, <1>3, <1>5, <1>7 DEF MainAtWorking, Main
<1>12. OldSessionsClosed'
  BY <1>3, <1>5, <1>6, <1>7, <1>8 DEF SessionsInv, OldSessionsClosed
<1>13. TypeOK'
  <2>1. stack' \in Seq({"phone", "code"})
    BY <1>1, <1>2
  <2>2. /\ sent \subseteq Queries' /\ answers \subseteq Answers' /\ executing \in Seq(Answers')
    BY <1>5, <1>6, QueuesKeepType
  <2>3. UNCHANGED <<phone, hash, told, working, marked, overtaken, asked, sent, authorised,
                    answers, executing, lost>>
    BY DEF ChangeServer, dcVars, serverVars
  <2>4. /\ phone \in Phones /\ hash \in {NoHash} \cup [phone : Phones, dc : Ids]
        /\ told \subseteq [query : 1..MaxAsks, is : {"code", "again", "400", "refused", "restart"}]
        /\ working \in Ids /\ marked \subseteq Ids /\ overtaken \subseteq Ids
        /\ asked \in 0..MaxAsks /\ authorised \subseteq Ids /\ lost \in 0..MaxLost
    BY DEF TypeOK
  <2>5. Main' \in Nat \ {0}
    BY <1>6, <1>7 DEF Main
  <2> QED
    BY <1>2, <1>5, <1>7, <2>1, <2>2, <2>3, <2>4, <2>5 DEF TypeOK
<1> QED
  BY <1>5, <1>6, <1>9, <1>10, <1>11, <1>12, <1>13 DEF SessionsInv

\* dcchange moves mApi to the user's DC and leaves the other Apis alone.
LEMMA DcChangeSessions ==
  ASSUME TypeOK, SessionsInv, DcChange
  PROVE  /\ SessionsInv' /\ TypeOK'
         /\ \A s \in DOMAIN sessions : s \in DOMAIN sessions' /\ sessions'[s].dc = sessions[s].dc
<1>1. /\ sessions \in Seq(SessionRecords) /\ main \in [1..MaxPages -> 0..Len(sessions)]
      /\ opened \in 0..MaxPages /\ executing \in Seq(Answers)
  BY DEF TypeOK
<1>2. /\ executing # <<>> /\ working' = Home[Query.phone] /\ executing' = Tail(executing)
      /\ ChangeMainSessionToDc(Home[Query.phone])
      /\ overtaken' \subseteq overtaken \cup {Home[Query.phone]}
      /\ told' = told \cup {[query |-> Query.n, is |-> "again"]}
      /\ UNCHANGED <<stack, opened, phone, hash, marked, asked, sent, authorised, answers, lost>>
  BY DEF DcChange, Executing, Idle, Tell, serverVars
<1>3. opened > 0 /\ opened \in 1..MaxPages
  BY <1>1, <1>2, ExecutingOpened, LogInBounds DEF SessionsInv
<1>4. working' \in Ids
  BY <1>2, HeadType
<1> DEFINE new == Len(sessions) + 1
<1>5. /\ sessions' \in Seq(SessionRecords) /\ Len(sessions') = Len(sessions) + 1
      /\ main' = [main EXCEPT ![opened] = new]
      /\ sessions'[new] = NewSession(opened, working', TRUE)
      /\ sessions'[Main].api = sessions[Main].api /\ sessions'[Main].dc = sessions[Main].dc
      /\ sessions'[Main].link \in {"closing", "closed"}
      /\ \A s \in DOMAIN sessions \ {Main} : sessions'[s] = sessions[s]
  BY <1>2, <1>3, <1>4, ChangedMain
<1>6. /\ sessions'[new].api = opened /\ sessions'[new].dc = working'
      /\ sessions'[new].link = "connecting" /\ ~sessions'[new].deleted
  BY <1>5 DEF NewSession
<1>7. /\ DOMAIN sessions = 1..Len(sessions) /\ Len(sessions) \in Nat
      /\ DOMAIN sessions' = DOMAIN sessions \cup {new} /\ new \notin DOMAIN sessions
      /\ new > 0
  BY <1>1, <1>5
<1>8. Main \in DOMAIN sessions /\ sessions[Main].api = opened
  BY <1>3, MainThere DEF SessionsInv, MainsOpen, Main
<1> HIDE DEF new
<1>9. /\ main'[opened] = new /\ main' \in [1..MaxPages -> 0..Len(sessions')]
      /\ \A a \in 1..MaxPages : a # opened => main'[a] = main[a]
  BY <1>1, <1>3, <1>5, <1>7 DEF new
<1>10. PagesOpened' /\ ApisOpened'
  <2>1. \A s \in DOMAIN sessions : sessions'[s].api = sessions[s].api
    BY <1>5
  <2>2. opened' = opened /\ opened <= opened
    BY <1>2, <1>3
  <2> QED
    BY <1>3, <1>6, <1>7, <2>1, <2>2 DEF SessionsInv, PagesOpened, ApisOpened
<1>11. MainsOpen'
  <2> SUFFICES ASSUME NEW a \in 1..opened
               PROVE  /\ main'[a] \in DOMAIN sessions' /\ sessions'[main'[a]].api = a
                      /\ sessions'[main'[a]].link \in {"connecting", "ready", "lost"}
                      /\ ~sessions'[main'[a]].deleted
    BY <1>2 DEF MainsOpen
  <2>1. CASE a = opened
    BY <2>1, <1>6, <1>7, <1>9
  <2>2. CASE a # opened
    <3>1. /\ main[a] \in DOMAIN sessions /\ sessions[main[a]].api = a
          /\ sessions[main[a]].link \in {"connecting", "ready", "lost"}
          /\ ~sessions[main[a]].deleted
      BY DEF SessionsInv, MainsOpen
    <3>2. main[a] # Main /\ a \in 1..MaxPages
      BY <1>1, <1>8, <2>2, <3>1, LogInBounds
    <3> QED
      BY <1>5, <1>7, <1>9, <2>2, <3>1, <3>2
  <2> QED
    BY <2>1, <2>2
<1>12. MainAtWorking'
  BY <1>2, <1>6, <1>9 DEF MainAtWorking, Main
<1>13. OldSessionsClosed'
  <2> SUFFICES ASSUME NEW s \in DOMAIN sessions', sessions'[s].link \in {"connecting", "ready"}
               PROVE  s = main'[sessions'[s].api]
    BY DEF OldSessionsClosed
  <2>1. CASE s = new
    BY <2>1, <1>6, <1>9
  <2>2. CASE s # new
    <3>1. s \in DOMAIN sessions /\ s # Main /\ sessions'[s] = sessions[s]
      BY <1>5, <1>7, <2>2
    <3>2. s = main[sessions[s].api] /\ sessions[s] \in SessionRecords
      BY <1>1, <3>1 DEF SessionsInv, OldSessionsClosed
    <3>3. sessions[s].api \in 1..MaxPages /\ sessions[s].api # opened
      BY <3>1, <3>2 DEF SessionRecords, Main
    <3> QED
      BY <1>9, <3>1, <3>2, <3>3
  <2> QED
    BY <2>1, <2>2
<1>14. TypeOK'
  <2>1. sent \subseteq Queries' /\ answers \subseteq Answers' /\ executing \in Seq(Answers')
    BY <1>1, <1>5, QueuesKeepType
  <2>2. executing' \in Seq(Answers')
    BY <1>2, <2>1
  <2>3. /\ stack \in Seq({"phone", "code"}) /\ opened \in 0..MaxPages
        /\ phone \in Phones /\ hash \in {NoHash} \cup [phone : Phones, dc : Ids]
        /\ told \subseteq [query : 1..MaxAsks, is : {"code", "again", "400", "refused", "restart"}]
        /\ marked \subseteq Ids /\ overtaken \subseteq Ids
        /\ asked \in 0..MaxAsks /\ authorised \subseteq Ids /\ lost \in 0..MaxLost
    BY DEF TypeOK
  <2>4. overtaken' \subseteq Ids
    BY <1>2, <1>4, <2>3
  <2>5. told' \subseteq [query : 1..MaxAsks, is : {"code", "again", "400", "refused", "restart"}]
    BY <1>2, <2>3, HeadType
  <2>6. Main' > 0
    BY <1>2, <1>7, <1>9 DEF Main
  <2> QED
    BY <1>2, <1>4, <1>5, <1>9, <2>1, <2>2, <2>3, <2>4, <2>5, <2>6 DEF TypeOK
<1>15. \A s \in DOMAIN sessions : s \in DOMAIN sessions' /\ sessions'[s].dc = sessions[s].dc
  BY <1>5, <1>7
<1> QED
  BY <1>10, <1>11, <1>12, <1>13, <1>14, <1>15 DEF SessionsInv

\* Every other action changes at most the links of sessions and whether they are garbled.
LEMMA TypeKept ==
  ASSUME TypeOK, sessions' \in Seq(SessionRecords), Len(sessions') = Len(sessions),
         UNCHANGED <<opened, main>>, stack' \in Seq({"phone", "code"}), phone' \in Phones,
         hash' \in {NoHash} \cup [phone : Phones, dc : Ids],
         told' \subseteq [query : 1..MaxAsks, is : {"code", "again", "400", "refused", "restart"}],
         working' \in Ids, marked' \subseteq Ids, overtaken' \subseteq Ids,
         asked' \in 0..MaxAsks, sent' \subseteq Queries, answers' \subseteq Answers,
         executing' \in Seq(Answers), authorised' \subseteq Ids, lost' \in 0..MaxLost
  PROVE  TypeOK'
<1>1. /\ sessions \in Seq(SessionRecords) /\ main \in [1..MaxPages -> 0..Len(sessions)]
      /\ (opened > 0 => Main > 0) /\ opened \in 0..MaxPages
  BY DEF TypeOK
<1>2. DOMAIN sessions' = DOMAIN sessions
  BY <1>1
<1>3. Queries' = Queries
  BY <1>2 DEF Queries
<1>4. Answers' = Answers
  BY <1>3 DEF Answers
<1>5. main' \in [1..MaxPages -> 0..Len(sessions')] /\ (opened' > 0 => Main' > 0)
  BY <1>1 DEF Main
<1> QED
  BY <1>1, <1>3, <1>4, <1>5 DEF TypeOK

\* What TypeOK says of the variables the slots and servers change.
LEMMA Types ==
  ASSUME TypeOK
  PROVE  /\ sessions \in Seq(SessionRecords) /\ stack \in Seq({"phone", "code"})
         /\ phone \in Phones /\ hash \in {NoHash} \cup [phone : Phones, dc : Ids]
         /\ told \subseteq [query : 1..MaxAsks, is : {"code", "again", "400", "refused", "restart"}]
         /\ working \in Ids /\ marked \subseteq Ids /\ overtaken \subseteq Ids
         /\ asked \in 0..MaxAsks /\ sent \subseteq Queries /\ answers \subseteq Answers
         /\ executing \in Seq(Answers) /\ authorised \subseteq Ids /\ lost \in 0..MaxLost
         /\ opened \in 0..MaxPages
  BY DEF TypeOK

\* One session takes another state, with its Api and DC.
LEMMA OneSession ==
  ASSUME TypeOK, SessionsInv, NEW s \in DOMAIN sessions, NEW t \in SessionRecords,
         sessions' = [sessions EXCEPT ![s] = t],
         UNCHANGED <<opened, main, working>>, PagesOpened',
         t.api = sessions[s].api, t.dc = sessions[s].dc,
         t.link \in {"connecting", "ready"} => sessions[s].link \in {"connecting", "ready"},
         sessions[s].link \in {"connecting", "ready", "lost"} =>
           t.link \in {"connecting", "ready", "lost"} /\ (~sessions[s].deleted => ~t.deleted)
  PROVE  /\ sessions' \in Seq(SessionRecords) /\ Len(sessions') = Len(sessions)
         /\ SessionsInv'
         /\ \A x \in DOMAIN sessions : x \in DOMAIN sessions' /\ sessions'[x].dc = sessions[x].dc
<1>1. sessions \in Seq(SessionRecords)
  BY Types
<1>2. /\ sessions' \in Seq(SessionRecords) /\ Len(sessions') = Len(sessions)
      /\ DOMAIN sessions' = DOMAIN sessions /\ sessions'[s] = t
      /\ \A x \in DOMAIN sessions \ {s} : sessions'[x] = sessions[x]
  BY <1>1
<1>3. SessionsInv'
  BY <1>2, SessionsEdited
<1> QED
  BY <1>2, <1>3

---------------------------------------------------------------------------
(* The answers, and the actions that neither open nor move an Api. *)

\* Nothing new is under way and the DC stays.
LEMMA AnswersKept ==
  ASSUME TypeOK, AnswersInv, UNCHANGED <<working, marked, overtaken, authorised>>,
         sent' \subseteq sent, UnderWay' \subseteq UnderWay,
         \A s \in DOMAIN sessions : sessions'[s].dc = sessions[s].dc
  PROVE  AnswersInv'
<1>1. \A q \in sent : q.session \in DOMAIN sessions
  BY Types DEF Queries
<1>2. SignInsHome'
  BY <1>1 DEF AnswersInv, SignInsHome
<1>3. AuthorizedHere' /\ MarkedTruly'
  BY DEF AnswersInv, AuthorizedHere, MarkedTruly
<1> QED
  BY <1>2, <1>3 DEF AnswersInv

\* A socket connects, and onserverready may garble what the main session writes.
LEMMA ConnectKeeps ==
  ASSUME IInv, NEW s \in DOMAIN sessions, OnConnected(s)
  PROVE  IInv'
<1>1. UNCHANGED <<stack, opened, phone, hash, told, main, working, marked, overtaken, asked,
                  sent, authorised, answers, executing, lost>>
  BY DEF OnConnected, uiVars, dcVars, serverVars
<1>2. TypeOK /\ SessionsInv /\ AnswersInv
  BY DEF IInv
<1>3. sessions \in Seq(SessionRecords)
  BY <1>2, Types
<1>4. opened > 0
  <2>1. sessions[s] \in SessionRecords
    BY <1>3
  <2>2. sessions[s].api \in 1..MaxPages /\ sessions[s].api <= opened /\ opened \in 0..MaxPages
    BY <1>2, <2>1, Types DEF SessionRecords, SessionsInv, ApisOpened
  <2> QED
    BY <2>2, LogInBounds
<1>5. Main \in DOMAIN sessions
  BY <1>2, <1>4, MainThere
<1> DEFINE r == [sessions[s] EXCEPT !.link = "ready"]
           mid == [sessions EXCEPT ![s] = r]
           b == mid[Main].garbled \/ SpoilsMain(s)
           t == [mid[Main] EXCEPT !.garbled = b]
<1>6. sessions[s].link = "connecting" /\ sessions' = [mid EXCEPT ![Main] = t]
  BY DEF OnConnected
<1>7. /\ r \in SessionRecords /\ r.api = sessions[s].api /\ r.dc = sessions[s].dc
      /\ r.deleted = sessions[s].deleted /\ r.link = "ready"
  <2>1. sessions[s] \in SessionRecords
    BY <1>3
  <2> QED
    BY <2>1 DEF SessionRecords
<1> HIDE DEF r
<1>8. /\ mid \in Seq(SessionRecords) /\ Len(mid) = Len(sessions)
      /\ DOMAIN mid = DOMAIN sessions /\ mid[s] = r
      /\ \A x \in DOMAIN sessions \ {s} : mid[x] = sessions[x]
  BY <1>3, <1>7
<1> HIDE DEF mid
<1>9. /\ t \in SessionRecords /\ t.api = mid[Main].api /\ t.dc = mid[Main].dc
      /\ t.deleted = mid[Main].deleted /\ t.link = mid[Main].link
  <2>1. mid[Main] \in SessionRecords
    BY <1>5, <1>8
  <2>2. b \in BOOLEAN
    BY <2>1 DEF SessionRecords, SpoilsMain
  <2> HIDE DEF b
  <2> QED
    BY <2>1, <2>2 DEF SessionRecords
<1> HIDE DEF t
<1>10. /\ sessions' \in Seq(SessionRecords) /\ Len(sessions') = Len(sessions)
       /\ DOMAIN sessions' = DOMAIN sessions /\ sessions'[Main] = t
       /\ \A x \in DOMAIN sessions \ {Main} : sessions'[x] = mid[x]
  BY <1>5, <1>6, <1>8, <1>9
<1>11. \A x \in DOMAIN sessions :
         /\ sessions'[x].api = mid[x].api /\ sessions'[x].dc = mid[x].dc
         /\ sessions'[x].deleted = mid[x].deleted /\ sessions'[x].link = mid[x].link
  BY <1>9, <1>10
<1>12. \A x \in DOMAIN sessions :
         /\ mid[x].api = sessions[x].api /\ mid[x].dc = sessions[x].dc
         /\ mid[x].deleted = sessions[x].deleted
         /\ mid[x].link = sessions[x].link
              \/ (mid[x].link = "ready" /\ sessions[x].link = "connecting")
  BY <1>6, <1>7, <1>8
<1>13. PagesOpened'
  BY <1>1, <1>2 DEF SessionsInv, PagesOpened
<1>14. SessionsInv'
  BY <1>1, <1>2, <1>10, <1>11, <1>12, <1>13, SessionsEdited
<1>15. TypeOK'
  BY <1>1, <1>2, <1>10, Types, TypeKept
<1>16. UnderWay' = UnderWay
  BY <1>1 DEF UnderWay
<1>17. \A x \in DOMAIN sessions : sessions'[x].dc = sessions[x].dc
  BY <1>11, <1>12
<1>18. AnswersInv'
  BY <1>1, <1>2, <1>16, <1>17, AnswersKept
<1> QED
  BY <1>14, <1>15, <1>18 DEF IInv

\* A socket closes or is lost.
LEMMA LinkChanges ==
  ASSUME IInv, NEW s \in DOMAIN sessions,
         OnDisconnected(s) \/ ConnectionLost(s)
  PROVE  IInv'
<1>1. /\ UNCHANGED <<stack, opened, phone, hash, told, main, working, marked, overtaken, asked,
                     sent, authorised, answers, executing>>
      /\ lost' = lost \/ (lost < MaxLost /\ lost' = lost + 1)
  BY DEF OnDisconnected, ConnectionLost, uiVars, dcVars, serverVars
<1>2. TypeOK /\ SessionsInv /\ AnswersInv
  BY DEF IInv
<1>3. lost' \in 0..MaxLost
  BY <1>1, <1>2, Types, LogInBounds
<1>4. sessions[s] \in SessionRecords /\ PagesOpened'
  BY <1>1, <1>2, Types DEF SessionsInv, PagesOpened
<1>5. PICK t \in SessionRecords :
        /\ sessions' = [sessions EXCEPT ![s] = t]
        /\ t.api = sessions[s].api /\ t.dc = sessions[s].dc
        /\ t.link \in {"connecting", "ready"} => sessions[s].link \in {"connecting", "ready"}
        /\ sessions[s].link \in {"connecting", "ready", "lost"} =>
             t.link \in {"connecting", "ready", "lost"} /\ (~sessions[s].deleted => ~t.deleted)
  <2>2. CASE OnDisconnected(s)
    <3> DEFINE d == sessions[s].managed /\ s = main[sessions[s].api]
               t == [sessions[s] EXCEPT !.link = "closed", !.deleted = d]
    <3>1. t \in SessionRecords
      BY <1>4 DEF SessionRecords
    <3>2. sessions' = [sessions EXCEPT ![s] = t]
      BY <2>2 DEF OnDisconnected
    <3>3. t.api = sessions[s].api /\ t.dc = sessions[s].dc
          /\ t.link = "closed" /\ sessions[s].link = "closing"
      BY <1>4, <2>2 DEF OnDisconnected, SessionRecords
    <3> QED
      BY <3>1, <3>2, <3>3
  <2>3. CASE ConnectionLost(s)
    <3> DEFINE t == [sessions[s] EXCEPT !.link = "lost"]
    <3>1. t \in SessionRecords /\ sessions' = [sessions EXCEPT ![s] = t]
      BY <1>4, <2>3 DEF ConnectionLost, SessionRecords
    <3>2. t.api = sessions[s].api /\ t.dc = sessions[s].dc /\ t.deleted = sessions[s].deleted
          /\ t.link = "lost"
      BY <1>4 DEF SessionRecords
    <3> QED
      BY <3>1, <3>2
  <2> QED
    BY <2>2, <2>3
<1>6. /\ sessions' \in Seq(SessionRecords) /\ Len(sessions') = Len(sessions)
      /\ SessionsInv'
      /\ \A x \in DOMAIN sessions : sessions'[x].dc = sessions[x].dc
  BY <1>1, <1>2, <1>4, <1>5, OneSession
<1>7. TypeOK'
  BY <1>1, <1>2, <1>3, <1>6, Types, TypeKept
<1>8. UnderWay' = UnderWay
  BY <1>1 DEF UnderWay
<1>9. AnswersInv'
  BY <1>1, <1>2, <1>6, <1>8, AnswersKept
<1> QED
  BY <1>6, <1>7, <1>9 DEF IInv

\* The user goes back a page.
LEMMA GoesBack ==
  ASSUME IInv, Back
  PROVE  IInv'
<1>1. UNCHANGED <<opened, phone, hash, told, sessions, main, working, marked, overtaken, asked,
                  sent, authorised, answers, executing, lost>>
  BY DEF Back, dcVars, serverVars
<1>2. TypeOK /\ SessionsInv /\ AnswersInv
  BY DEF IInv
<1>3. stack # <<>> /\ stack' \in Seq({"phone", "code"})
  BY <1>2, Types DEF Back
<1>4. TypeOK'
  BY <1>1, <1>2, <1>3, Types, TypeKept
<1>5. PagesOpened'
  BY <1>1, <1>2, <1>3 DEF SessionsInv, PagesOpened
<1>6. SessionsInv'
  BY <1>1, <1>2, <1>5 DEF SessionsInv, ApisOpened, MainsOpen, MainAtWorking, OldSessionsClosed,
                          Main
<1>7. UnderWay' = UnderWay
  BY <1>1 DEF UnderWay
<1>8. AnswersInv'
  BY <1>1, <1>2, <1>7, AnswersKept
<1> QED
  BY <1>4, <1>6, <1>8 DEF IInv

\* A page asks: a sign-in goes to the main session, which is one to the working DC.
LEMMA SendQueryKeeps ==
  ASSUME IInv, NEW kind \in {"sendCode", "signIn"}, NEW p \in Phones,
         NEW h \in {NoHash} \cup [phone : Phones, dc : Ids], NEW right \in BOOLEAN,
         SendQuery(kind, p, h, right), stack # <<>>, phone' \in Phones, hash' = hash
  PROVE  IInv'
<1> DEFINE q == [n |-> asked', session |-> Main, kind |-> kind, phone |-> p, hash |-> h,
                 right |-> right]
<1>1. /\ UNCHANGED <<stack, opened, told, main, working, marked, overtaken, authorised, answers,
                     executing, lost>>
      /\ asked < MaxAsks /\ asked' = asked + 1
      /\ sent' = sent \/ sent' = sent \cup {q}
  BY DEF SendQuery, dcVars
<1>2. TypeOK /\ SessionsInv /\ AnswersInv
  BY DEF IInv
<1>3. asked' \in 1..MaxAsks /\ asked' \in 0..MaxAsks
  BY <1>1, <1>2, Types, LogInBounds
<1>4. opened > 0
  BY <1>2 DEF SessionsInv, PagesOpened
<1>5. /\ Main \in DOMAIN sessions /\ sessions[Main] \in SessionRecords
      /\ sessions[Main].dc = working
  BY <1>2, <1>4, MainThere DEF SessionsInv, MainAtWorking
<1>6. q \in Queries
  BY <1>3, <1>5 DEF Queries
<1> DEFINE b == sessions[Main].garbled \/ sessions[Main].link = "connecting"
           t == [sessions[Main] EXCEPT !.garbled = b]
<1>7. sessions' = [sessions EXCEPT ![Main] = t]
  BY DEF SendQuery
<1>8. /\ t \in SessionRecords /\ t.api = sessions[Main].api /\ t.dc = sessions[Main].dc
      /\ t.link = sessions[Main].link /\ t.deleted = sessions[Main].deleted
  BY <1>5 DEF SessionRecords
<1>9. PagesOpened'
  BY <1>1, <1>4 DEF PagesOpened
<1> HIDE DEF q, t
<1>10. /\ sessions' \in Seq(SessionRecords) /\ Len(sessions') = Len(sessions)
       /\ SessionsInv'
       /\ \A x \in DOMAIN sessions : sessions'[x].dc = sessions[x].dc
  BY <1>1, <1>2, <1>5, <1>7, <1>8, <1>9, OneSession
<1>11. sent' \subseteq Queries
  BY <1>1, <1>2, <1>6, Types
<1>12. TypeOK'
  BY <1>1, <1>2, <1>3, <1>10, <1>11, Types, TypeKept
<1>13. SignInsHome'
  <2>1. \A x \in sent : x.session \in DOMAIN sessions
    BY <1>2, Types DEF Queries
  <2>2. q.session = Main
    BY DEF q
  <2> QED
    BY <1>1, <1>2, <1>5, <1>10, <2>1, <2>2 DEF AnswersInv, SignInsHome
<1>14. AuthorizedHere' /\ MarkedTruly'
  BY <1>1, <1>2 DEF AnswersInv, AuthorizedHere, MarkedTruly, UnderWay
<1> QED
  BY <1>10, <1>12, <1>13, <1>14 DEF IInv, AnswersInv

\* A server that signs the user in is that of the working DC, unless the program moved.
LEMMA ServerAnswersKeeps ==
  ASSUME IInv, NEW q \in sent, ServerAnswers(q)
  PROVE  IInv'
<1>1. PICK x \in Outcomes(q) :
        /\ authorised' = IF x = "authorized"
                           THEN authorised \cup {sessions[q.session].dc} ELSE authorised
        /\ answers' = IF sessions[q.session].link = "ready"
                        THEN answers \cup {[query |-> q, is |-> x]} ELSE answers
  BY DEF ServerAnswers
<1>2. /\ sent' = sent \ {q}
      /\ UNCHANGED <<stack, opened, phone, hash, told, sessions, main, working, marked, overtaken,
                     asked, executing, lost>>
  BY DEF ServerAnswers, uiVars, dcVars
<1>3. TypeOK /\ SessionsInv /\ AnswersInv
  BY DEF IInv
<1>4. q \in Queries /\ q.session \in DOMAIN sessions /\ sessions[q.session] \in SessionRecords
  BY <1>3, Types DEF Queries
<1>5. sessions[q.session].dc \in Ids
  BY <1>4 DEF SessionRecords
<1>6. /\ x \in {"sentCode", "303", "400", "other", "authorized", "refused"}
      /\ x = "authorized" => q.kind = "signIn"
  BY DEF Outcomes
<1>7. [query |-> q, is |-> x] \in Answers
  BY <1>4, <1>6 DEF Answers
<1>8. answers' \subseteq Answers /\ authorised' \subseteq Ids /\ sent' \subseteq Queries
  BY <1>1, <1>2, <1>3, <1>5, <1>7, Types
<1>9. TypeOK'
  BY <1>2, <1>3, <1>8, Types, TypeKept
<1>10. SessionsInv'
  BY <1>2, <1>3 DEF SessionsInv, PagesOpened, ApisOpened, MainsOpen, MainAtWorking,
                    OldSessionsClosed, Main
<1>11. SignInsHome'
  BY <1>2, <1>3 DEF AnswersInv, SignInsHome
<1>12. authorised \subseteq authorised'
  BY <1>1
<1>13. x = "authorized" => working \in authorised' \cup overtaken
  BY <1>1, <1>3, <1>6 DEF AnswersInv, SignInsHome
<1>14. UnderWay' \subseteq UnderWay \cup {[query |-> q, is |-> x]}
  BY <1>1, <1>2 DEF UnderWay
<1>15. AuthorizedHere'
  BY <1>2, <1>3, <1>6, <1>12, <1>13, <1>14 DEF AnswersInv, AuthorizedHere
<1>16. MarkedTruly'
  BY <1>2, <1>3, <1>12 DEF AnswersInv, MarkedTruly
<1> QED
  BY <1>9, <1>10, <1>11, <1>15, <1>16 DEF IInv, AnswersInv

\* A message arrives: the answers it holds were on the way.
LEMMA ArrivesKeeps ==
  ASSUME IInv, NEW s \in DOMAIN sessions, Arrives(s)
  PROVE  IInv'
<1>1. PICK x \in answers, y \in answers :
        /\ executing' = IF x = y THEN <<x>> ELSE <<x, y>>
        /\ answers' = answers \ {x, y}
  BY DEF Arrives
<1>2. UNCHANGED <<stack, opened, phone, hash, told, sessions, main, working, marked, overtaken,
                  asked, sent, authorised, lost>>
  BY DEF Arrives, uiVars, dcVars, serverVars
<1>3. TypeOK /\ SessionsInv /\ AnswersInv
  BY DEF IInv
<1>4. x \in Answers /\ y \in Answers
  BY <1>3, Types
<1>5. executing' \in Seq(Answers) /\ answers' \subseteq Answers
  BY <1>1, <1>3, <1>4, Types
<1>6. TypeOK'
  BY <1>2, <1>3, <1>5, Types, TypeKept
<1>7. SessionsInv'
  BY <1>2, <1>3 DEF SessionsInv, PagesOpened, ApisOpened, MainsOpen, MainAtWorking,
                    OldSessionsClosed, Main
<1>8. \A i \in DOMAIN executing' : executing'[i] \in {x, y}
  BY <1>1
<1>9. UnderWay' \subseteq UnderWay
  BY <1>1, <1>8 DEF UnderWay
<1>10. AnswersInv'
  BY <1>2, <1>3, <1>9, AnswersKept
<1> QED
  BY <1>6, <1>7, <1>10 DEF IInv

\* A slot takes the first answer of the message; the others stay under way.
LEMMA SlotTypes ==
  ASSUME TypeOK, executing # <<>>, executing' = Tail(executing), answers' = answers
  PROVE  /\ executing' \in Seq(Answers) /\ UnderWay' \subseteq UnderWay
         /\ Head(executing) \in UnderWay
<1>1. executing \in Seq(Answers)
  BY Types
<1>2. executing' \in Seq(Answers)
      /\ \A i \in DOMAIN executing' : \E j \in DOMAIN executing : executing'[i] = executing[j]
  BY HeadType
<1>3. 1 \in DOMAIN executing /\ Head(executing) = executing[1]
  BY <1>1
<1> QED
  BY <1>2, <1>3 DEF UnderWay

\* onauthSentCode and the error slots change only what the user sees.
LEMMA TellingKeeps ==
  ASSUME IInv, OnAuthSentCode \/ OnError
  PROVE  IInv'
<1>1. /\ executing # <<>> /\ executing' = Tail(executing)
      /\ UNCHANGED <<opened, phone, sessions, main, working, marked, overtaken, asked, sent,
                     authorised, answers, lost>>
  BY DEF OnAuthSentCode, OnError, Shown, Silent, Executing, Idle, dcVars, serverVars
<1>2. \/ UNCHANGED <<stack, hash>>
      \/ hash' = HashFor(Query) /\ stack' = stack \o [i \in 1..opened |-> "code"]
  BY DEF OnAuthSentCode, OnError
<1>3. \/ told' = told
      \/ \E what \in {"code", "400", "refused"} : told' = told \cup {[query |-> Query.n, is |-> what]}
  BY DEF OnAuthSentCode, OnError, Shown, Silent, Tell
<1>4. TypeOK /\ SessionsInv /\ AnswersInv
  BY DEF IInv
<1>5. /\ Query.session \in DOMAIN sessions /\ Query.n \in 1..MaxAsks /\ Query.phone \in Phones
      /\ sessions \in Seq(SessionRecords)
  BY <1>1, <1>4, HeadType, Types
<1>6. HashFor(Query) \in [phone : Phones, dc : Ids]
  <2>1. sessions[Query.session] \in SessionRecords
    BY <1>5
  <2> QED
    BY <1>5, <2>1 DEF HashFor, SessionRecords
<1>7. stack' \in Seq({"phone", "code"})
  <2> DEFINE pages == [i \in 1..opened |-> "code"]
  <2>1. pages \in Seq({"phone", "code"}) /\ stack \in Seq({"phone", "code"})
    BY <1>4, Types
  <2> HIDE DEF pages
  <2>2. stack \o pages \in Seq({"phone", "code"})
    BY <2>1
  <2> QED
    BY <1>2, <2>1, <2>2 DEF pages
<1>8. hash' \in {NoHash} \cup [phone : Phones, dc : Ids]
  BY <1>2, <1>4, <1>6, Types
<1>9. told' \subseteq [query : 1..MaxAsks, is : {"code", "again", "400", "refused", "restart"}]
  BY <1>3, <1>4, <1>5, Types
<1>10. executing' \in Seq(Answers) /\ UnderWay' \subseteq UnderWay
  BY <1>1, <1>4, SlotTypes
<1>11. TypeOK'
  BY <1>1, <1>4, <1>7, <1>8, <1>9, <1>10, Types, TypeKept
<1>12. opened > 0
  BY <1>1, <1>4, ExecutingOpened DEF SessionsInv
<1>13. SessionsInv'
  BY <1>1, <1>4, <1>12 DEF SessionsInv, PagesOpened, ApisOpened, MainsOpen, MainAtWorking,
                           OldSessionsClosed, Main
<1>14. AnswersInv'
  BY <1>1, <1>4, <1>10, AnswersKept
<1> QED
  BY <1>11, <1>13, <1>14 DEF IInv

\* onUserAuthorized marks the working DC, which signed the user in or was moved to.
LEMMA OnUserAuthorizedKeeps ==
  ASSUME IInv, OnUserAuthorized
  PROVE  IInv'
<1>1. /\ executing # <<>> /\ executing' = Tail(executing) /\ Head(executing).is = "authorized"
      /\ marked' = marked \cup {working}
      /\ told' = told \cup {[query |-> Query.n, is |-> "restart"]}
      /\ UNCHANGED <<stack, opened, phone, hash, sessions, main, working, overtaken, asked, sent,
                     authorised, answers, lost>>
  BY DEF OnUserAuthorized, Executing, Idle, Tell, serverVars
<1>2. TypeOK /\ SessionsInv /\ AnswersInv
  BY DEF IInv
<1>3. /\ executing' \in Seq(Answers) /\ UnderWay' \subseteq UnderWay
      /\ Head(executing) \in UnderWay
  BY <1>1, <1>2, SlotTypes
<1>4. Query.n \in 1..MaxAsks
  BY <1>1, <1>2, HeadType
<1>5. /\ told' \subseteq [query : 1..MaxAsks, is : {"code", "again", "400", "refused", "restart"}]
      /\ marked' \subseteq Ids
  BY <1>1, <1>2, <1>4, Types
<1>6. TypeOK'
  BY <1>1, <1>2, <1>3, <1>5, Types, TypeKept
<1>7. SessionsInv'
  BY <1>1, <1>2 DEF SessionsInv, PagesOpened, ApisOpened, MainsOpen, MainAtWorking,
                    OldSessionsClosed, Main
<1>8. working \in authorised \cup overtaken
  BY <1>1, <1>2, <1>3 DEF AnswersInv, AuthorizedHere
<1>9. AnswersInv'
  BY <1>1, <1>2, <1>3, <1>8 DEF AnswersInv, SignInsHome, AuthorizedHere, MarkedTruly
<1> QED
  BY <1>6, <1>7, <1>9 DEF IInv

\* dcchange records that a sign-in was overtaken.
LEMMA DcChangeKeeps ==
  ASSUME IInv, DcChange
  PROVE  IInv'
<1>1. TypeOK /\ SessionsInv /\ AnswersInv
  BY DEF IInv
<1>2. /\ SessionsInv' /\ TypeOK'
      /\ \A s \in DOMAIN sessions : sessions'[s].dc = sessions[s].dc
  BY <1>1, DcChangeSessions
<1>3. /\ executing # <<>> /\ executing' = Tail(executing)
      /\ UNCHANGED <<marked, sent, authorised, answers>>
      /\ overtaken \subseteq overtaken'
      /\ SignInUnderWay => working' \in overtaken'
  BY DEF DcChange, Executing, Idle, serverVars
<1>4. UnderWay' \subseteq UnderWay
  BY <1>1, <1>3, SlotTypes
<1>5. SignInsHome'
  BY <1>3 DEF SignInsHome, SignInUnderWay
<1>6. AuthorizedHere'
  <2> SUFFICES ASSUME NEW a \in UnderWay', a.is = "authorized"
               PROVE  a.query.kind = "signIn" /\ working' \in authorised' \cup overtaken'
    BY DEF AuthorizedHere
  <2>1. a \in UnderWay /\ a.query.kind = "signIn"
    BY <1>1, <1>4 DEF AnswersInv, AuthorizedHere
  <2>2. SignInUnderWay
    BY <2>1 DEF UnderWay, SignInUnderWay
  <2> QED
    BY <1>3, <2>1, <2>2
<1>7. MarkedTruly'
  BY <1>1, <1>3 DEF AnswersInv, MarkedTruly
<1> QED
  BY <1>2, <1>5, <1>6, <1>7 DEF IInv, AnswersInv

\* changeServer leaves the queries under way alone.
LEMMA ChangeServerKeeps ==
  ASSUME IInv, ChangeServer
  PROVE  IInv'
<1>1. TypeOK /\ SessionsInv /\ AnswersInv
  BY DEF IInv
<1>2. /\ SessionsInv' /\ TypeOK'
      /\ \A s \in DOMAIN sessions : sessions'[s].dc = sessions[s].dc
  BY <1>1, ChangeServerSessions
<1>3. UNCHANGED <<working, marked, overtaken, authorised, sent, answers, executing>>
  BY DEF ChangeServer, dcVars, serverVars
<1>4. AnswersInv'
  BY <1>1, <1>2, <1>3, AnswersKept DEF UnderWay
<1> QED
  BY <1>2, <1>4 DEF IInv

---------------------------------------------------------------------------
(* The theorems. *)

LEMMA InitIInv == Init => IInv
<1> SUFFICES ASSUME Init PROVE IInv
  OBVIOUS
<1>1. phone \in Phones
  BY HomeAssumption DEF Init
<1>2. TypeOK
  BY <1>1, HomeAssumption, LogInBounds DEF Init, TypeOK
<1>3. SessionsInv
  BY DEF Init, SessionsInv, PagesOpened, ApisOpened, MainsOpen, MainAtWorking, OldSessionsClosed
<1>4. AnswersInv
  BY DEF Init, AnswersInv, SignInsHome, AuthorizedHere, MarkedTruly, UnderWay
<1> QED
  BY <1>2, <1>3, <1>4 DEF IInv

LEMMA NextIInv == IInv /\ [Next]_vars => IInv'
<1> SUFFICES ASSUME IInv, [Next]_vars PROVE IInv'
  OBVIOUS
<1>1. CASE ChangeServer
  BY <1>1, ChangeServerKeeps
<1>2. CASE Back
  BY <1>2, GoesBack
<1>3. ASSUME NEW p \in Phones, AuthSendCode(p) PROVE IInv'
  <2>1. stack # <<>> /\ SendQuery("sendCode", p, NoHash, FALSE) /\ phone' = p /\ hash' = hash
    BY <1>3 DEF AuthSendCode, Top
  <2> QED
    BY <2>1, SendQueryKeeps
<1>4. ASSUME NEW right \in BOOLEAN, AuthUser(right) PROVE IInv'
  <2>1. /\ stack # <<>> /\ SendQuery("signIn", phone, hash, right)
        /\ phone' = phone /\ hash' = hash
    BY <1>4 DEF AuthUser, Top
  <2>2. phone \in Phones /\ hash \in {NoHash} \cup [phone : Phones, dc : Ids]
    BY Types DEF IInv
  <2> QED
    BY <2>1, <2>2, SendQueryKeeps
<1>5. ASSUME NEW s \in DOMAIN sessions, OnConnected(s) \/ OnDisconnected(s) \/ ConnectionLost(s)
      PROVE  IInv'
  BY <1>5, ConnectKeeps, LinkChanges
<1>6. ASSUME NEW s \in DOMAIN sessions, Arrives(s) PROVE IInv'
  BY <1>6, ArrivesKeeps
<1>7. ASSUME NEW q \in sent, ServerAnswers(q) PROVE IInv'
  BY <1>7, ServerAnswersKeeps
<1>8. CASE OnAuthSentCode \/ OnError
  BY <1>8, TellingKeeps
<1>9. CASE DcChange
  BY <1>9, DcChangeKeeps
<1>10. CASE OnUserAuthorized
  BY <1>10, OnUserAuthorizedKeeps
<1>11. CASE UNCHANGED vars
  BY <1>11 DEF vars, uiVars, dcVars, serverVars, IInv, TypeOK, Main, Queries, Answers,
               SessionsInv, PagesOpened, ApisOpened, MainsOpen, MainAtWorking, OldSessionsClosed,
               AnswersInv, SignInsHome, AuthorizedHere, MarkedTruly, UnderWay
<1> QED
  BY <1>1, <1>2, <1>3, <1>4, <1>5, <1>6, <1>7, <1>8, <1>9, <1>10, <1>11 DEF Next

\* However many pages are opened, Apis moved and connections lost, the state the log-in
\* keeps is that of IInv (src/src/applicationui.cpp and src/src/core/sessionmanager.cpp).
THEOREM LogInInvariant == Spec => []IInv
  BY InitIInv, NextIInv, PTL DEF Spec

\* The variables keep their types.
THEOREM LogInTypes == Spec => []TypeOK
<1>1. IInv => TypeOK
  BY DEF IInv
<1> QED
  BY <1>1, LogInInvariant, PTL

\* The user interface always asks a session to the working DC (dcchange moves mApi and
\* Settings together).
THEOREM PagesAskTheWorkingDc == Spec => []MainAtWorking
<1>1. IInv => MainAtWorking
  BY DEF IInv, SessionsInv
<1> QED
  BY <1>1, LogInInvariant, PTL

\* changeMainSessionToDc leaves no session of an Api open but the main one.
THEOREM OldSessionsAreClosed == Spec => []OldSessionsClosed
<1>1. IInv => OldSessionsClosed
  BY DEF IInv, SessionsInv
<1> QED
  BY <1>1, LogInInvariant, PTL

\* onSessionClosed never deletes the session mMainSession points to.
THEOREM MainSessionsLive == Spec => []MainAlive
<1>1. IInv => MainAlive
  BY DEF IInv, SessionsInv, MainsOpen, MainAlive
<1> QED
  BY <1>1, LogInInvariant, PTL

\* onUserAuthorized marks a DC whose server did not sign the user in only where a 303 led
\* there while a sign-in was under way.
THEOREM MarksAreTrue == Spec => []MarkedTruly
<1>1. IInv => MarkedTruly
  BY DEF IInv, AnswersInv
<1> QED
  BY <1>1, LogInInvariant, PTL

=============================================================================
