----------------------------- MODULE DcProvider -----------------------------
(***************************************************************************)
(* Start-up and log-in: src/src/core/dcprovider.cpp with the key exchange  *)
(* of dcauth.cpp, the settings file of settings.cpp and the steps of       *)
(* applicationui.cpp that start it and write that file.                    *)
(*                                                                         *)
(* A DC object is named by its number and address: onConfigReceived makes  *)
(* at most one of each in a run of the program, because a configuration    *)
(* names a DC once and is asked for once.  A run ends at any moment        *)
(* (Exit) and leaves only the file; QSettings writes it as a whole.        *)
(*                                                                         *)
(* The server answers the three steps of the key exchange, sends the       *)
(* arrangement of DCs that is in force, and answers exports and imports.   *)
(* What disturbs the program is counted: connections are lost MaxLost times*)
(* and one arrangement follows another.  The cryptographic checks of the   *)
(* exchange, which a genuine server passes, are left out.                  *)
(*                                                                         *)
(* A definition marked "Mistake" is a plausible bug of the code modelled by*)
(* the definition that follows it; no other definition uses it.            *)
(***************************************************************************)
EXTENDS Integers, Sequences, FiniteSets

CONSTANTS
  Ids,         \* DC numbers
  Addresses,   \* hosts with their ports
  Boot,        \* the address of DC 1 that initialize knows
  Arrangements,\* the configurations in the order they come into force:
               \* number -> address
  AllDcs,      \* the number of DCs onConfigReceived compares with (5)
  NoFile,      \* there is no data/auth
  MaxRuns,     \* bound: runs of the program
  MaxLost      \* bound: connections lost

ASSUME IdsAssumption == Ids \subseteq Nat \ {0} /\ 1 \in Ids /\ IsFiniteSet(Ids)
ASSUME ArrangementsAssumption ==
  /\ Boot \in Addresses /\ Arrangements # <<>>
  /\ Arrangements \in Seq(UNION {[I -> Addresses] : I \in SUBSET Ids})
\* Data centres are added and move, and there are no more than AllDcs.
ASSUME DcsStay ==
  \A n \in DOMAIN Arrangements :
    /\ 1 \in DOMAIN Arrangements[n] /\ Cardinality(DOMAIN Arrangements[n]) <= AllDcs
    /\ \A m \in 1..n : DOMAIN Arrangements[m] \subseteq DOMAIN Arrangements[n]
ASSUME BoundsAssumption == AllDcs \in Nat /\ MaxRuns \in Nat /\ MaxLost \in Nat

\* DC::DcState; error is never set.
init           == 0
reqPQSent      == 1
reqDHSent      == 2
clientDHSent   == 3
authKeyCreated == 4
userSignedIn   == 5
DcStates == init..userSignedIn

VARIABLES
  file,        \* data/auth
  runs,        \* runs of the program, at most MaxRuns
  lost, moves, \* connections lost, changes of the arrangement
  view,        \* what the user sees: nothing, welcome, main, or "restart me"
  working,     \* Settings::m_workingDcNum
  dcs,         \* mDcs, number -> address
  state,       \* DC::m_state of every DC object
  auths,       \* mDcAuths, number -> address
  authLink,    \* the socket of the DCAuth of a DC
  talk,        \* its exchange: quiet, asked, or an answer is queued
  api,         \* mApi and its session: none, connecting, asked (for the
               \* configuration), configured, failed, or silently lost
  garbled,     \* a query went out before the marker of that session
  pendingDcs,  \* mPendingDcs
  ready,       \* dcProviderReady signals emitted
  opening,     \* DCs whose transfer session is not ready (mPendingTransferSessions)
  transferring,\* mTransferSessions
  step,        \* the query of the transfer that is under way
  transferred  \* authTransferCompleted was emitted

authVars     == <<auths, authLink, talk>>
transferVars == <<opening, transferring, step, transferred>>
vars == <<file, runs, lost, moves, view, working, dcs, state, authVars, api, garbled,
          pendingDcs, ready, transferVars>>

Objects == [id : Ids, addr : Addresses]
Object(table, i) == [id |-> i, addr |-> table[i]]
Put(table, i, a) == [j \in DOMAIN table \cup {i} |-> IF j = i THEN a ELSE table[j]]
Empty == [i \in {} |-> Boot]

\* mDcs.values() is ordered by number; the application indexes it with number - 1.
NthDc(table, n) ==
  CHOOSE i \in DOMAIN table : Cardinality({j \in DOMAIN table : j < i}) = n - 1

\* setDcsList(mDcs.values()) and writeAuthFile.
FileOf(table, states) ==
  [working |-> working,
   dcs |-> [i \in DOMAIN table |->
              [addr |-> table[i], state |-> states[Object(table, i)]]]]

Up == view # "none"

---------------------------------------------------------------------------
(* A DC is ready. *)

\* Mistake: the counter is decremented before it is compared.
ReadyOneEarly(o, states) ==
  \/ /\ api = "none" /\ o.id = working
     /\ api' = "connecting"
     /\ UNCHANGED <<pendingDcs, ready, file>>
  \/ /\ ~(api = "none" /\ o.id = working)
     /\ pendingDcs' = pendingDcs - 1
     /\ IF pendingDcs' = 0
          THEN ready' = ready + 1 /\ file' = FileOf(dcs, states)
          ELSE UNCHANGED <<ready, file>>
     /\ UNCHANGED api

\* processDcReady: the working DC opens the Api, every other ready DC counts; at
\* the one that finds the counter at 0 the file is written and the provider is
\* ready.
ProcessDcReady(o, states) ==
  \/ /\ api = "none" /\ o.id = working
     /\ api' = "connecting"
     /\ UNCHANGED <<pendingDcs, ready, file>>
  \/ /\ ~(api = "none" /\ o.id = working)
     /\ pendingDcs' = pendingDcs - 1
     /\ IF pendingDcs = 0
          THEN ready' = ready + 1 /\ file' = FileOf(dcs, states)
          ELSE UNCHANGED <<ready, file>>
     /\ UNCHANGED api

\* onDcReady, called by the DCAuth of o: first its socket is closed.
OnDcReady(o, states) ==
  LET a == Object(auths, o.id) IN
  \/ /\ authLink[a] # "lost"
     /\ authLink' = [authLink EXCEPT ![a] = "closing"]
     /\ UNCHANGED <<api, pendingDcs, ready, file>>
  \/ /\ authLink[a] = "lost"
     /\ ProcessDcReady(o, states)
     /\ UNCHANGED authLink

OnDcAuthDisconnected(o) ==
  /\ authLink[o] = "closing"
  /\ authLink' = [authLink EXCEPT ![o] = "none"]
  /\ auths' = [i \in DOMAIN auths \ {o.id} |-> auths[i]]
  /\ ProcessDcReady(o, state)
  /\ UNCHANGED <<runs, lost, moves, view, working, dcs, state, talk, garbled, transferVars>>

---------------------------------------------------------------------------
(* DCAuth: the exchange of a key. *)

\* fatalError is connected to DcProvider::logOut, which removes the file.
FatalError == file' = NoFile

\* processConnected: only a DC in the state init starts an exchange.
OnAuthConnected(o) ==
  /\ authLink[o] = "connecting"
  /\ authLink' = [authLink EXCEPT ![o] = "connected"]
  /\ \/ /\ state[o] = init
        /\ state' = [state EXCEPT ![o] = reqPQSent]
        /\ talk' = [talk EXCEPT ![o] = "asked"]
        /\ UNCHANGED file
     \/ /\ state[o] \in reqPQSent..clientDHSent
        /\ FatalError
        /\ UNCHANGED <<state, talk>>
  /\ UNCHANGED <<runs, lost, moves, view, working, dcs, auths, api, garbled, pendingDcs, ready,
                 transferVars>>

\* processResPQAnswer and processDHAnswer go on to the next request; the check in
\* rpcSendPacket that the length was written fails when the socket is gone.
ProcessAnswer(o) ==
  /\ talk[o] = "answered" /\ state[o] \in {reqPQSent, reqDHSent}
  /\ state' = [state EXCEPT ![o] = @ + 1]
  /\ \/ /\ authLink[o] = "connected"
        /\ talk' = [talk EXCEPT ![o] = "asked"]
        /\ UNCHANGED file
     \/ /\ authLink[o] = "lost"
        /\ talk' = [talk EXCEPT ![o] = "quiet"]
        /\ FatalError
  /\ UNCHANGED <<runs, lost, moves, view, working, dcs, auths, authLink, api, garbled,
                 pendingDcs, ready, transferVars>>

ProcessAuthComplete(o) ==
  /\ talk[o] = "answered" /\ state[o] = clientDHSent
  /\ state' = [state EXCEPT ![o] = authKeyCreated]
  /\ talk' = [talk EXCEPT ![o] = "quiet"]
  /\ OnDcReady(o, state')
  /\ UNCHANGED <<runs, lost, moves, view, working, dcs, auths, garbled, transferVars>>

ServerAnswers(o) ==
  /\ talk[o] = "asked" /\ authLink[o] = "connected"
  /\ talk' = [talk EXCEPT ![o] = "answered"]
  /\ UNCHANGED <<file, runs, lost, moves, view, working, dcs, state, auths, authLink, api,
                 garbled, pendingDcs, ready, transferVars>>

\* Nobody is told that a DCAuth lost its connection; an answer that was read is
\* still handled.
AuthLost(o) ==
  /\ lost < MaxLost /\ authLink[o] \in {"connecting", "connected"}
  /\ lost' = lost + 1
  /\ authLink' = [authLink EXCEPT ![o] = "lost"]
  /\ talk' = [talk EXCEPT ![o] = IF @ = "asked" THEN "quiet" ELSE @]
  /\ UNCHANGED <<file, runs, moves, view, working, dcs, state, auths, api, garbled, pendingDcs,
                 ready, transferVars>>

---------------------------------------------------------------------------
(* The Api of the provider. *)

\* onApiReady asks for the configuration.
OnApiReady ==
  /\ api = "connecting"
  /\ api' = "asked"
  /\ UNCHANGED <<file, runs, lost, moves, view, working, dcs, state, authVars, garbled,
                 pendingDcs, ready, transferVars>>

Keyed(states, i) == states[Object(dcs, i)] >= authKeyCreated

\* onApiError: without a connection the stored keys have to do.
OnApiError ==
  /\ lost < MaxLost /\ api = "connecting"
  /\ lost' = lost + 1
  /\ api' = "failed"
  /\ \/ \E i \in DOMAIN dcs : ~Keyed(state, i) /\ UNCHANGED <<ready, transferred>>
     \/ /\ \A i \in DOMAIN dcs : Keyed(state, i)
        /\ ready' = ready + 1
        /\ transferred' =
             (transferred \/ \A i \in DOMAIN dcs : state[Object(dcs, i)] = userSignedIn)
  /\ UNCHANGED <<file, runs, moves, view, working, dcs, state, authVars, garbled, pendingDcs,
                 opening, transferring, step>>

ApiLost ==
  /\ lost < MaxLost /\ api \in {"asked", "configured"}
  /\ lost' = lost + 1
  /\ api' = "lost"
  /\ UNCHANGED <<file, runs, moves, view, working, dcs, state, authVars, garbled, pendingDcs,
                 ready, transferVars>>

\* The configuration the server sends at this time.
Arrangement == Arrangements[moves + 1]

ServerMoves ==
  /\ moves + 1 < Len(Arrangements)
  /\ moves' = moves + 1
  /\ UNCHANGED <<file, runs, lost, view, working, dcs, state, authVars, api, garbled,
                 pendingDcs, ready, transferVars>>

\* Mistake: every DC of the configuration is taken for a new one.
AllMoved(c) == DOMAIN c
\* DCs that are new, or whose host or port is not the one we know.
MovedDcs(c) == {i \in DOMAIN c : i \notin DOMAIN dcs \/ dcs[i] # c[i]}

\* Mistake: the working DC is waited for as well.
AwaitedAll(c) == Cardinality(DOMAIN c)
\* "all the received options but the default one, yet used"
Awaited(c) == Cardinality(DOMAIN c) - 1

\* onConfigReceived.  A DC that is new or has moved gets a new object; one without
\* a key a DCAuth; every other one but the working DC counts at once.
OnConfigReceived(c) ==
  LET moved == MovedDcs(c)
      unkeyed == {i \in DOMAIN c : i \in moved \/ ~Keyed(state, i)}
      counted == DOMAIN c \ (unkeyed \cup {working})
      created == {i \in DOMAIN c \ unkeyed : state[Object(c, i)] = authKeyCreated}
  IN
  /\ api = "asked" /\ ~garbled /\ working \in DOMAIN c
  /\ api' = "configured"
  /\ dcs' = [i \in DOMAIN dcs \cup DOMAIN c |-> IF i \in DOMAIN c THEN c[i] ELSE dcs[i]]
  /\ state' = [o \in Objects |->
                 IF o.id \in moved /\ o.addr = c[o.id] THEN init ELSE state[o]]
  /\ auths' = [i \in DOMAIN auths \cup unkeyed |-> IF i \in unkeyed THEN c[i] ELSE auths[i]]
  /\ authLink' = [o \in Objects |->
                    IF o.id \in unkeyed /\ o.addr = c[o.id] THEN "connecting" ELSE authLink[o]]
  /\ pendingDcs' = Awaited(c) - Cardinality(counted)
  /\ ready' = IF Cardinality(created) = AllDcs THEN ready + 1 ELSE ready
  /\ UNCHANGED <<file, runs, lost, moves, view, working, talk, garbled, transferVars>>

---------------------------------------------------------------------------
(* The transfer of the log-in to the other DCs. *)

\* transferAuth, called when the main view opens.
Transfers(table, states, w) ==
  {o \in Objects : /\ o.id \in DOMAIN table \ {w} /\ o.addr = table[o.id]
                   /\ states[o] = authKeyCreated}

\* Mistake: the list is looked at before the session is taken out.
ReadySessionCounted(o) ==
  /\ o \in opening
  /\ opening' = opening \ {o}
  /\ transferring' = Append(transferring, o)
  /\ IF opening = {}
       THEN step' = "export" /\ garbled' = (garbled \/ api = "connecting")
       ELSE UNCHANGED <<step, garbled>>
  /\ UNCHANGED <<file, runs, lost, moves, view, working, dcs, state, authVars, api,
                 pendingDcs, ready, transferred>>

\* onTransferSessionReady: the last session to be ready starts the first export,
\* on the main session, whether or not that is connected yet.
OnTransferSessionReady(o) ==
  /\ o \in opening
  /\ opening' = opening \ {o}
  /\ transferring' = Append(transferring, o)
  /\ IF opening' = {}
       THEN step' = "export" /\ garbled' = (garbled \/ api = "connecting")
       ELSE UNCHANGED <<step, garbled>>
  /\ UNCHANGED <<file, runs, lost, moves, view, working, dcs, state, authVars, api, pendingDcs,
                 ready, transferred>>

OnAuthExportedAuthorization ==
  /\ step = "export" /\ api \in {"asked", "configured"} /\ ~garbled
  /\ step' = "import"
  /\ UNCHANGED <<file, runs, lost, moves, view, working, dcs, state, authVars, api, garbled,
                 pendingDcs, ready, opening, transferring, transferred>>

\* Mistake: the transfer is taken for completed after one import.
ImportedOnce ==
  /\ step = "import"
  /\ state' = [state EXCEPT ![Head(transferring)] = userSignedIn]
  /\ transferring' = Tail(transferring)
  /\ step' = "none" /\ transferred' = TRUE /\ file' = FileOf(dcs, state')
  /\ UNCHANGED <<runs, lost, moves, view, working, dcs, authVars, api, garbled, pendingDcs,
                 ready, opening>>

OnAuthImportedAuthorization ==
  /\ step = "import"
  /\ state' = [state EXCEPT ![Head(transferring)] = userSignedIn]
  /\ transferring' = Tail(transferring)
  /\ IF transferring' = <<>>
       THEN step' = "none" /\ transferred' = TRUE /\ file' = FileOf(dcs, state')
       ELSE step' = "export" /\ UNCHANGED <<transferred, file>>
  /\ UNCHANGED <<runs, lost, moves, view, working, dcs, authVars, api, garbled, pendingDcs,
                 ready, opening>>

---------------------------------------------------------------------------
(* The application. *)

\* ApplicationUI::init: loadSettings, DcProvider::initialize, then the view.
Start ==
  LET table == IF file = NoFile THEN Put(Empty, 1, Boot)
               ELSE [i \in DOMAIN file.dcs |-> file.dcs[i].addr]
      w == IF file = NoFile THEN 1 ELSE file.working
      main == Object(table, w)
      shown == Object(table, NthDc(table, w))
  IN
  /\ ~Up /\ runs < MaxRuns
  /\ runs' = runs + 1
  /\ working' = w /\ dcs' = table
  /\ state' = [o \in Objects |->
                 IF file # NoFile /\ o.id \in DOMAIN table /\ o.addr = table[o.id]
                   THEN file.dcs[o.id].state ELSE init]
  /\ IF state'[main] < authKeyCreated
       THEN /\ auths' = Put(auths, w, main.addr)
            /\ authLink' = [authLink EXCEPT ![main] = "connecting"]
            /\ UNCHANGED api
       ELSE api' = "connecting" /\ UNCHANGED <<auths, authLink>>
  /\ IF state'[shown] = userSignedIn
       THEN /\ view' = "main"
            /\ opening' = Transfers(table, state', w)
            /\ transferred' = (opening' = {})
       ELSE view' = "welcome" /\ UNCHANGED <<opening, transferred>>
  /\ UNCHANGED <<file, lost, moves, talk, garbled, pendingDcs, ready, transferring, step>>

\* onUserAuthorized, after a log-in through the session changeServer made.
OnUserAuthorized ==
  /\ view = "welcome" /\ ready > 0
  /\ Keyed(state, NthDc(dcs, working))
  /\ view' = "restart"
  /\ state' = [state EXCEPT ![Object(dcs, working)] = userSignedIn]
  /\ file' = FileOf(dcs, state')
  /\ UNCHANGED <<runs, lost, moves, working, dcs, authVars, api, garbled, pendingDcs, ready,
                 transferVars>>

\* Mistake: the number is turned into an index, as changeServer wants it.
DcChangeToIndex(newDc) ==
  /\ view = "welcome" /\ ready > 0 /\ newDc \in DOMAIN dcs \ {working}
  /\ working' = newDc - 1
  /\ UNCHANGED <<file, runs, lost, moves, view, dcs, state, authVars, api, garbled, pendingDcs,
                 ready, transferVars>>

\* dcchange, after the error 303: the user belongs to another DC.
DcChange(newDc) ==
  /\ view = "welcome" /\ ready > 0 /\ newDc \in DOMAIN dcs \ {working}
  /\ working' = newDc
  /\ UNCHANGED <<file, runs, lost, moves, view, dcs, state, authVars, api, garbled, pendingDcs,
                 ready, transferVars>>

\* onAuthLogOutAnswer.
LogOut ==
  /\ view = "main" /\ transferred
  /\ view' = "restart"
  /\ file' = NoFile
  /\ UNCHANGED <<runs, lost, moves, working, dcs, state, authVars, api, garbled, pendingDcs,
                 ready, transferVars>>

\* The user closes the program, the system kills it, or it crashes.
Exit ==
  /\ Up
  /\ view' = "none" /\ working' = 1 /\ dcs' = Empty
  /\ state' = [o \in Objects |-> init]
  /\ auths' = Empty
  /\ authLink' = [o \in Objects |-> "none"]
  /\ talk' = [o \in Objects |-> "quiet"]
  /\ api' = "none" /\ garbled' = FALSE /\ pendingDcs' = 0 /\ ready' = 0
  /\ opening' = {} /\ transferring' = <<>> /\ step' = "none" /\ transferred' = FALSE
  /\ UNCHANGED <<file, runs, lost, moves>>

Init ==
  /\ file = NoFile /\ runs = 0 /\ lost = 0 /\ moves = 0
  /\ view = "none" /\ working = 1 /\ dcs = Empty
  /\ state = [o \in Objects |-> init]
  /\ auths = Empty
  /\ authLink = [o \in Objects |-> "none"]
  /\ talk = [o \in Objects |-> "quiet"]
  /\ api = "none" /\ garbled = FALSE /\ pendingDcs = 0 /\ ready = 0
  /\ opening = {} /\ transferring = <<>> /\ step = "none" /\ transferred = FALSE

Next ==
  \/ Start \/ Exit \/ OnUserAuthorized \/ LogOut
  \/ \E i \in Ids : DcChange(i)
  \/ \E o \in Objects :
       \/ OnAuthConnected(o) \/ ServerAnswers(o) \/ ProcessAnswer(o)
       \/ ProcessAuthComplete(o) \/ AuthLost(o) \/ OnDcAuthDisconnected(o)
       \/ OnTransferSessionReady(o)
  \/ OnApiReady \/ OnApiError \/ ApiLost
  \/ ServerMoves \/ OnConfigReceived(Arrangement)
  \/ OnAuthExportedAuthorization \/ OnAuthImportedAuthorization

Spec == Init /\ [][Next]_vars

\* The event loop, the network and the server go on; the user need not do anything.
Fairness ==
  /\ \A o \in Objects :
       /\ WF_vars(OnAuthConnected(o)) /\ WF_vars(ServerAnswers(o))
       /\ WF_vars(ProcessAnswer(o)) /\ WF_vars(ProcessAuthComplete(o))
       /\ WF_vars(OnDcAuthDisconnected(o)) /\ WF_vars(OnTransferSessionReady(o))
  /\ WF_vars(OnApiReady) /\ WF_vars(OnConfigReceived(Arrangement))
  /\ WF_vars(OnAuthExportedAuthorization) /\ WF_vars(OnAuthImportedAuthorization)

FairSpec == Spec /\ Fairness

---------------------------------------------------------------------------
Files == UNION {[working : I, dcs : [I -> [addr : Addresses, state : DcStates]]] :
                I \in SUBSET Ids}
\* That there is no file is told from every file.
ASSUME NoFileAssumption == NoFile \notin Files
IsDcTable(table) == DOMAIN table \subseteq Ids /\ table \in [DOMAIN table -> Addresses]

TypeOK ==
  /\ file = NoFile \/ file \in Files
  /\ runs \in Nat /\ lost \in Nat /\ moves \in 0..Len(Arrangements) - 1
  /\ view \in {"none", "welcome", "main", "restart"}
  /\ working \in Ids /\ (Up => working \in DOMAIN dcs)
  /\ IsDcTable(dcs) /\ IsDcTable(auths)
  /\ state \in [Objects -> DcStates]
  /\ authLink \in [Objects -> {"none", "connecting", "connected", "closing", "lost"}]
  /\ talk \in [Objects -> {"quiet", "asked", "answered"}]
  /\ api \in {"none", "connecting", "asked", "configured", "failed", "lost"}
  /\ garbled \in BOOLEAN /\ transferred \in BOOLEAN
  /\ pendingDcs \in Int /\ ready \in Nat
  /\ opening \subseteq Objects /\ transferring \in Seq(Objects)
  /\ step \in {"none", "export", "import"}

\* dcProviderReady is emitted when there is a shared key for every DC
\* (dcprovider.h), whichever of the three places emits it.
ReadyMeansKeys == ready > 0 => \A i \in DOMAIN dcs : Keyed(state, i)

\* The file is saved "after all dcs are ready" (processDcReady), so no DC is saved in
\* the middle of an exchange, which processConnected could only answer with
\* fatalError at the next start.  The one writer that may is the end of a transfer
\* that the move of a DC has overtaken.
MidExchange(f) ==
  f # NoFile /\ \E i \in DOMAIN f.dcs : f.dcs[i].state \in reqPQSent..clientDHSent
HandshakeSavedByTransferOnly ==
  [][MidExchange(file') /\ file' # file => step = "import"]_vars

\* Nothing has been lost or moved yet.  A loss may end in fatalError, and a DC that
\* moves is a new object that nobody has signed in to.
Undisturbed == lost = 0 /\ moves = 0

\* authTransferCompleted is emitted when the log-in has been transferred to every
\* DC (dcprovider.h), as long as nothing was lost or moved.
TransferReachesAll ==
  Undisturbed /\ transferred => \A i \in DOMAIN dcs : state[Object(dcs, i)] = userSignedIn

\* Once the user has signed in, only the user's own log-out ends that: while nothing
\* is lost or moved no later start, exchange or transfer removes it from the file.
SignedIn(f) == f # NoFile /\ f.dcs[f.working].state = userSignedIn
LoginSurvives ==
  [][Undisturbed /\ SignedIn(file) =>
       SignedIn(file') \/ (view = "main" /\ view' = "restart")]_vars

\* The very first start ends with dcProviderReady, which enables the log-in
\* button, unless the program is closed or something is lost or moved.
FirstStartReady ==
  view = "welcome" /\ file = NoFile /\ Undisturbed ~> ready > 0 \/ ~Up \/ ~Undisturbed

\* The transfer that starts with the main view ends (authTransferCompleted lets the
\* user in), unless its first export left in front of the marker of the stream, the
\* program is closed, or something is lost or moved.
TransferEnds ==
  view = "main" /\ Undisturbed ~> transferred \/ garbled \/ ~Up \/ ~Undisturbed

\* Once the configuration is known and every DC has its key, dcProviderReady is
\* emitted (the comment on mPendingDcs).
Announced ==
  api = "configured" /\ (\A i \in DOMAIN dcs : Keyed(state, i)) ~> ready > 0 \/ ~Up
=============================================================================
