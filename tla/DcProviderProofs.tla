-------------------------- MODULE DcProviderProofs --------------------------
(***************************************************************************)
(* Proofs about DcProvider for any data centres, arrangements and bounds.  *)
(* IInv is inductive.  The second part is about the log-in: how it reaches *)
(* every DC and outlives the runs of the program.                          *)
(***************************************************************************)
EXTENDS DcProvider, FiniteSetTheorems, SequenceTheorems, TLAPS

\* The exchange of o is over, given up or not begun.
Quiet(o) == authLink[o] \in {"none", "lost"} /\ talk[o] = "quiet"
AllQuiet == \A o \in Objects : Quiet(o)

\* Between two runs there is only the file.
Down ==
  ~Up => /\ DOMAIN dcs = {} /\ DOMAIN auths = {} /\ api = "none" /\ pendingDcs = 0
         /\ ready = 0 /\ opening = {} /\ transferring = <<>> /\ step = "none" /\ AllQuiet

\* No DC is known that the server has forgotten.
KnownDcs ==
  /\ DOMAIN dcs \subseteq DOMAIN Arrangement
  /\ file # NoFile => DOMAIN file.dcs \subseteq DOMAIN Arrangement

\* Keys are exchanged with the DCs of mDcs, through the DCAuth of mDcAuths.
Exchanges ==
  \A o \in Objects :
    /\ ~Quiet(o) => /\ o.id \in DOMAIN auths /\ auths[o.id] = o.addr
                    /\ o.id \in DOMAIN dcs /\ dcs[o.id] = o.addr
    /\ authLink[o] \in {"connecting", "connected"} => state[o] < authKeyCreated
    /\ authLink[o] = "closing" => state[o] >= authKeyCreated /\ talk[o] = "quiet"

\* Before there is an Api a key is exchanged only with the working DC, and none while
\* the configuration is not known.
WorkingFirst == api = "none" => \A o \in Objects : ~Quiet(o) => o.id = working
ConfigLater == api \in {"connecting", "asked", "failed"} => AllQuiet
ReadyLater == api \in {"none", "connecting", "asked"} => ready = 0

\* pendingDcs counts the DCs that are not ready, but perhaps one.
Outstanding ==
  {i \in DOMAIN dcs : ~Keyed(state, i) \/ authLink[Object(dcs, i)] = "closing"}
Counting ==
  api \in {"configured", "lost"} => AllQuiet \/ Cardinality(Outstanding) <= pendingDcs + 1

\* The log-in is transferred to DCs with a key.
InTransfer(o) == o \in opening \/ \E i \in DOMAIN transferring : transferring[i] = o
TransfersKeyed ==
  \A o \in Objects : InTransfer(o) =>
    /\ state[o] >= authKeyCreated
    /\ api \in {"none", "connecting", "asked"} => o.id \in DOMAIN dcs /\ dcs[o.id] = o.addr

\* An export or import under way is for a session in the list.
Listed == step # "none" => transferring # <<>>

StartInv == Down /\ KnownDcs
ExchangeInv == Exchanges /\ WorkingFirst /\ ConfigLater
ReadyInv == ReadyLater /\ Counting /\ TransfersKeyed /\ ReadyMeansKeys
IInv == TypeOK /\ StartInv /\ ExchangeInv /\ ReadyInv

---------------------------------------------------------------------------
(* Tables, objects and the file. *)

LEMMA ObjectType ==
  ASSUME NEW table, IsDcTable(table), NEW i \in DOMAIN table
  PROVE  Object(table, i) \in Objects /\ Object(table, i).id = i /\ Object(table, i).addr = table[i]
  BY DEF IsDcTable, Object, Objects

LEMMA ObjectIs ==
  ASSUME NEW table, NEW o \in Objects, o.addr = table[o.id]
  PROVE  o = Object(table, o.id)
  BY DEF Object, Objects

\* What TypeOK says of each variable.
LEMMA Types ==
  ASSUME TypeOK
  PROVE  /\ file = NoFile \/ file \in Files
         /\ runs \in Nat /\ lost \in Nat /\ moves \in 0..Len(Arrangements) - 1
         /\ view \in {"none", "welcome", "main", "restart"}
         /\ working \in Ids /\ (Up => working \in DOMAIN dcs)
         /\ IsDcTable(dcs) /\ IsDcTable(auths)
         /\ state \in [Objects -> DcStates]
         /\ authLink \in [Objects -> {"none", "connecting", "connected", "closing", "lost"}]
         /\ talk \in [Objects -> {"quiet", "asked", "answered"}]
         /\ api \in {"none", "connecting", "asked", "configured", "failed", "lost"}
         /\ garbled \in BOOLEAN /\ transferred \in BOOLEAN
         /\ pendingDcs \in Int /\ ready \in Nat
         /\ opening \subseteq Objects /\ transferring \in Seq(Objects)
         /\ step \in {"none", "export", "import"}
  BY DEF TypeOK

\* The arrangement in force is a table of DCs.
LEMMA ArrangementType ==
  ASSUME TypeOK
  PROVE  /\ moves + 1 \in DOMAIN Arrangements /\ IsDcTable(Arrangement)
         /\ 1 \in DOMAIN Arrangement /\ Cardinality(DOMAIN Arrangement) <= AllDcs
         /\ IsFiniteSet(DOMAIN Arrangement)
<1> DEFINE Configs == UNION {[I -> Addresses] : I \in SUBSET Ids}
<1>1. Arrangements \in Seq(Configs) /\ moves \in 0..Len(Arrangements) - 1
  BY ArrangementsAssumption, Types
<1> HIDE DEF Configs
<1>2. moves + 1 \in 1..Len(Arrangements) /\ DOMAIN Arrangements = 1..Len(Arrangements)
  BY <1>1
<1>3. Arrangement \in Configs
  BY <1>1, <1>2 DEF Arrangement
<1>4. IsDcTable(Arrangement)
  BY <1>3 DEF Configs, IsDcTable
<1>5. 1 \in DOMAIN Arrangement /\ Cardinality(DOMAIN Arrangement) <= AllDcs
  BY <1>2, DcsStay DEF Arrangement
<1>6. IsFiniteSet(DOMAIN Arrangement)
  BY <1>4, IdsAssumption, FS_Subset DEF IsDcTable
<1> QED
  BY <1>2, <1>4, <1>5, <1>6

\* writeAuthFile writes what TypeOK allows, with the states of the DCs of mDcs.
LEMMA FileOfType ==
  ASSUME TypeOK, Up, NEW states \in [Objects -> DcStates]
  PROVE  /\ FileOf(dcs, states) \in Files
         /\ DOMAIN FileOf(dcs, states).dcs = DOMAIN dcs
         /\ \A i \in DOMAIN dcs :
              FileOf(dcs, states).dcs[i].state = states[Object(dcs, i)]
<1>1. IsDcTable(dcs) /\ working \in DOMAIN dcs
  BY Types
<1> DEFINE entries == [i \in DOMAIN dcs |-> [addr |-> dcs[i], state |-> states[Object(dcs, i)]]]
<1>2. \A i \in DOMAIN dcs : dcs[i] \in Addresses /\ states[Object(dcs, i)] \in DcStates
  BY <1>1, ObjectType DEF IsDcTable
<1>3. entries \in [DOMAIN dcs -> [addr : Addresses, state : DcStates]] /\ DOMAIN dcs \in SUBSET Ids
  BY <1>1, <1>2 DEF IsDcTable
<1>4. FileOf(dcs, states) = [working |-> working, dcs |-> entries]
  BY DEF FileOf
<1> HIDE DEF entries
<1>5. FileOf(dcs, states)
        \in [working : DOMAIN dcs, dcs : [DOMAIN dcs -> [addr : Addresses, state : DcStates]]]
  BY <1>1, <1>3, <1>4
<1>6. FileOf(dcs, states) \in Files
  BY <1>3, <1>5 DEF Files
<1> QED
  BY <1>4, <1>6 DEF entries

\* A file that was read names its working DC.
LEMMA FileParts ==
  ASSUME TypeOK, file # NoFile
  PROVE  /\ file.working \in DOMAIN file.dcs /\ DOMAIN file.dcs \subseteq Ids
         /\ \A i \in DOMAIN file.dcs :
              file.dcs[i].addr \in Addresses /\ file.dcs[i].state \in DcStates
<1>1. file \in Files
  BY Types
<1>2. PICK I \in SUBSET Ids :
        file \in [working : I, dcs : [I -> [addr : Addresses, state : DcStates]]]
  BY <1>1 DEF Files
<1> QED
  BY <1>2

\* The number of DCs that are outstanding is finite.
LEMMA OutstandingFinite ==
  ASSUME TypeOK
  PROVE  IsFiniteSet(Outstanding) /\ Outstanding \subseteq DOMAIN dcs
<1>1. IsDcTable(dcs)
  BY Types
<1>2. Outstanding \in SUBSET Ids
  BY <1>1 DEF IsDcTable, Outstanding
<1> QED
  BY <1>2, IdsAssumption, FS_Subset DEF Outstanding

---------------------------------------------------------------------------
(* The exchange of a key. *)

Links == {"none", "connecting", "connected", "closing", "lost"}
Talks == {"quiet", "asked", "answered"}

\* No state of the object o is lost, and o is not Outstanding anew.
LEMMA ExchangeStep ==
  ASSUME IInv, NEW o \in Objects, ~Quiet(o),
         UNCHANGED <<runs, moves, view, working, dcs, auths, api, garbled, pendingDcs, ready,
                     opening, transferring, step, transferred>>,
         lost' \in Nat, file' = file \/ file' = NoFile,
         NEW st \in DcStates, NEW li \in Links, NEW ta \in Talks,
         state' = [state EXCEPT ![o] = st], authLink' = [authLink EXCEPT ![o] = li],
         talk' = [talk EXCEPT ![o] = ta],
         st >= state[o], li \in {"connecting", "connected"} => st < authKeyCreated,
         li = "closing" => /\ st >= authKeyCreated /\ ta = "quiet"
                           /\ state[o] < authKeyCreated \/ authLink[o] = "closing"
  PROVE  IInv'
<1>1. TypeOK /\ StartInv /\ ExchangeInv /\ ReadyInv
  BY DEF IInv
<1>2. /\ state \in [Objects -> DcStates] /\ authLink \in [Objects -> Links]
      /\ talk \in [Objects -> Talks] /\ IsDcTable(dcs)
  BY <1>1, Types DEF Links, Talks
<1>3. /\ state'[o] = st /\ authLink'[o] = li /\ talk'[o] = ta
      /\ \A p \in Objects \ {o} :
           state'[p] = state[p] /\ authLink'[p] = authLink[p] /\ talk'[p] = talk[p]
  BY <1>2
<1>4. /\ state' \in [Objects -> DcStates] /\ authLink' \in [Objects -> Links]
      /\ talk' \in [Objects -> Talks]
  BY <1>2
<1>5. \A p \in Objects : state[p] \in 0..5 /\ state'[p] \in 0..5 /\ state'[p] >= state[p]
  BY <1>2, <1>3, <1>4 DEF DcStates, init, userSignedIn
<1>6. TypeOK'
  BY <1>1, <1>4, Types DEF TypeOK, Up, Links, Talks
<1>7. StartInv'
  BY <1>1 DEF StartInv, Down, KnownDcs, AllQuiet, Up, Arrangement
<1>8. /\ o.id \in DOMAIN auths /\ auths[o.id] = o.addr
      /\ o.id \in DOMAIN dcs /\ dcs[o.id] = o.addr
  BY <1>1 DEF ExchangeInv, Exchanges
<1>9. \A p \in Objects \ {o} : Quiet(p)' <=> Quiet(p)
  BY <1>3 DEF Quiet
<1>10. Exchanges'
  <2> SUFFICES ASSUME NEW p \in Objects
               PROVE  /\ ~Quiet(p)' => /\ p.id \in DOMAIN auths /\ auths[p.id] = p.addr
                                       /\ p.id \in DOMAIN dcs /\ dcs[p.id] = p.addr
                      /\ authLink'[p] \in {"connecting", "connected"} => state'[p] < authKeyCreated
                      /\ authLink'[p] = "closing" => state'[p] >= authKeyCreated /\ talk'[p] = "quiet"
    BY DEF Exchanges
  <2>1. CASE p = o
    BY <1>3, <1>8, <2>1
  <2>2. CASE p # o
    BY <1>1, <1>3, <1>9, <2>2 DEF ExchangeInv, Exchanges
  <2> QED
    BY <2>1, <2>2
<1>11. WorkingFirst' /\ ConfigLater'
  BY <1>1, <1>9 DEF ExchangeInv, WorkingFirst, ConfigLater, AllQuiet
<1>12. \A i \in DOMAIN dcs : Keyed(state, i) => Keyed(state, i)'
  BY <1>2, <1>5, ObjectType DEF Keyed, authKeyCreated
<1>13. Outstanding' \subseteq Outstanding
  <2> SUFFICES ASSUME NEW i \in DOMAIN dcs, ~Keyed(state, i)' \/ authLink'[Object(dcs, i)] = "closing"
               PROVE  ~Keyed(state, i) \/ authLink[Object(dcs, i)] = "closing"
    BY DEF Outstanding
  <2>1. Object(dcs, i) \in Objects
    BY <1>2, ObjectType
  <2> QED
    BY <1>2, <1>3, <1>5, <1>12, <2>1 DEF Keyed, authKeyCreated
<1>14. Counting'
  <2>1. api \in {"configured", "lost"} => Cardinality(Outstanding) <= pendingDcs + 1
    BY <1>1 DEF ReadyInv, Counting, AllQuiet
  <2>2. Cardinality(Outstanding') <= Cardinality(Outstanding)
        /\ Cardinality(Outstanding') \in Int /\ Cardinality(Outstanding) \in Int
    BY <1>1, <1>13, OutstandingFinite, FS_Subset, FS_CardinalityType
  <2>3. pendingDcs \in Int
    BY <1>1, Types
  <2> QED
    BY <2>1, <2>2, <2>3 DEF Counting
<1>15. TransfersKeyed'
  BY <1>1, <1>5 DEF ReadyInv, TransfersKeyed, InTransfer, authKeyCreated
<1>16. ReadyLater' /\ ReadyMeansKeys'
  BY <1>1, <1>12 DEF ReadyInv, ReadyLater, ReadyMeansKeys
<1> QED
  BY <1>6, <1>7, <1>10, <1>11, <1>14, <1>15, <1>16 DEF IInv, ExchangeInv, ReadyInv

\* What one object's state, socket and exchange are.
LEMMA ObjectState ==
  ASSUME IInv, NEW o \in Objects
  PROVE  /\ state[o] \in DcStates /\ state[o] \in 0..5
         /\ authLink[o] \in Links /\ talk[o] \in Talks
         /\ state = [state EXCEPT ![o] = state[o]]
         /\ authLink = [authLink EXCEPT ![o] = authLink[o]]
         /\ talk = [talk EXCEPT ![o] = talk[o]]
         /\ authLink[o] \in {"connecting", "connected"} => state[o] < authKeyCreated
         /\ authLink[o] = "closing" => state[o] >= authKeyCreated /\ talk[o] = "quiet"
<1>1. /\ state \in [Objects -> DcStates] /\ authLink \in [Objects -> Links]
      /\ talk \in [Objects -> Talks]
  BY Types DEF IInv, Links, Talks
<1>2. /\ authLink[o] \in {"connecting", "connected"} => state[o] < authKeyCreated
      /\ authLink[o] = "closing" => state[o] >= authKeyCreated /\ talk[o] = "quiet"
  BY DEF IInv, ExchangeInv, Exchanges
<1> QED
  BY <1>1, <1>2 DEF DcStates, init, userSignedIn

LEMMA OnAuthConnectedKeeps ==
  ASSUME IInv, NEW o \in Objects, OnAuthConnected(o)
  PROVE  IInv'
<1>1. /\ authLink[o] = "connecting" /\ authLink' = [authLink EXCEPT ![o] = "connected"]
      /\ \/ state[o] = init /\ state' = [state EXCEPT ![o] = reqPQSent]
            /\ talk' = [talk EXCEPT ![o] = "asked"] /\ file' = file
         \/ file' = NoFile /\ state' = state /\ talk' = talk
      /\ UNCHANGED <<runs, lost, moves, view, working, dcs, auths, api, garbled, pendingDcs, ready,
                     opening, transferring, step, transferred>>
  BY DEF OnAuthConnected, FatalError, transferVars
<1>2. ~Quiet(o) /\ lost' \in Nat /\ state[o] < authKeyCreated
  BY <1>1, ObjectState, Types DEF IInv, Quiet
<1>3. CASE state[o] = init /\ state' = [state EXCEPT ![o] = reqPQSent]
           /\ talk' = [talk EXCEPT ![o] = "asked"] /\ file' = file
  <2>1. /\ reqPQSent \in DcStates /\ reqPQSent < authKeyCreated /\ reqPQSent >= state[o]
        /\ "connected" \in Links /\ "asked" \in Talks
    BY <1>3 DEF reqPQSent, DcStates, init, userSignedIn, authKeyCreated, Links, Talks
  <2> QED
    BY <1>1, <1>2, <1>3, <2>1, ExchangeStep
<1>4. CASE file' = NoFile /\ state' = state /\ talk' = talk
  <2>1. "connected" \in Links /\ state[o] >= state[o]
    BY ObjectState DEF Links
  <2> QED
    BY <1>1, <1>2, <1>4, <2>1, ObjectState, ExchangeStep
<1> QED
  BY <1>1, <1>3, <1>4

LEMMA ServerAnswersKeeps ==
  ASSUME IInv, NEW o \in Objects, ServerAnswers(o)
  PROVE  IInv'
<1>1. /\ talk[o] = "asked" /\ talk' = [talk EXCEPT ![o] = "answered"]
      /\ authLink[o] = "connected" /\ authLink' = authLink /\ state' = state
      /\ UNCHANGED <<file, runs, lost, moves, view, working, dcs, auths, api, garbled, pendingDcs,
                     ready, opening, transferring, step, transferred>>
  BY DEF ServerAnswers, transferVars
<1>2. ~Quiet(o) /\ lost' \in Nat /\ state[o] < authKeyCreated /\ state[o] >= state[o]
  BY <1>1, ObjectState, Types DEF IInv, Quiet
<1>3. "answered" \in Talks
  BY DEF Talks
<1> QED
  BY <1>1, <1>2, <1>3, ObjectState, ExchangeStep

LEMMA ProcessAnswerKeeps ==
  ASSUME IInv, NEW o \in Objects, ProcessAnswer(o)
  PROVE  IInv'
<1> DEFINE st == state[o] + 1
<1>1. /\ talk[o] = "answered" /\ state[o] \in {reqPQSent, reqDHSent}
      /\ state' = [state EXCEPT ![o] = st]
      /\ \/ authLink[o] = "connected" /\ talk' = [talk EXCEPT ![o] = "asked"] /\ file' = file
         \/ authLink[o] = "lost" /\ talk' = [talk EXCEPT ![o] = "quiet"] /\ file' = NoFile
      /\ UNCHANGED <<runs, lost, moves, view, working, dcs, auths, authLink, api, garbled,
                     pendingDcs, ready, opening, transferring, step, transferred>>
  BY DEF ProcessAnswer, FatalError, transferVars
<1>2. /\ st \in DcStates /\ st >= state[o] /\ st < authKeyCreated
  BY <1>1 DEF reqPQSent, reqDHSent, DcStates, init, userSignedIn, authKeyCreated
<1>3. ~Quiet(o) /\ lost' \in Nat /\ "asked" \in Talks /\ "quiet" \in Talks
  BY <1>1, Types DEF IInv, Quiet, Talks
<1> HIDE DEF st
<1> QED
  BY <1>1, <1>2, <1>3, ObjectState, ExchangeStep

LEMMA AuthLostKeeps ==
  ASSUME IInv, NEW o \in Objects, AuthLost(o)
  PROVE  IInv'
<1> DEFINE ta == IF talk[o] = "asked" THEN "quiet" ELSE talk[o]
<1>1. /\ authLink[o] \in {"connecting", "connected"} /\ lost' = lost + 1
      /\ authLink' = [authLink EXCEPT ![o] = "lost"] /\ talk' = [talk EXCEPT ![o] = ta]
      /\ UNCHANGED <<file, runs, moves, view, working, dcs, state, auths, api, garbled,
                     pendingDcs, ready, opening, transferring, step, transferred>>
  BY DEF AuthLost, transferVars
<1>2. ta \in Talks /\ "lost" \in Links
  BY ObjectState DEF Talks, Links
<1>3. ~Quiet(o) /\ lost' \in Nat /\ state[o] >= state[o]
  BY <1>1, ObjectState, Types DEF IInv, Quiet
<1> HIDE DEF ta
<1> QED
  BY <1>1, <1>2, <1>3, ObjectState, ExchangeStep

---------------------------------------------------------------------------
(* A DC is ready. *)

\* A file that is written when all keys are there holds no exchange under way.
LEMMA KeyedFile ==
  ASSUME TypeOK, Up, NEW states \in [Objects -> DcStates],
         \A i \in DOMAIN dcs : states[Object(dcs, i)] >= authKeyCreated
  PROVE  ~MidExchange(FileOf(dcs, states))
<1>1. \A i \in DOMAIN dcs : states[Object(dcs, i)] \in 0..5
  BY Types, ObjectType DEF DcStates, init, userSignedIn
<1> QED
  BY <1>1, FileOfType DEF MidExchange, authKeyCreated, reqPQSent, clientDHSent

\* The DC o is outstanding no longer; the one that finds the counter at 0 is the last.
LEMMA ReadyCounts ==
  ASSUME IInv, NEW o \in Objects, ~Quiet(o),
         state[o] < authKeyCreated \/ authLink[o] = "closing",
         NEW st \in DcStates, st >= authKeyCreated, NEW li \in {"none", "lost"},
         state' = [state EXCEPT ![o] = st], authLink' = [authLink EXCEPT ![o] = li],
         talk' = [talk EXCEPT ![o] = "quiet"],
         auths' = auths \/ auths' = [i \in DOMAIN auths \ {o.id} |-> auths[i]],
         NEW states, states = state', ProcessDcReady(o, states),
         UNCHANGED <<runs, lost, moves, view, working, dcs, garbled, opening, transferring, step,
                     transferred>>
  PROVE  IInv' /\ (file' = file \/ ~MidExchange(file'))
<1>1. TypeOK /\ StartInv /\ ExchangeInv /\ ReadyInv
  BY DEF IInv
<1>2. /\ state \in [Objects -> DcStates] /\ authLink \in [Objects -> Links]
      /\ talk \in [Objects -> Talks] /\ IsDcTable(dcs) /\ IsDcTable(auths)
      /\ pendingDcs \in Int /\ ready \in Nat
  BY <1>1, Types DEF Links, Talks
<1>3. /\ state'[o] = st /\ authLink'[o] = li /\ talk'[o] = "quiet"
      /\ \A p \in Objects \ {o} :
           state'[p] = state[p] /\ authLink'[p] = authLink[p] /\ talk'[p] = talk[p]
  BY <1>2
<1>4. /\ state' \in [Objects -> DcStates] /\ authLink' \in [Objects -> Links]
      /\ talk' \in [Objects -> Talks]
  BY <1>2 DEF Links, Talks
<1>5. \A p \in Objects : state[p] \in 0..5 /\ state'[p] \in 0..5
  BY <1>2, <1>4 DEF DcStates, init, userSignedIn
<1>6. Up
  BY <1>1 DEF StartInv, Down, AllQuiet
<1>7. /\ o.id \in DOMAIN dcs /\ dcs[o.id] = o.addr /\ o = Object(dcs, o.id)
  BY <1>1, ObjectIs DEF ExchangeInv, Exchanges
<1>8. Quiet(o)' /\ \A p \in Objects \ {o} : Quiet(p)' <=> Quiet(p)
  BY <1>3 DEF Quiet
<1>9. \A p \in Objects \ {o} : ~Quiet(p) =>
        p.id # o.id /\ p.id \in DOMAIN auths' /\ auths'[p.id] = auths[p.id]
  <2> SUFFICES ASSUME NEW p \in Objects, p # o, ~Quiet(p)
               PROVE  p.id # o.id /\ p.id \in DOMAIN auths' /\ auths'[p.id] = auths[p.id]
    OBVIOUS
  <2>1. p.id \in DOMAIN auths /\ p.id \in DOMAIN dcs /\ dcs[p.id] = p.addr
    BY <1>1 DEF ExchangeInv, Exchanges
  <2>2. p = Object(dcs, p.id)
    BY <2>1, ObjectIs
  <2> QED
    BY <1>7, <2>1, <2>2
<1>10. Exchanges'
  <2> SUFFICES ASSUME NEW p \in Objects
               PROVE  /\ ~Quiet(p)' => /\ p.id \in DOMAIN auths' /\ auths'[p.id] = p.addr
                                       /\ p.id \in DOMAIN dcs /\ dcs[p.id] = p.addr
                      /\ authLink'[p] \in {"connecting", "connected"} => state'[p] < authKeyCreated
                      /\ authLink'[p] = "closing" => state'[p] >= authKeyCreated /\ talk'[p] = "quiet"
    BY DEF Exchanges
  <2>1. CASE p = o
    BY <1>3, <1>8, <2>1
  <2>2. CASE p # o
    BY <1>1, <1>3, <1>8, <1>9, <2>2 DEF ExchangeInv, Exchanges
  <2> QED
    BY <2>1, <2>2
<1>11. IsDcTable(auths')
  BY <1>2 DEF IsDcTable
<1>12. /\ \A i \in DOMAIN dcs : Keyed(state, i) => Keyed(state, i)'
       /\ Outstanding' = Outstanding \ {o.id} /\ o.id \in Outstanding
  <2>1. \A i \in DOMAIN dcs : Object(dcs, i) \in Objects /\ (i # o.id => Object(dcs, i) # o)
    BY <1>2, <1>7, ObjectType
  <2>2. \A i \in DOMAIN dcs \ {o.id} :
          /\ state'[Object(dcs, i)] = state[Object(dcs, i)]
          /\ authLink'[Object(dcs, i)] = authLink[Object(dcs, i)]
    BY <1>3, <2>1
  <2>3. Keyed(state, o.id)' /\ authLink'[Object(dcs, o.id)] # "closing"
    BY <1>3, <1>7 DEF Keyed
  <2>4. ~Keyed(state, o.id) \/ authLink[Object(dcs, o.id)] = "closing"
    BY <1>5, <1>7 DEF Keyed, authKeyCreated
  <2>5. \A i \in DOMAIN dcs \ {o.id} : Keyed(state, i)' <=> Keyed(state, i)
    BY <2>2 DEF Keyed
  <2>6. \A i \in DOMAIN dcs : Keyed(state, i) => Keyed(state, i)'
    BY <2>3, <2>5
  <2>7. o.id \in Outstanding
    BY <1>7, <2>4 DEF Outstanding
  <2>8. \A i : i \in Outstanding' <=> i \in Outstanding \ {o.id}
    <3> SUFFICES ASSUME NEW i PROVE i \in Outstanding' <=> i \in Outstanding \ {o.id}
      OBVIOUS
    <3>1. CASE i = o.id
      BY <2>3, <3>1 DEF Outstanding
    <3>2. CASE i \in DOMAIN dcs \ {o.id}
      BY <2>2, <2>5, <3>2 DEF Outstanding
    <3>3. CASE i \notin DOMAIN dcs
      BY <3>3 DEF Outstanding
    <3> QED
      BY <3>1, <3>2, <3>3
  <2> QED
    BY <2>6, <2>7, <2>8
<1>13. \A p \in Objects : state[p] >= authKeyCreated => state'[p] >= authKeyCreated
  BY <1>3
<1>14. CASE api = "none" /\ o.id = working
  <2>1. api' = "connecting" /\ UNCHANGED <<pendingDcs, ready, file>>
    BY <1>14 DEF ProcessDcReady
  <2>2. AllQuiet'
    BY <1>1, <1>8, <1>9, <1>14 DEF AllQuiet, ExchangeInv, WorkingFirst
  <2>3. TypeOK'
    BY <1>1, <1>4, <1>11, <2>1, Types DEF TypeOK, Up, Links, Talks
  <2>4. StartInv'
    BY <1>1, <1>6, <2>1 DEF StartInv, Down, KnownDcs, Up, Arrangement
  <2>5. ExchangeInv'
    BY <1>10, <2>1, <2>2 DEF ExchangeInv, WorkingFirst, ConfigLater
  <2>6. ReadyInv'
    <3>1. ready = 0
      BY <1>1, <1>14 DEF ReadyInv, ReadyLater
    <3>2. TransfersKeyed'
      BY <1>1, <1>13, <1>14 DEF ReadyInv, TransfersKeyed, InTransfer
    <3> QED
      BY <2>1, <3>1, <3>2 DEF ReadyInv, ReadyLater, Counting, ReadyMeansKeys
  <2> QED
    BY <2>1, <2>3, <2>4, <2>5, <2>6 DEF IInv
<1>15. CASE ~(api = "none" /\ o.id = working)
  <2>1. api \in {"configured", "lost"} /\ Cardinality(Outstanding) <= pendingDcs + 1
    BY <1>1, <1>2, <1>15, Types DEF ExchangeInv, WorkingFirst, ConfigLater, AllQuiet, ReadyInv, Counting
  <2>2. /\ pendingDcs' = pendingDcs - 1 /\ api' = api
        /\ \/ pendingDcs = 0 /\ ready' = ready + 1 /\ file' = FileOf(dcs, states)
           \/ ready' = ready /\ file' = file
    BY <1>15 DEF ProcessDcReady
  <2>3. /\ Cardinality(Outstanding) \in Nat /\ IsFiniteSet(Outstanding')
        /\ Cardinality(Outstanding') = Cardinality(Outstanding) - 1
    BY <1>1, <1>12, OutstandingFinite, FS_RemoveElement, FS_CardinalityType
  <2>4. Cardinality(Outstanding') \in Nat
    BY <2>3, FS_CardinalityType
  <2>5. pendingDcs = 0 => \A i \in DOMAIN dcs : Keyed(state, i)'
    <3> SUFFICES ASSUME pendingDcs = 0 PROVE \A i \in DOMAIN dcs : Keyed(state, i)'
      OBVIOUS
    <3>1. Cardinality(Outstanding') = 0
      BY <2>1, <2>3, <2>4
    <3>2. Outstanding' = {}
      BY <2>3, <3>1, FS_EmptySet
    <3> QED
      BY <3>2 DEF Outstanding
  <2>6. pendingDcs = 0 => ~MidExchange(FileOf(dcs, states))
    BY <1>1, <1>4, <1>6, <2>5, KeyedFile DEF Keyed
  <2>7. file' = NoFile \/ file' \in Files
    BY <1>1, <1>4, <1>6, <2>2, FileOfType, Types
  <2>8. TypeOK'
    <3>1. ready' \in Nat /\ pendingDcs' \in Int
      BY <1>2, <2>2
    <3> QED
      BY <1>1, <1>4, <1>11, <2>2, <2>7, <3>1, Types DEF TypeOK, Up, Links, Talks
  <2>9. StartInv'
    <3>1. file' # NoFile => DOMAIN file'.dcs \subseteq DOMAIN Arrangement
      BY <1>1, <1>4, <1>6, <2>2, FileOfType DEF StartInv, KnownDcs
    <3> QED
      BY <1>1, <1>6, <3>1 DEF StartInv, Down, KnownDcs, Up, Arrangement
  <2>10. ExchangeInv'
    BY <1>10, <2>1, <2>2 DEF ExchangeInv, WorkingFirst, ConfigLater
  <2>11. Counting'
    BY <1>2, <2>1, <2>2, <2>3, <2>4 DEF Counting
  <2>12. ReadyMeansKeys'
    BY <1>1, <1>2, <1>12, <2>2, <2>5 DEF ReadyInv, ReadyMeansKeys
  <2>13. ReadyLater' /\ TransfersKeyed'
    BY <1>1, <1>13, <2>1, <2>2 DEF ReadyInv, ReadyLater, TransfersKeyed, InTransfer
  <2> QED
    BY <2>2, <2>6, <2>8, <2>9, <2>10, <2>11, <2>12, <2>13 DEF IInv, ReadyInv
<1> QED
  BY <1>14, <1>15

\* The socket of a DCAuth whose key is there has closed.
LEMMA OnDcAuthDisconnectedKeeps ==
  ASSUME IInv, NEW o \in Objects, OnDcAuthDisconnected(o)
  PROVE  IInv' /\ (file' = file \/ ~MidExchange(file'))
<1>1. /\ authLink[o] = "closing" /\ authLink' = [authLink EXCEPT ![o] = "none"]
      /\ auths' = [i \in DOMAIN auths \ {o.id} |-> auths[i]]
      /\ ProcessDcReady(o, state) /\ state' = state /\ talk' = talk
      /\ UNCHANGED <<runs, lost, moves, view, working, dcs, garbled, opening, transferring, step,
                     transferred>>
  BY DEF OnDcAuthDisconnected, transferVars
<1>2. ~Quiet(o) /\ state[o] >= authKeyCreated /\ talk[o] = "quiet"
  BY <1>1, ObjectState DEF Quiet
<1>3. /\ state' = [state EXCEPT ![o] = state[o]] /\ state[o] \in DcStates
      /\ talk' = [talk EXCEPT ![o] = "quiet"]
  BY <1>1, <1>2, ObjectState
<1> QED
  BY <1>1, <1>2, <1>3, ReadyCounts

\* The key is there: the socket is closed first, unless it is lost.
LEMMA ProcessAuthCompleteKeeps ==
  ASSUME IInv, NEW o \in Objects, ProcessAuthComplete(o)
  PROVE  IInv' /\ (file' = file \/ ~MidExchange(file'))
<1>1. /\ talk[o] = "answered" /\ state[o] = clientDHSent
      /\ state' = [state EXCEPT ![o] = authKeyCreated]
      /\ talk' = [talk EXCEPT ![o] = "quiet"] /\ OnDcReady(o, state')
      /\ UNCHANGED <<runs, lost, moves, view, working, dcs, auths, garbled, opening, transferring,
                     step, transferred>>
  BY DEF ProcessAuthComplete, transferVars
<1>2. /\ ~Quiet(o) /\ state[o] < authKeyCreated /\ authKeyCreated >= state[o]
      /\ authKeyCreated \in DcStates /\ authKeyCreated >= authKeyCreated
      /\ "closing" \in Links /\ "quiet" \in Talks
  BY <1>1 DEF Quiet, clientDHSent, authKeyCreated, DcStates, init, userSignedIn, Links, Talks
<1>3. Object(auths, o.id) = o
  BY <1>2, ObjectIs DEF IInv, ExchangeInv, Exchanges
<1>4. CASE authLink[o] # "lost"
  <2>1. /\ authLink' = [authLink EXCEPT ![o] = "closing"]
        /\ UNCHANGED <<api, pendingDcs, ready, file>>
    BY <1>1, <1>3, <1>4 DEF OnDcReady
  <2>2. lost' \in Nat
    BY <1>1, Types DEF IInv
  <2> QED
    BY <1>1, <1>2, <2>1, <2>2, ExchangeStep
<1>5. CASE authLink[o] = "lost"
  <2>1. ProcessDcReady(o, state') /\ authLink' = authLink
    BY <1>1, <1>3, <1>5 DEF OnDcReady
  <2>2. authLink' = [authLink EXCEPT ![o] = "lost"]
    BY <1>5, <2>1, ObjectState
  <2> QED
    BY <1>1, <1>2, <2>1, <2>2, ReadyCounts
<1> QED
  BY <1>4, <1>5

---------------------------------------------------------------------------
(* The Api, and the log-in. *)

\* Nothing of an exchange or its outcome changes.
LEMMA NoExchange ==
  ASSUME IInv, UNCHANGED <<file, moves, dcs, state, auths, authLink, talk, pendingDcs>>,
         TypeOK', Up, Up', ready' = ready,
         \A o \in Objects : InTransfer(o)' => InTransfer(o),
         \/ api' = api /\ working' = working
         \/ api' = api /\ api # "none"
         \/ api = "connecting" /\ api' = "asked"
         \/ api \in {"asked", "configured"} /\ api' = "lost"
  PROVE  IInv'
<1>1. TypeOK /\ StartInv /\ ExchangeInv /\ ReadyInv
  BY DEF IInv
<1>2. StartInv'
  BY <1>1 DEF StartInv, Down, KnownDcs, Arrangement
<1>3. Exchanges' /\ (AllQuiet' <=> AllQuiet)
  BY <1>1 DEF ExchangeInv, Exchanges, Quiet, AllQuiet
<1>4. WorkingFirst' /\ ConfigLater'
  BY <1>1, <1>3 DEF ExchangeInv, WorkingFirst, ConfigLater, Quiet
<1>5. Outstanding' = Outstanding /\ (ReadyMeansKeys' <=> ReadyMeansKeys)
  BY DEF Outstanding, Keyed, ReadyMeansKeys
<1>6. Counting' /\ ReadyLater'
  BY <1>1, <1>3, <1>5 DEF ReadyInv, ExchangeInv, ConfigLater, Counting, ReadyLater
<1>7. TransfersKeyed'
  BY <1>1 DEF ReadyInv, TransfersKeyed
<1> QED
  BY <1>1, <1>2, <1>3, <1>4, <1>5, <1>6, <1>7 DEF IInv, ExchangeInv, ReadyInv

LEMMA OnApiReadyKeeps ==
  ASSUME IInv, OnApiReady
  PROVE  IInv'
<1>1. /\ api = "connecting" /\ api' = "asked"
      /\ UNCHANGED <<file, runs, lost, moves, view, working, dcs, state, auths, authLink, talk,
                     garbled, pendingDcs, ready, opening, transferring, step, transferred>>
  BY DEF OnApiReady, authVars, transferVars
<1>2. Up /\ Up'
  BY <1>1 DEF IInv, StartInv, Down, Up
<1>3. TypeOK'
  BY <1>1, <1>2, Types DEF TypeOK, IInv, Up
<1> QED
  BY <1>1, <1>2, <1>3, NoExchange DEF InTransfer

LEMMA ApiLostKeeps ==
  ASSUME IInv, ApiLost
  PROVE  IInv'
<1>1. /\ api \in {"asked", "configured"} /\ api' = "lost" /\ lost' = lost + 1
      /\ UNCHANGED <<file, runs, moves, view, working, dcs, state, auths, authLink, talk,
                     garbled, pendingDcs, ready, opening, transferring, step, transferred>>
  BY DEF ApiLost, authVars, transferVars
<1>2. Up /\ Up'
  BY <1>1 DEF IInv, StartInv, Down, Up
<1>3. lost' \in Nat
  BY <1>1, Types DEF IInv
<1>4. TypeOK'
  BY <1>1, <1>2, <1>3, Types DEF TypeOK, IInv, Up
<1> QED
  BY <1>1, <1>2, <1>4, NoExchange DEF InTransfer

\* A transfer session is ready, or the authorization is exported.
LEMMA TransferKeeps ==
  ASSUME IInv, NEW o \in Objects, OnTransferSessionReady(o) \/ OnAuthExportedAuthorization
  PROVE  IInv'
<1>1. /\ UNCHANGED <<file, runs, lost, moves, view, working, dcs, state, auths, authLink, talk, api,
                     pendingDcs, ready, transferred>>
  BY DEF OnTransferSessionReady, OnAuthExportedAuthorization, authVars
<1>2. TypeOK /\ Down
  BY DEF IInv, StartInv
<1>3. CASE OnTransferSessionReady(o)
  <2>1. /\ o \in opening /\ opening' = opening \ {o} /\ transferring' = Append(transferring, o)
        /\ \/ step' = "export" /\ garbled' = (garbled \/ api = "connecting")
           \/ UNCHANGED <<step, garbled>>
    BY <1>3 DEF OnTransferSessionReady
  <2>2. Up /\ Up'
    BY <1>1, <1>2, <2>1 DEF Down, Up
  <2>3. transferring \in Seq(Objects) /\ opening \subseteq Objects /\ garbled \in BOOLEAN
        /\ step \in {"none", "export", "import"}
    BY <1>2, Types
  <2>4. /\ transferring' \in Seq(Objects) /\ Len(transferring') = Len(transferring) + 1
        /\ transferring'[Len(transferring) + 1] = o
        /\ \A i \in 1..Len(transferring) : transferring'[i] = transferring[i]
    BY <2>1, <2>3
  <2>5. \A p \in Objects : InTransfer(p)' => InTransfer(p)
    BY <2>1, <2>3, <2>4 DEF InTransfer
  <2>6. garbled' \in BOOLEAN /\ step' \in {"none", "export", "import"} /\ opening' \subseteq Objects
    BY <2>1, <2>3
  <2>7. TypeOK'
    BY <1>1, <1>2, <2>2, <2>4, <2>6, Types DEF TypeOK, Up
  <2> QED
    BY <1>1, <2>2, <2>5, <2>7, NoExchange
<1>4. CASE OnAuthExportedAuthorization
  <2>1. step = "export" /\ step' = "import" /\ UNCHANGED <<opening, transferring, garbled>>
    BY <1>4 DEF OnAuthExportedAuthorization
  <2>2. Up /\ Up'
    BY <1>1, <1>2, <2>1 DEF Down, Up
  <2>3. TypeOK'
    BY <1>1, <1>2, <2>1, <2>2, Types DEF TypeOK, Up
  <2> QED
    BY <1>1, <2>1, <2>2, <2>3, NoExchange DEF InTransfer
<1> QED
  BY <1>3, <1>4

\* dcchange, which only a log-in page reaches, after dcProviderReady.
LEMMA DcChangeKeeps ==
  ASSUME IInv, NEW newDc \in Ids, DcChange(newDc)
  PROVE  IInv'
<1>1. /\ view = "welcome" /\ ready > 0 /\ newDc \in DOMAIN dcs /\ working' = newDc
      /\ UNCHANGED <<file, runs, lost, moves, view, dcs, state, auths, authLink, talk, api, garbled,
                     pendingDcs, ready, opening, transferring, step, transferred>>
  BY DEF DcChange, authVars, transferVars
<1>2. Up /\ Up' /\ api # "none"
  BY <1>1 DEF IInv, ReadyInv, ReadyLater, Up
<1>3. TypeOK'
  BY <1>1, <1>2, Types DEF TypeOK, IInv, Up
<1> QED
  BY <1>1, <1>2, <1>3, NoExchange DEF InTransfer

\* Without a connection dcProviderReady is emitted when the stored keys suffice.
LEMMA OnApiErrorKeeps ==
  ASSUME IInv, OnApiError
  PROVE  IInv'
<1>1. /\ api = "connecting" /\ api' = "failed" /\ lost' = lost + 1
      /\ \/ ready' = ready /\ transferred' = transferred
         \/ /\ \A i \in DOMAIN dcs : Keyed(state, i)
            /\ ready' = ready + 1
            /\ transferred' =
                 (transferred \/ \A i \in DOMAIN dcs : state[Object(dcs, i)] = userSignedIn)
      /\ UNCHANGED <<file, runs, moves, view, working, dcs, state, auths, authLink, talk, garbled,
                     pendingDcs, opening, transferring, step>>
  BY DEF OnApiError, authVars
<1>2. TypeOK /\ StartInv /\ ExchangeInv /\ ReadyInv
  BY DEF IInv
<1>3. lost' \in Nat /\ ready' \in Nat
  BY <1>1, <1>2, Types
<1>4. transferred' \in BOOLEAN
  <2>1. transferred \in BOOLEAN
    BY <1>2, Types
  <2> QED
    BY <1>1, <2>1
<1>5. TypeOK'
  BY <1>1, <1>2, <1>3, <1>4, Types DEF TypeOK, Up
<1>6. StartInv'
  BY <1>1, <1>2 DEF StartInv, Down, KnownDcs, Up, Arrangement
<1>7. AllQuiet' /\ Exchanges'
  BY <1>1, <1>2 DEF ExchangeInv, ConfigLater, Exchanges, AllQuiet, Quiet
<1>8. ReadyMeansKeys'
  BY <1>1, <1>2 DEF ReadyInv, ReadyMeansKeys, Keyed
<1>9. ReadyInv'
  BY <1>1, <1>2, <1>8 DEF ReadyInv, ReadyLater, Counting, TransfersKeyed, InTransfer
<1> QED
  BY <1>1, <1>5, <1>6, <1>7, <1>9 DEF IInv, ExchangeInv, WorkingFirst, ConfigLater

\* A new arrangement keeps the DCs that are known.
LEMMA ServerMovesKeeps ==
  ASSUME IInv, ServerMoves
  PROVE  IInv'
<1>1. /\ moves + 1 < Len(Arrangements) /\ moves' = moves + 1
      /\ UNCHANGED <<file, runs, lost, view, working, dcs, state, auths, authLink, talk, api, garbled,
                     pendingDcs, ready, opening, transferring, step, transferred>>
  BY DEF ServerMoves, authVars, transferVars
<1>2. TypeOK /\ StartInv /\ ExchangeInv /\ ReadyInv
  BY DEF IInv
<1>3. moves \in Nat /\ Len(Arrangements) \in Nat
      /\ DOMAIN Arrangements = 1..Len(Arrangements)
  BY <1>2, Types, ArrangementsAssumption
<1>4. moves' \in 0..Len(Arrangements) - 1 /\ moves' + 1 \in DOMAIN Arrangements
      /\ moves + 1 \in 1..(moves' + 1)
  BY <1>1, <1>3
<1>5. DOMAIN Arrangement \subseteq DOMAIN Arrangement'
  BY <1>4, DcsStay DEF Arrangement
<1>6. TypeOK'
  BY <1>1, <1>2, <1>4, Types DEF TypeOK, Up
<1>7. StartInv'
  BY <1>1, <1>2, <1>5 DEF StartInv, Down, KnownDcs, Up, AllQuiet, Quiet
<1>8. ExchangeInv'
  BY <1>1, <1>2 DEF ExchangeInv, Exchanges, WorkingFirst, ConfigLater, AllQuiet, Quiet
<1>9. ReadyInv'
  BY <1>1, <1>2 DEF ReadyInv, ReadyLater, Counting, TransfersKeyed, InTransfer, ReadyMeansKeys,
                    AllQuiet, Quiet, Outstanding, Keyed
<1> QED
  BY <1>6, <1>7, <1>8, <1>9 DEF IInv

\* The user is signed in at a DC that has its key.
LEMMA SignedInKeeps ==
  ASSUME IInv, NEW o \in Objects, state[o] >= authKeyCreated,
         state' = [state EXCEPT ![o] = userSignedIn], Up, Up', TypeOK',
         UNCHANGED <<moves, working, dcs, auths, authLink, talk, api, pendingDcs, ready>>,
         file' # NoFile => DOMAIN file'.dcs \subseteq DOMAIN Arrangement,
         \A p \in Objects : InTransfer(p)' => InTransfer(p)
  PROVE  IInv'
<1>1. TypeOK /\ StartInv /\ ExchangeInv /\ ReadyInv
  BY DEF IInv
<1>2. \A p \in Objects : (state'[p] >= authKeyCreated) <=> (state[p] >= authKeyCreated)
  <2>1. state \in [Objects -> DcStates] /\ userSignedIn >= authKeyCreated
    BY <1>1, Types DEF userSignedIn, authKeyCreated
  <2> QED
    BY <2>1
<1>3. \A p \in Objects : state[p] \in 0..5 /\ state'[p] \in 0..5
  <2>1. state \in [Objects -> DcStates] /\ state' \in [Objects -> DcStates]
    BY <1>1, Types DEF TypeOK
  <2> QED
    BY <2>1 DEF DcStates, init, userSignedIn
<1>4. StartInv'
  BY <1>1 DEF StartInv, Down, KnownDcs, Arrangement
<1>5. AllQuiet' <=> AllQuiet
  BY DEF AllQuiet, Quiet
<1>6. ExchangeInv'
  <2>1. Exchanges'
    BY <1>1, <1>2, <1>3 DEF ExchangeInv, Exchanges, Quiet, authKeyCreated
  <2> QED
    BY <1>1, <1>5, <2>1 DEF ExchangeInv, WorkingFirst, ConfigLater, Quiet
<1>7. \A i \in DOMAIN dcs : Keyed(state, i)' <=> Keyed(state, i)
  BY <1>1, <1>2, Types, ObjectType DEF Keyed
<1>8. Outstanding' = Outstanding
  BY <1>7 DEF Outstanding
<1>9. ReadyInv'
  BY <1>1, <1>2, <1>5, <1>7, <1>8 DEF ReadyInv, ReadyLater, Counting, TransfersKeyed, ReadyMeansKeys
<1> QED
  BY <1>4, <1>6, <1>9 DEF IInv

LEMMA SignedInState == userSignedIn \in DcStates /\ userSignedIn >= authKeyCreated
  BY DEF DcStates, userSignedIn, init, authKeyCreated

\* onUserAuthorized writes the file when every DC has its key.
LEMMA OnUserAuthorizedKeeps ==
  ASSUME IInv, OnUserAuthorized
  PROVE  IInv' /\ ~MidExchange(file')
<1> DEFINE o == Object(dcs, working)
<1>1. /\ view = "welcome" /\ ready > 0 /\ view' = "restart"
      /\ state' = [state EXCEPT ![o] = userSignedIn] /\ file' = FileOf(dcs, state')
      /\ UNCHANGED <<runs, lost, moves, working, dcs, auths, authLink, talk, api, garbled, pendingDcs,
                     ready, opening, transferring, step, transferred>>
  BY DEF OnUserAuthorized, authVars, transferVars
<1>2. TypeOK /\ StartInv /\ ReadyMeansKeys
  BY DEF IInv, ReadyInv
<1>3. Up /\ Up'
  BY <1>1 DEF Up
<1>4. working \in DOMAIN dcs /\ IsDcTable(dcs) /\ state \in [Objects -> DcStates]
  BY <1>2, <1>3, Types
<1>5. \A i \in DOMAIN dcs : Object(dcs, i) \in Objects /\ state[Object(dcs, i)] >= authKeyCreated
  BY <1>1, <1>2, <1>4, ObjectType DEF ReadyMeansKeys, Keyed
<1>6. o \in Objects /\ state[o] >= authKeyCreated
  BY <1>4, <1>5
<1> HIDE DEF o
<1>7. state' \in [Objects -> DcStates] /\ userSignedIn >= authKeyCreated
  BY <1>1, <1>4, SignedInState
<1>8. file' \in Files /\ DOMAIN file'.dcs = DOMAIN dcs
  BY <1>1, <1>2, <1>3, <1>7, FileOfType
<1>9. ~MidExchange(file')
  <2>1. \A i \in DOMAIN dcs : state'[Object(dcs, i)] >= authKeyCreated
    BY <1>1, <1>4, <1>5, <1>6, <1>7
  <2> QED
    BY <1>1, <1>2, <1>3, <1>7, <2>1, KeyedFile
<1>10. TypeOK'
  BY <1>1, <1>2, <1>3, <1>4, <1>7, <1>8, Types DEF TypeOK, Up
<1>11. file' # NoFile => DOMAIN file'.dcs \subseteq DOMAIN Arrangement
  BY <1>2, <1>8 DEF StartInv, KnownDcs
<1>12. \A p \in Objects : InTransfer(p)' => InTransfer(p)
  BY <1>1 DEF InTransfer
<1> QED
  BY <1>1, <1>3, <1>6, <1>9, <1>10, <1>11, <1>12, SignedInKeeps

\* An import signs the user in at the first DC in the list.
LEMMA OnAuthImportedKeeps ==
  ASSUME IInv, Listed, OnAuthImportedAuthorization
  PROVE  IInv' /\ step = "import"
<1> DEFINE o == Head(transferring)
<1>1. /\ step = "import" /\ state' = [state EXCEPT ![o] = userSignedIn]
      /\ transferring' = Tail(transferring)
      /\ \/ step' = "none" /\ transferred' = TRUE /\ file' = FileOf(dcs, state')
         \/ step' = "export" /\ UNCHANGED <<transferred, file>>
      /\ UNCHANGED <<runs, lost, moves, view, working, dcs, auths, authLink, talk, api, garbled,
                     pendingDcs, ready, opening>>
  BY DEF OnAuthImportedAuthorization, authVars
<1>2. TypeOK /\ StartInv /\ ReadyInv
  BY DEF IInv
<1>3. Up /\ Up'
  BY <1>1, <1>2 DEF StartInv, Down, Up
<1>4. transferring \in Seq(Objects) /\ state \in [Objects -> DcStates]
  BY <1>2, Types
<1>5. transferring # <<>>
  BY <1>1 DEF Listed
<1>6. /\ o \in Objects /\ InTransfer(o) /\ transferring' \in Seq(Objects)
      /\ \A i \in DOMAIN transferring' : \E j \in DOMAIN transferring :
           transferring'[i] = transferring[j]
  <2>1. 1 \in DOMAIN transferring /\ o = transferring[1] /\ o \in Objects
    BY <1>4, <1>5
  <2>2. \A i \in DOMAIN Tail(transferring) : i + 1 \in DOMAIN transferring
           /\ Tail(transferring)[i] = transferring[i + 1]
    BY <1>4, <1>5
  <2> QED
    BY <1>1, <1>4, <1>5, <2>1, <2>2 DEF InTransfer
<1>7. state[o] >= authKeyCreated
  BY <1>2, <1>6 DEF ReadyInv, TransfersKeyed
<1> HIDE DEF o
<1>8. state' \in [Objects -> DcStates]
  BY <1>1, <1>4, SignedInState
<1>9. file' = NoFile \/ file' \in Files
  BY <1>1, <1>2, <1>3, <1>8, FileOfType, Types
<1>10. file' # NoFile => DOMAIN file'.dcs \subseteq DOMAIN Arrangement
  BY <1>1, <1>2, <1>3, <1>8, FileOfType DEF StartInv, KnownDcs
<1>11. transferred' \in BOOLEAN
  BY <1>1, <1>2, Types
<1>12. TypeOK'
  BY <1>1, <1>2, <1>3, <1>6, <1>8, <1>9, <1>11, Types DEF TypeOK, Up
<1>13. \A p \in Objects : InTransfer(p)' => InTransfer(p)
  BY <1>1, <1>6 DEF InTransfer
<1> QED
  BY <1>1, <1>3, <1>6, <1>7, <1>10, <1>12, <1>13, SignedInKeeps

---------------------------------------------------------------------------
(* A run of the program. *)

\* logOut removes the file.
LEMMA LogOutKeeps ==
  ASSUME IInv, LogOut
  PROVE  IInv'
<1>1. /\ view = "main" /\ view' = "restart" /\ file' = NoFile
      /\ UNCHANGED <<runs, lost, moves, working, dcs, state, auths, authLink, talk, api, garbled,
                     pendingDcs, ready, opening, transferring, step, transferred>>
  BY DEF LogOut, authVars, transferVars
<1>2. TypeOK /\ StartInv /\ ExchangeInv /\ ReadyInv
  BY DEF IInv
<1>3. Up /\ Up'
  BY <1>1 DEF Up
<1>4. TypeOK'
  BY <1>1, <1>2, <1>3, Types DEF TypeOK, Up
<1>5. StartInv'
  BY <1>1, <1>2, <1>3 DEF StartInv, Down, KnownDcs, Arrangement
<1>6. ExchangeInv'
  BY <1>1, <1>2 DEF ExchangeInv, Exchanges, WorkingFirst, ConfigLater, AllQuiet, Quiet
<1>7. ReadyInv'
  BY <1>1, <1>2 DEF ReadyInv, ReadyLater, Counting, TransfersKeyed, InTransfer, ReadyMeansKeys,
                    AllQuiet, Quiet, Outstanding, Keyed
<1> QED
  BY <1>4, <1>5, <1>6, <1>7 DEF IInv

\* The table without entries.
LEMMA EmptyTable == DOMAIN Empty = {} /\ IsDcTable(Empty)
  BY DEF Empty, IsDcTable

LEMMA NoTransfers == <<>> \in Seq(Objects)
  OBVIOUS

\* No exchange, no transfer, no counter: what a run begins with.
Blank ==
  /\ \A o \in Objects : Quiet(o)
  /\ ready = 0 /\ api = "none"
  /\ opening = {} /\ transferring = <<>>

LEMMA BlankInv == Blank => ExchangeInv /\ ReadyInv
<1> SUFFICES ASSUME Blank PROVE ExchangeInv /\ ReadyInv
  OBVIOUS
<1>1. \A o \in Objects : ~InTransfer(o)
  BY DEF Blank, InTransfer
<1>2. ExchangeInv
  BY DEF Blank, ExchangeInv, Exchanges, WorkingFirst, ConfigLater, Quiet
<1>3. ReadyInv
  BY <1>1 DEF Blank, ReadyInv, ReadyLater, Counting, TransfersKeyed, ReadyMeansKeys
<1> QED
  BY <1>2, <1>3

LEMMA InitIInv == Init => IInv /\ Listed
<1> SUFFICES ASSUME Init PROVE IInv /\ Listed
  OBVIOUS
<1>1. /\ IsDcTable(dcs) /\ IsDcTable(auths) /\ DOMAIN dcs = {} /\ DOMAIN auths = {}
  BY EmptyTable DEF Init
<1>2. \A o \in Objects : Quiet(o)
  BY DEF Init, Quiet
<1>3. Blank
  BY <1>2 DEF Init, Blank
<1>4. state \in [Objects -> DcStates]
  BY DEF Init, DcStates, init, userSignedIn
<1>5. moves \in 0..Len(Arrangements) - 1
  <2>1. Len(Arrangements) \in Nat \ {0}
    BY ArrangementsAssumption
  <2> QED
    BY <2>1 DEF Init
<1>6. TypeOK
  <2>1. /\ authLink \in [Objects -> {"none", "connecting", "connected", "closing", "lost"}]
        /\ talk \in [Objects -> {"quiet", "asked", "answered"}]
    BY DEF Init
  <2>2. /\ file = NoFile /\ runs = 0 /\ lost = 0 /\ view = "none" /\ working = 1 /\ api = "none"
        /\ garbled = FALSE /\ pendingDcs = 0 /\ ready = 0 /\ opening = {} /\ transferring = <<>>
        /\ step = "none" /\ transferred = FALSE
    BY DEF Init
  <2>6. transferring \in Seq(Objects)
    BY <2>2, NoTransfers
  <2>7. garbled \in BOOLEAN /\ transferred \in BOOLEAN
    BY <2>2
  <2>3. /\ opening \subseteq Objects
        /\ runs \in Nat /\ lost \in Nat /\ pendingDcs \in Int /\ ready \in Nat
    BY <2>2
  <2>4. ~Up /\ working \in Ids
    BY <2>2, IdsAssumption DEF Up
  <2>5. /\ view \in {"none", "welcome", "main", "restart"}
        /\ api \in {"none", "connecting", "asked", "configured", "failed", "lost"}
        /\ step \in {"none", "export", "import"} /\ file = NoFile
    BY <2>2
  <2> QED
    BY <1>1, <1>4, <1>5, <2>1, <2>3, <2>4, <2>5, <2>6, <2>7 DEF TypeOK
<1>7. StartInv /\ Listed
  BY <1>1, <1>2 DEF Init, StartInv, Down, KnownDcs, AllQuiet, Listed
<1> QED
  BY <1>3, <1>6, <1>7, BlankInv DEF IInv

\* The program ends: only the file stays.
LEMMA ExitKeeps ==
  ASSUME IInv, Exit
  PROVE  IInv'
<1>1. /\ view' = "none" /\ working' = 1 /\ dcs' = Empty /\ auths' = Empty
      /\ state' = [o \in Objects |-> init]
      /\ authLink' = [o \in Objects |-> "none"] /\ talk' = [o \in Objects |-> "quiet"]
      /\ api' = "none" /\ garbled' = FALSE /\ pendingDcs' = 0 /\ ready' = 0
      /\ opening' = {} /\ transferring' = <<>> /\ step' = "none" /\ transferred' = FALSE
      /\ UNCHANGED <<file, runs, lost, moves>>
  BY DEF Exit
<1>2. TypeOK /\ StartInv
  BY DEF IInv
<1>3. IsDcTable(dcs') /\ IsDcTable(auths') /\ DOMAIN dcs' = {} /\ DOMAIN auths' = {}
  BY <1>1, EmptyTable
<1>4. \A o \in Objects : Quiet(o)'
  BY <1>1 DEF Quiet
<1>5. Blank'
  BY <1>1, <1>4 DEF Blank
<1>6. state' \in [Objects -> DcStates]
  BY <1>1 DEF DcStates, init, userSignedIn
<1>7. TypeOK'
  <2>1. /\ authLink' \in [Objects -> {"none", "connecting", "connected", "closing", "lost"}]
        /\ talk' \in [Objects -> {"quiet", "asked", "answered"}]
    BY <1>1
  <2>2. /\ view' = "none" /\ working' = 1 /\ api' = "none"
        /\ garbled' = FALSE /\ pendingDcs' = 0 /\ ready' = 0 /\ opening' = {}
        /\ transferring' = <<>> /\ step' = "none" /\ transferred' = FALSE
        /\ UNCHANGED <<file, runs, lost, moves>>
    BY <1>1
  <2>7. transferring' \in Seq(Objects)
    BY <2>2, NoTransfers
  <2>8. garbled' \in BOOLEAN /\ transferred' \in BOOLEAN
    BY <2>2
  <2>3. /\ opening' \subseteq Objects
        /\ pendingDcs' \in Int /\ ready' \in Nat
    BY <2>2
  <2>4. ~Up' /\ working' \in Ids
    BY <2>2, IdsAssumption DEF Up
  <2>5. /\ view' \in {"none", "welcome", "main", "restart"}
        /\ api' \in {"none", "connecting", "asked", "configured", "failed", "lost"}
        /\ step' \in {"none", "export", "import"}
    BY <2>2
  <2>6. /\ file' = NoFile \/ file' \in Files
        /\ runs' \in Nat /\ lost' \in Nat /\ moves' \in 0..Len(Arrangements) - 1
    BY <1>2, <2>2, Types
  <2> QED
    BY <1>3, <1>6, <2>1, <2>3, <2>4, <2>5, <2>6, <2>7, <2>8 DEF TypeOK
<1>8. StartInv'
  BY <1>1, <1>2, <1>3, <1>4 DEF StartInv, Down, KnownDcs, AllQuiet, Arrangement
<1>9. ExchangeInv' /\ ReadyInv'
  BY <1>5, BlankInv, PTL
<1> QED
  BY <1>7, <1>8, <1>9 DEF IInv

\* The DCs, the working one and the states a run begins with: those of the file, or
\* DC 1 alone.
LEMMA Loaded ==
  ASSUME TypeOK, KnownDcs, NEW table, NEW w, NEW states,
         table = IF file = NoFile THEN Put(Empty, 1, Boot)
                 ELSE [i \in DOMAIN file.dcs |-> file.dcs[i].addr],
         w = IF file = NoFile THEN 1 ELSE file.working,
         states = [o \in Objects |->
                     IF file # NoFile /\ o.id \in DOMAIN table /\ o.addr = table[o.id]
                       THEN file.dcs[o.id].state ELSE init]
  PROVE  /\ IsDcTable(table) /\ w \in DOMAIN table /\ DOMAIN table \subseteq DOMAIN Arrangement
         /\ w \in Ids /\ states \in [Objects -> DcStates]
<1>1. init \in DcStates
  BY DEF init, DcStates, userSignedIn
<1>2. CASE file = NoFile
  <2>1. DOMAIN table = {1} /\ table[1] = Boot /\ w = 1
    BY <1>2, EmptyTable DEF Put
  <2>2. table \in [{1} -> Addresses]
    BY <1>2, <2>1, ArrangementsAssumption DEF Put
  <2>3. states \in [Objects -> DcStates]
    BY <1>1, <1>2
  <2> QED
    BY <2>1, <2>2, <2>3, IdsAssumption, ArrangementType DEF IsDcTable
<1>3. CASE file # NoFile
  <2>1. DOMAIN table = DOMAIN file.dcs /\ w = file.working
        /\ table = [i \in DOMAIN file.dcs |-> file.dcs[i].addr]
    BY <1>3
  <2>2. IsDcTable(table) /\ w \in DOMAIN table /\ w \in Ids
    BY <1>3, <2>1, FileParts DEF IsDcTable
  <2>3. DOMAIN table \subseteq DOMAIN Arrangement
    BY <1>3, <2>1 DEF KnownDcs
  <2>4. states \in [Objects -> DcStates]
    <3>1. \A i \in DOMAIN table : file.dcs[i].state \in DcStates
      BY <1>3, <2>1, FileParts
    <3> QED
      BY <1>1, <3>1
  <2> QED
    BY <2>2, <2>3, <2>4
<1> QED
  BY <1>2, <1>3

\* ApplicationUI::init: a key exchange with the working DC or an Api for it.
LEMMA StartKeeps ==
  ASSUME IInv, Start
  PROVE  IInv'
<1>1. TypeOK /\ StartInv
  BY DEF IInv
<1> DEFINE table == IF file = NoFile THEN Put(Empty, 1, Boot)
                    ELSE [i \in DOMAIN file.dcs |-> file.dcs[i].addr]
           w == IF file = NoFile THEN 1 ELSE file.working
           main == Object(table, w)
           states == [o \in Objects |->
                        IF file # NoFile /\ o.id \in DOMAIN table /\ o.addr = table[o.id]
                          THEN file.dcs[o.id].state ELSE init]
<1>2. IsDcTable(table) /\ w \in DOMAIN table /\ DOMAIN table \subseteq DOMAIN Arrangement
      /\ w \in Ids /\ states \in [Objects -> DcStates]
  BY <1>1, Loaded DEF StartInv
<1>3. /\ ~Up /\ runs' = runs + 1 /\ working' = w /\ dcs' = table /\ state' = states
      /\ \/ /\ states[main] < authKeyCreated /\ auths' = Put(auths, w, main.addr)
            /\ authLink' = [authLink EXCEPT ![main] = "connecting"] /\ api' = api
         \/ api' = "connecting" /\ UNCHANGED <<auths, authLink>>
      /\ \/ /\ view' = "main" /\ opening' = Transfers(table, states, w)
            /\ transferred' = (opening' = {})
         \/ view' = "welcome" /\ UNCHANGED <<opening, transferred>>
      /\ UNCHANGED <<file, lost, moves, talk, garbled, pendingDcs, ready, transferring, step>>
  BY DEF Start
<1> HIDE DEF table, w, states
<1>4. /\ DOMAIN dcs = {} /\ DOMAIN auths = {} /\ api = "none" /\ pendingDcs = 0
      /\ ready = 0 /\ opening = {} /\ transferring = <<>> /\ step = "none"
      /\ \A o \in Objects : Quiet(o)
  BY <1>1, <1>3 DEF StartInv, Down, AllQuiet
<1>5. main \in Objects /\ main.id = w /\ main.addr = table[w] /\ table[w] \in Addresses
  BY <1>2, ObjectType DEF IsDcTable
<1> HIDE DEF main
<1>6. Up'
  BY <1>3 DEF Up
<1>7. /\ authLink \in [Objects -> Links] /\ talk \in [Objects -> Talks]
      /\ authLink' \in [Objects -> Links]
  BY <1>1, <1>3, Types DEF Links, Talks
<1>8. /\ auths' = auths \/ (DOMAIN auths' = {w} /\ auths'[w] = main.addr)
      /\ IsDcTable(auths')
  <2>1. CASE auths' = auths
    BY <1>1, <2>1, Types
  <2>2. CASE auths' = Put(auths, w, main.addr)
    <3>1. DOMAIN auths' = {w} /\ auths'[w] = main.addr /\ auths' = [i \in {w} |-> main.addr]
      BY <1>4, <2>2 DEF Put
    <3> QED
      BY <1>2, <1>5, <3>1 DEF IsDcTable
  <2> QED
    BY <1>3, <2>1, <2>2
<1>9. opening' \subseteq Objects
      /\ \A o \in opening' : o.id \in DOMAIN table /\ o.addr = table[o.id] /\ states[o] = authKeyCreated
  BY <1>3, <1>4 DEF Transfers
<1>10. transferred' \in BOOLEAN
  BY <1>1, <1>3, Types
<1>11. TypeOK'
  <2>1. /\ view' \in {"none", "welcome", "main", "restart"} /\ runs' \in Nat
        /\ api' \in {"none", "connecting", "asked", "configured", "failed", "lost"}
    BY <1>1, <1>3, Types
  <2> QED
    BY <1>1, <1>2, <1>3, <1>7, <1>8, <1>9, <1>10, <2>1, Types DEF TypeOK, Links, Talks
<1>12. StartInv'
  BY <1>1, <1>2, <1>3, <1>6 DEF StartInv, Down, KnownDcs, Arrangement
<1>13. ASSUME states[main] < authKeyCreated, auths' = Put(auths, w, main.addr),
              authLink' = [authLink EXCEPT ![main] = "connecting"], api' = api
       PROVE  ExchangeInv'
  <2>1. /\ authLink'[main] = "connecting"
        /\ \A o \in Objects \ {main} : Quiet(o)' /\ authLink'[o] \in {"none", "lost"}
    BY <1>3, <1>4, <1>5, <1>7, <1>13 DEF Quiet
  <2>2. DOMAIN auths' = {w} /\ auths'[w] = main.addr
    BY <1>4, <1>13 DEF Put
  <2>3. Exchanges'
    BY <1>2, <1>3, <1>5, <1>13, <2>1, <2>2 DEF Exchanges
  <2>4. WorkingFirst' /\ ConfigLater'
    BY <1>3, <1>4, <1>5, <1>13, <2>1 DEF WorkingFirst, ConfigLater
  <2> QED
    BY <2>3, <2>4 DEF ExchangeInv
<1>14. ASSUME api' = "connecting", UNCHANGED <<auths, authLink>>
       PROVE  ExchangeInv'
  <2>1. \A o \in Objects : Quiet(o)'
    BY <1>3, <1>4, <1>14 DEF Quiet
  <2> QED
    BY <1>14, <2>1 DEF ExchangeInv, Exchanges, WorkingFirst, ConfigLater, AllQuiet, Quiet
<1>15. ExchangeInv'
  BY <1>3, <1>13, <1>14
<1>16. TransfersKeyed'
  <2>1. \A o \in Objects : InTransfer(o)' => o \in opening'
    BY <1>3, <1>4 DEF InTransfer
  <2>2. authKeyCreated >= authKeyCreated
    BY DEF authKeyCreated
  <2> QED
    BY <1>3, <1>9, <2>1, <2>2 DEF TransfersKeyed
<1>17. ReadyInv'
  BY <1>3, <1>4, <1>16 DEF ReadyInv, ReadyLater, Counting, ReadyMeansKeys
<1> QED
  BY <1>11, <1>12, <1>15, <1>17 DEF IInv

\* The configuration arrives: new objects for the DCs that are new or have moved, and
\* an exchange with every DC that has no key.
LEMMA OnConfigReceivedKeeps ==
  ASSUME IInv, OnConfigReceived(Arrangement)
  PROVE  IInv'
<1>1. TypeOK /\ StartInv /\ ExchangeInv /\ ReadyInv
  BY DEF IInv
<1> DEFINE c == Arrangement
           D == DOMAIN c
           moved == MovedDcs(c)
           unkeyed == {i \in D : i \in moved \/ ~Keyed(state, i)}
           counted == D \ (unkeyed \cup {working})
           created == {i \in D \ unkeyed : state[Object(c, i)] = authKeyCreated}
<1>2. /\ api = "asked" /\ api' = "configured"
      /\ dcs' = [i \in DOMAIN dcs \cup D |-> IF i \in D THEN c[i] ELSE dcs[i]]
      /\ state' = [o \in Objects |->
                     IF o.id \in moved /\ o.addr = c[o.id] THEN init ELSE state[o]]
      /\ auths' = [i \in DOMAIN auths \cup unkeyed |-> IF i \in unkeyed THEN c[i] ELSE auths[i]]
      /\ authLink' = [o \in Objects |->
                        IF o.id \in unkeyed /\ o.addr = c[o.id] THEN "connecting"
                        ELSE authLink[o]]
      /\ pendingDcs' = (Cardinality(D) - 1) - Cardinality(counted)
      /\ ready' = IF Cardinality(created) = AllDcs THEN ready + 1 ELSE ready
      /\ UNCHANGED <<file, runs, lost, moves, view, working, talk, garbled, opening, transferring,
                     step, transferred>>
  BY DEF OnConfigReceived, Awaited, transferVars
<1>3. /\ IsDcTable(c) /\ Cardinality(D) <= AllDcs /\ IsFiniteSet(D) /\ c' = c
  BY <1>1, <1>2, ArrangementType DEF Arrangement
<1>4. /\ unkeyed \subseteq D /\ counted \subseteq D /\ created \subseteq D /\ moved \subseteq D
      /\ \A i \in D : i \notin unkeyed => Keyed(state, i) /\ i \notin moved
      /\ \A i \in unkeyed : i \in moved \/ ~Keyed(state, i)
      /\ \A i \in created : i \notin unkeyed
      /\ \A i \in D : i \notin moved <=> i \in DOMAIN dcs /\ dcs[i] = c[i]
      /\ D \ unkeyed \subseteq counted \cup {working} /\ counted \subseteq D \ unkeyed
  BY DEF MovedDcs
<1>5. DOMAIN dcs \subseteq D
  BY <1>1 DEF StartInv, KnownDcs
<1> HIDE DEF c, moved, unkeyed, counted, created
<1>6. DOMAIN dcs' = D /\ \A i \in D : dcs'[i] = c[i]
  BY <1>2, <1>5
<1>7. IsDcTable(dcs') /\ IsDcTable(auths')
  <2>1. D \subseteq Ids /\ \A i \in D : c[i] \in Addresses
    BY <1>3 DEF IsDcTable
  <2>2. IsDcTable(auths)
    BY <1>1, Types
  <2>3. IsDcTable(dcs')
    BY <1>2, <1>6, <2>1 DEF IsDcTable
  <2>4. IsDcTable(auths')
    BY <1>2, <1>4, <2>1, <2>2 DEF IsDcTable
  <2> QED
    BY <2>3, <2>4
<1>8. /\ state \in [Objects -> DcStates] /\ authLink \in [Objects -> Links]
      /\ talk \in [Objects -> Talks]
      /\ state' \in [Objects -> DcStates] /\ authLink' \in [Objects -> Links]
  <2>1. /\ state \in [Objects -> DcStates] /\ authLink \in [Objects -> Links]
        /\ talk \in [Objects -> Talks]
    BY <1>1, Types DEF Links, Talks
  <2>2. init \in DcStates /\ "connecting" \in Links
    BY DEF init, DcStates, userSignedIn, Links
  <2> QED
    BY <1>2, <2>1, <2>2
<1>9. (\A o \in Objects : Quiet(o)) /\ ready = 0
  BY <1>1, <1>2 DEF ExchangeInv, ConfigLater, AllQuiet, ReadyInv, ReadyLater
<1>10. Cardinality(D) \in Nat /\ Cardinality(unkeyed) \in Nat /\ Cardinality(counted) \in Nat
  BY <1>3, <1>4, FS_Subset, FS_CardinalityType
<1>11. TypeOK'
  <2>1. pendingDcs' \in Int /\ ready' \in Nat
    BY <1>2, <1>9, <1>10
  <2>2. working \in D /\ (Up' => working' \in DOMAIN dcs')
    BY <1>2, <1>6 DEF OnConfigReceived, c
  <2> QED
    BY <1>1, <1>2, <1>7, <1>8, <2>1, <2>2, Types DEF TypeOK, Up, Links, Talks
<1>12. StartInv'
  <2>1. Up
    BY <1>1, <1>2 DEF StartInv, Down
  <2> QED
    BY <1>1, <1>2, <1>3, <1>6, <2>1 DEF StartInv, Down, KnownDcs, Up, c
\* An object that is not made anew keeps its state.
<1>13. \A i \in D : i \notin unkeyed =>
         /\ Object(dcs', i) \in Objects /\ Object(dcs', i) = Object(dcs, i)
         /\ Keyed(state, i)' /\ authLink'[Object(dcs', i)] # "closing"
  <2> SUFFICES ASSUME NEW i \in D, i \notin unkeyed
               PROVE  /\ Object(dcs', i) \in Objects /\ Object(dcs', i) = Object(dcs, i)
                      /\ Keyed(state, i)' /\ authLink'[Object(dcs', i)] # "closing"
    OBVIOUS
  <2>1. i \notin moved /\ Keyed(state, i) /\ i \in DOMAIN dcs /\ dcs[i] = c[i]
    BY <1>4
  <2>2. Object(dcs', i) = Object(dcs, i)
    BY <1>6, <2>1 DEF Object
  <2>3. Object(dcs, i) \in Objects /\ Object(dcs, i).id = i
    BY <1>1, <2>1, ObjectType, Types
  <2>4. state'[Object(dcs, i)] = state[Object(dcs, i)]
        /\ authLink'[Object(dcs, i)] = authLink[Object(dcs, i)]
    BY <1>2, <2>1, <2>3
  <2>5. Keyed(state, i)'
    BY <2>1, <2>2, <2>4 DEF Keyed
  <2>6. authLink[Object(dcs, i)] # "closing"
    BY <1>9, <2>3 DEF Quiet
  <2> QED
    BY <2>2, <2>3, <2>4, <2>5, <2>6
<1>14. Exchanges'
  <2> SUFFICES ASSUME NEW o \in Objects
               PROVE  /\ ~Quiet(o)' => /\ o.id \in DOMAIN auths' /\ auths'[o.id] = o.addr
                                       /\ o.id \in DOMAIN dcs' /\ dcs'[o.id] = o.addr
                      /\ authLink'[o] \in {"connecting", "connected"} => state'[o] < authKeyCreated
                      /\ authLink'[o] = "closing" => state'[o] >= authKeyCreated /\ talk'[o] = "quiet"
    BY DEF Exchanges
  <2>1. talk'[o] = "quiet" /\ authLink[o] \in {"none", "lost"}
    BY <1>2, <1>9 DEF Quiet
  <2>2. CASE o.id \in unkeyed /\ o.addr = c[o.id]
    <3>1. authLink'[o] = "connecting" /\ o.id \in D /\ dcs'[o.id] = o.addr
          /\ o.id \in DOMAIN auths' /\ auths'[o.id] = o.addr
      BY <1>2, <1>4, <1>6, <2>2
    <3>2. CASE o.id \in moved
      BY <1>2, <2>2, <3>1, <3>2 DEF init, authKeyCreated
    <3>3. CASE o.id \notin moved
      <4>1. ~Keyed(state, o.id) /\ dcs[o.id] = o.addr
        BY <1>4, <2>2, <3>1, <3>3
      <4>2. o = Object(dcs, o.id) /\ state'[o] = state[o]
        BY <1>2, <3>3, <4>1, ObjectIs
      <4>3. state[o] \in 0..5
        BY <1>8 DEF DcStates, init, userSignedIn
      <4>4. ~(state[o] >= authKeyCreated)
        BY <4>1, <4>2 DEF Keyed
      <4>5. state'[o] < authKeyCreated
        BY <4>2, <4>3, <4>4 DEF authKeyCreated
      <4> QED
        BY <1>6, <3>1, <4>5
    <3> QED
      BY <3>2, <3>3
  <2>3. CASE ~(o.id \in unkeyed /\ o.addr = c[o.id])
    <3>1. authLink'[o] = authLink[o]
      BY <1>2, <2>3
    <3> QED
      BY <2>1, <3>1 DEF Quiet
  <2> QED
    BY <2>2, <2>3
<1>15. ExchangeInv'
  BY <1>2, <1>14 DEF ExchangeInv, WorkingFirst, ConfigLater
\* The DCs that are neither counted nor unkeyed: the working one at most.
<1>16. Counting'
  <2>1. Outstanding' \subseteq unkeyed
    BY <1>6, <1>13 DEF Outstanding
  <2>2. IsFiniteSet(unkeyed) /\ IsFiniteSet(counted)
    BY <1>3, <1>4, FS_Subset
  <2>3. Cardinality(Outstanding') <= Cardinality(unkeyed) /\ Cardinality(Outstanding') \in Nat
    BY <2>1, <2>2, FS_Subset, FS_CardinalityType
  <2>4. unkeyed \cup counted \subseteq D /\ unkeyed \cap counted = {}
    BY <1>4
  <2>5. Cardinality(unkeyed \cup counted) <= Cardinality(D)
        /\ Cardinality(unkeyed \cup counted) \in Nat
    BY <1>3, <2>4, FS_Subset, FS_CardinalityType
  <2>6. Cardinality(unkeyed \cup counted) = Cardinality(unkeyed) + Cardinality(counted)
    <3> DEFINE both == unkeyed \cup counted
    <3>1. IsFiniteSet(both) /\ both \ counted = unkeyed /\ both \cap counted = counted
      BY <1>3, <2>4, FS_Subset
    <3>2. Cardinality(both \ counted) = Cardinality(both) - Cardinality(both \cap counted)
      BY <3>1, FS_Difference
    <3>3. Cardinality(unkeyed) = Cardinality(both) - Cardinality(counted)
      BY <3>1, <3>2
    <3> QED
      BY <1>10, <2>5, <3>3
  <2>7. Cardinality(Outstanding') <= pendingDcs' + 1
    BY <1>2, <1>10, <2>3, <2>5, <2>6
  <2> QED
    BY <2>7 DEF Counting
<1>17. TransfersKeyed'
  <2> SUFFICES ASSUME NEW o \in Objects, InTransfer(o)
               PROVE  state'[o] >= authKeyCreated
    BY <1>2 DEF TransfersKeyed, InTransfer
  <2>1. state[o] >= authKeyCreated /\ o.id \in DOMAIN dcs /\ dcs[o.id] = o.addr
    BY <1>1, <1>2 DEF ReadyInv, TransfersKeyed
  <2>2. ~(o.id \in moved /\ o.addr = c[o.id])
    BY <1>4, <1>5, <2>1
  <2> QED
    BY <1>2, <2>1, <2>2
<1>18. ReadyMeansKeys'
  <2> SUFFICES ASSUME ready' > 0
               PROVE  \A i \in D : Keyed(state, i)'
    BY <1>6 DEF ReadyMeansKeys
  <2>1. Cardinality(created) = AllDcs
    BY <1>2, <1>9
  <2>2. Cardinality(created) <= Cardinality(D)
        /\ (Cardinality(created) = Cardinality(D) => created = D)
    BY <1>3, <1>4, FS_Subset
  <2>3. created = D
    BY <1>3, <1>10, <2>1, <2>2, BoundsAssumption
  <2> QED
    BY <1>4, <1>13, <2>3
<1>19. ReadyInv'
  BY <1>2, <1>16, <1>17, <1>18 DEF ReadyInv, ReadyLater
<1> QED
  BY <1>11, <1>12, <1>15, <1>19 DEF IInv

---------------------------------------------------------------------------
(* The theorems. *)

\* The end of an import takes the next session, or ends the transfer.
LEMMA ListedKeeps ==
  ASSUME TypeOK, Listed, [Next]_vars
  PROVE  Listed'
<1>1. transferring \in Seq(Objects)
  BY Types
<1>2. CASE UNCHANGED <<step, transferring>>
  BY <1>2 DEF Listed
<1>3. CASE Start
  BY <1>3 DEF Start, Listed
<1>4. CASE Exit
  BY <1>4 DEF Exit, Listed
<1>5. ASSUME NEW o \in Objects, OnTransferSessionReady(o) PROVE Listed'
  <2>1. transferring' = Append(transferring, o)
    BY <1>5 DEF OnTransferSessionReady
  <2>2. transferring' # <<>>
    BY <1>1, <2>1, AppendProperties
  <2> QED
    BY <2>2 DEF Listed
<1>6. CASE OnAuthExportedAuthorization
  BY <1>6 DEF OnAuthExportedAuthorization, Listed
<1>7. CASE OnAuthImportedAuthorization
  BY <1>7 DEF OnAuthImportedAuthorization, Listed
<1>8. [Next]_vars =>
        \/ UNCHANGED <<step, transferring>> \/ Start \/ Exit
        \/ \E o \in Objects : OnTransferSessionReady(o)
        \/ OnAuthExportedAuthorization \/ OnAuthImportedAuthorization
  BY DEF Next, vars, authVars, transferVars, OnUserAuthorized, LogOut, DcChange, OnAuthConnected,
         ServerAnswers, ProcessAnswer, ProcessAuthComplete, AuthLost, OnDcAuthDisconnected,
         OnApiReady, OnApiError, ApiLost, ServerMoves, OnConfigReceived
<1> QED
  BY <1>2, <1>3, <1>4, <1>5, <1>6, <1>7, <1>8

\* What HandshakeSavedByTransferOnly says of one step.
SavedStep == MidExchange(file') /\ file' # file => step = "import"

LEMMA NextKeeps ==
  ASSUME IInv, Listed, [Next]_vars
  PROVE  IInv' /\ SavedStep
<1> USE DEF SavedStep
<1>1. CASE Start
  BY <1>1, StartKeeps DEF Start
<1>2. CASE Exit
  BY <1>2, ExitKeeps DEF Exit
<1>3. CASE OnUserAuthorized
  BY <1>3, OnUserAuthorizedKeeps
<1>4. CASE LogOut
  <2>1. ~MidExchange(file')
    BY <1>4 DEF LogOut, MidExchange
  <2> QED
    BY <1>4, <2>1, LogOutKeeps
<1>5. ASSUME NEW i \in Ids, DcChange(i) PROVE IInv' /\ SavedStep
  BY <1>5, DcChangeKeeps DEF DcChange
<1>6. ASSUME NEW o \in Objects, OnAuthConnected(o) PROVE IInv' /\ SavedStep
  <2>1. file' = file \/ file' = NoFile
    BY <1>6 DEF OnAuthConnected, FatalError
  <2> QED
    BY <1>6, <2>1, OnAuthConnectedKeeps DEF MidExchange
<1>7. ASSUME NEW o \in Objects, ServerAnswers(o) PROVE IInv' /\ SavedStep
  BY <1>7, ServerAnswersKeeps DEF ServerAnswers
<1>8. ASSUME NEW o \in Objects, ProcessAnswer(o) PROVE IInv' /\ SavedStep
  <2>1. file' = file \/ file' = NoFile
    BY <1>8 DEF ProcessAnswer, FatalError
  <2> QED
    BY <1>8, <2>1, ProcessAnswerKeeps DEF MidExchange
<1>9. ASSUME NEW o \in Objects, ProcessAuthComplete(o) PROVE IInv' /\ SavedStep
  BY <1>9, ProcessAuthCompleteKeeps
<1>10. ASSUME NEW o \in Objects, AuthLost(o) PROVE IInv' /\ SavedStep
  BY <1>10, AuthLostKeeps DEF AuthLost
<1>11. ASSUME NEW o \in Objects, OnDcAuthDisconnected(o) PROVE IInv' /\ SavedStep
  BY <1>11, OnDcAuthDisconnectedKeeps
<1>12. ASSUME NEW o \in Objects, OnTransferSessionReady(o) PROVE IInv' /\ SavedStep
  BY <1>12, TransferKeeps DEF OnTransferSessionReady
<1>13. CASE OnApiReady
  BY <1>13, OnApiReadyKeeps DEF OnApiReady
<1>14. CASE OnApiError
  BY <1>14, OnApiErrorKeeps DEF OnApiError
<1>15. CASE ApiLost
  BY <1>15, ApiLostKeeps DEF ApiLost
<1>16. CASE ServerMoves
  BY <1>16, ServerMovesKeeps DEF ServerMoves
<1>17. CASE OnConfigReceived(Arrangement)
  BY <1>17, OnConfigReceivedKeeps DEF OnConfigReceived
<1>18. CASE OnAuthExportedAuthorization
  <2>1. [id |-> 1, addr |-> Boot] \in Objects
    BY IdsAssumption, ArrangementsAssumption DEF Objects
  <2>2. IInv'
    BY <1>18, <2>1, TransferKeeps
  <2> QED
    BY <1>18, <2>2 DEF OnAuthExportedAuthorization
<1>19. CASE OnAuthImportedAuthorization
  BY <1>19, OnAuthImportedKeeps
<1>20. CASE UNCHANGED vars
  <2>1. UNCHANGED <<file, runs, lost, moves, view, working, dcs, state, auths, authLink, talk, api,
                    garbled, pendingDcs, ready, opening, transferring, step, transferred>>
    BY <1>20 DEF vars, authVars, transferVars
  <2>2. TypeOK' /\ StartInv'
    BY <2>1 DEF IInv, TypeOK, StartInv, Down, KnownDcs, AllQuiet, Quiet, Up, Arrangement
  <2>3. ExchangeInv'
    BY <2>1 DEF IInv, ExchangeInv, Exchanges, WorkingFirst, ConfigLater, AllQuiet, Quiet
  <2>4. ReadyInv'
    BY <2>1 DEF IInv, ReadyInv, ReadyLater, Counting, TransfersKeyed, InTransfer, ReadyMeansKeys,
                AllQuiet, Quiet, Outstanding, Keyed
  <2> QED
    BY <2>1, <2>2, <2>3, <2>4 DEF IInv
<1> QED
  BY <1>1, <1>2, <1>3, <1>4, <1>5, <1>6, <1>7, <1>8, <1>9, <1>10, <1>11, <1>12, <1>13, <1>14,
     <1>15, <1>16, <1>17, <1>18, <1>19, <1>20 DEF Next

\* Through every order of exchanges, configurations, transfers, losses and restarts the
\* provider keeps what IInv says (src/src/core/dcprovider.cpp, dcauth.cpp).
THEOREM DcProviderInvariant == Spec => [](IInv /\ Listed)
<1>1. IInv /\ Listed /\ [Next]_vars => IInv' /\ Listed'
  BY NextKeeps, ListedKeeps DEF IInv
<1> QED
  BY <1>1, InitIInv, PTL DEF Spec

\* The variables keep their types: the working DC is one of mDcs in every run.
THEOREM DcProviderTypes == Spec => []TypeOK
<1>1. IInv => TypeOK
  BY DEF IInv
<1> QED
  BY <1>1, DcProviderInvariant, PTL

\* dcProviderReady is emitted only when there is a shared key for every DC, whichever of
\* the three places emits it (the comment on the signal in dcprovider.h).
THEOREM ReadyMeansAllKeys == Spec => []ReadyMeansKeys
<1>1. IInv => ReadyMeansKeys
  BY DEF IInv, ReadyInv
<1> QED
  BY <1>1, DcProviderInvariant, PTL

\* writeAuthFile puts no DC in the middle of an exchange into data/auth, but at the end of
\* a transfer ("after all dcs are ready", processDcReady).
THEOREM HandshakesSaved == Spec => HandshakeSavedByTransferOnly
<1>1. IInv /\ Listed /\ [Next]_vars => [SavedStep]_vars
  BY NextKeeps
<1>2. Spec => [][SavedStep]_vars
  BY <1>1, DcProviderInvariant, PTL DEF Spec
<1> QED
  BY <1>2, PTL DEF HandshakeSavedByTransferOnly, SavedStep

---------------------------------------------------------------------------
(* The log-in: how it reaches every DC and outlives the runs of the        *)
(* program, while nothing is lost or moved.  Together with IInv, Tame is   *)
(* inductive until then.                                                   *)

\* The DCs are numbered without a gap, so that mDcs.values() at number - 1 is the DC of
\* that number.
First == Arrangements[1]
Contiguous == \E k \in Nat : DOMAIN First = 1..k

\* The table is the configuration of the server.
Whole(table) == DOMAIN table = DOMAIN First /\ \A i \in DOMAIN First : table[i] = First[i]

\* The user has signed in, in this run or an earlier one.
Entered == view \in {"main", "restart"}

\* A file names every DC and has every key; whoever is signed in anywhere is signed in
\* at the working DC.
FileWhole ==
  file # NoFile =>
    /\ DOMAIN file.dcs = DOMAIN First
    /\ \A i \in DOMAIN First :
         file.dcs[i].addr = First[i] /\ file.dcs[i].state >= authKeyCreated
    /\ SignedIn(file) \/ \A i \in DOMAIN First : file.dcs[i].state # userSignedIn

Connected == api \notin {"failed", "lost"}
TableWhole == ready > 0 \/ api = "configured" \/ Entered => Whole(dcs)

\* A user who is asked to log in is signed in nowhere.
Signed(i) == state[Object(dcs, i)] = userSignedIn
AllKeyed == \A i \in DOMAIN dcs : Keyed(state, i)
SignIn ==
  /\ view = "welcome" => ~SignedIn(file) /\ \A i \in DOMAIN dcs : ~Signed(i)
  /\ Entered => Signed(working) /\ AllKeyed

\* Every DC has the log-in, or a session that is still to get it.
Covered == \A i \in DOMAIN dcs : Signed(i) \/ InTransfer(Object(dcs, i))
Transferring ==
  /\ opening # {} \/ transferring # <<>> \/ transferred => Entered /\ Covered
  /\ step # "none" \/ transferred => opening = {}
  /\ transferred => transferring = <<>>

Tame == FileWhole /\ Connected /\ TableWhole /\ SignIn /\ Transferring
Calm == Undisturbed => Tame

\* What LoginSurvives says of one step.
Survives ==
  Undisturbed /\ SignedIn(file) => SignedIn(file') \/ (view = "main" /\ view' = "restart")

---------------------------------------------------------------------------
(* The file, and the number of a DC as an index. *)

\* mDcs.values() at number - 1, when the numbers have no gap.
LEMMA NthIsNumber ==
  ASSUME NEW table, NEW k \in Nat, DOMAIN table = 1..k, NEW n \in 1..k
  PROVE  NthDc(table, n) = n
<1>1. \A i \in 1..k : {j \in 1..k : j < i} = 1..(i - 1)
  OBVIOUS
<1>2. \A i \in 1..k : Cardinality(1..(i - 1)) = i - 1
  <2> SUFFICES ASSUME NEW i \in 1..k PROVE Cardinality(1..(i - 1)) = i - 1
    OBVIOUS
  <2>1. i - 1 \in Int /\ Cardinality(1..(i - 1)) = IF 1 > i - 1 THEN 0 ELSE (i - 1) - 1 + 1
    BY FS_Interval
  <2> QED
    BY <2>1
<1>3. \A i \in 1..k : Cardinality({j \in 1..k : j < i}) = n - 1 <=> i = n
  <2> SUFFICES ASSUME NEW i \in 1..k
               PROVE  Cardinality({j \in 1..k : j < i}) = n - 1 <=> i = n
    OBVIOUS
  <2>1. Cardinality({j \in 1..k : j < i}) = i - 1
    BY <1>1, <1>2
  <2>2. i - 1 = n - 1 <=> i = n
    OBVIOUS
  <2> QED
    BY <2>1, <2>2
<1> QED
  BY <1>3 DEF NthDc

\* The file that writeAuthFile writes when every DC is known and has its key.
LEMMA FileWritten ==
  ASSUME TypeOK, Up, NEW states \in [Objects -> DcStates], Whole(dcs),
         \A i \in DOMAIN dcs : states[Object(dcs, i)] >= authKeyCreated,
         \/ states[Object(dcs, working)] = userSignedIn
         \/ \A i \in DOMAIN dcs : states[Object(dcs, i)] # userSignedIn,
         file' = FileOf(dcs, states)
  PROVE  FileWhole' /\ (SignedIn(file') <=> states[Object(dcs, working)] = userSignedIn)
<1>1. /\ file' \in Files /\ DOMAIN file'.dcs = DOMAIN dcs
      /\ \A i \in DOMAIN dcs : file'.dcs[i].state = states[Object(dcs, i)]
  BY FileOfType
<1>2. file'.working = working /\ \A i \in DOMAIN dcs : file'.dcs[i].addr = dcs[i]
  BY DEF FileOf
<1>3. working \in DOMAIN dcs
  BY Types
<1>4. file' # NoFile
  BY <1>1, NoFileAssumption
<1>5. SignedIn(file') <=> states[Object(dcs, working)] = userSignedIn
  BY <1>1, <1>2, <1>3, <1>4 DEF SignedIn
<1>6. FileWhole'
  BY <1>1, <1>2, <1>5 DEF FileWhole, Whole
<1> QED
  BY <1>5, <1>6

\* The members of mDcs are objects.
LEMMA Members ==
  ASSUME TypeOK
  PROVE  /\ \A i \in DOMAIN dcs : Object(dcs, i) \in Objects /\ Object(dcs, i).id = i
         /\ Up => working \in DOMAIN dcs
BY Types, ObjectType

---------------------------------------------------------------------------
(* The exchange of a key. *)

\* A step of an exchange finds nobody signed in.
LEMMA Exchanged ==
  ASSUME IInv, Tame, NEW o \in Objects, ~Quiet(o), state[o] < authKeyCreated,
         NEW st \in init..authKeyCreated, state' = [state EXCEPT ![o] = st],
         file' = file \/ file' = NoFile,
         UNCHANGED <<view, working, dcs, api, ready, opening, transferring, step, transferred>>
  PROVE  Tame' /\ Survives
<1>1. TypeOK /\ Exchanges /\ Down
  BY DEF IInv, ExchangeInv, StartInv
<1>2. /\ state \in [Objects -> DcStates] /\ \A i \in DOMAIN dcs : Object(dcs, i) \in Objects
      /\ view \in {"none", "welcome", "main", "restart"}
  BY <1>1, Types, Members
<1>3. o.id \in DOMAIN dcs /\ o = Object(dcs, o.id)
  BY <1>1, ObjectIs DEF Exchanges
<1>4. Up
  BY <1>1 DEF Down, AllQuiet
<1>5. ~Keyed(state, o.id)
  <2>1. state[o] \in 0..5
    BY <1>2 DEF DcStates, init, userSignedIn
  <2> QED
    BY <1>3, <2>1 DEF Keyed, authKeyCreated
<1>6. ~Entered /\ view = "welcome"
  BY <1>2, <1>3, <1>4, <1>5 DEF Tame, SignIn, AllKeyed, Up, Entered
<1>7. ~SignedIn(file) /\ \A i \in DOMAIN dcs : ~Signed(i)
  BY <1>6 DEF Tame, SignIn
<1>8. ~SignedIn(file')
  BY <1>7 DEF SignedIn
<1>9. st # userSignedIn
  BY DEF init, authKeyCreated, userSignedIn
<1>10. \A i \in DOMAIN dcs : ~Signed(i)'
  BY <1>2, <1>7, <1>9 DEF Signed
<1>11. SignIn'
  BY <1>6, <1>8, <1>10 DEF SignIn, Entered
<1>12. FileWhole'
  BY DEF Tame, FileWhole
<1>13. Transferring'
  BY <1>6 DEF Tame, Transferring, Entered
<1>14. TableWhole' /\ Connected'
  BY DEF Tame, TableWhole, Connected, Entered, Whole
<1> QED
  BY <1>7, <1>11, <1>12, <1>13, <1>14 DEF Tame, Survives

LEMMA OnAuthConnectedTame ==
  ASSUME IInv, Tame, NEW o \in Objects, OnAuthConnected(o)
  PROVE  Tame' /\ Survives
<1>1. /\ authLink[o] = "connecting"
      /\ \/ state' = [state EXCEPT ![o] = reqPQSent] /\ file' = file
         \/ file' = NoFile /\ state' = state
      /\ UNCHANGED <<view, working, dcs, api, ready, opening, transferring, step, transferred>>
  BY DEF OnAuthConnected, FatalError, transferVars
<1>2. ~Quiet(o) /\ state[o] < authKeyCreated /\ state = [state EXCEPT ![o] = state[o]]
  BY <1>1, ObjectState DEF Quiet
<1>3. reqPQSent \in init..authKeyCreated /\ state[o] \in init..authKeyCreated
  BY <1>2, ObjectState DEF reqPQSent, init, authKeyCreated
<1> QED
  BY <1>1, <1>2, <1>3, Exchanged

LEMMA ServerAnswersTame ==
  ASSUME IInv, Tame, NEW o \in Objects, ServerAnswers(o)
  PROVE  Tame' /\ Survives
<1>1. /\ authLink[o] = "connected" /\ state' = state /\ file' = file
      /\ UNCHANGED <<view, working, dcs, api, ready, opening, transferring, step, transferred>>
  BY DEF ServerAnswers, transferVars
<1>2. ~Quiet(o) /\ state[o] < authKeyCreated /\ state = [state EXCEPT ![o] = state[o]]
  BY <1>1, ObjectState DEF Quiet
<1>3. state[o] \in init..authKeyCreated
  BY <1>2, ObjectState DEF init, authKeyCreated
<1> QED
  BY <1>1, <1>2, <1>3, Exchanged

LEMMA ProcessAnswerTame ==
  ASSUME IInv, Tame, NEW o \in Objects, ProcessAnswer(o)
  PROVE  Tame' /\ Survives
<1> DEFINE st == state[o] + 1
<1>1. /\ talk[o] = "answered" /\ state[o] \in {reqPQSent, reqDHSent}
      /\ state' = [state EXCEPT ![o] = st] /\ (file' = file \/ file' = NoFile)
      /\ UNCHANGED <<view, working, dcs, api, ready, opening, transferring, step, transferred>>
  BY DEF ProcessAnswer, FatalError, transferVars
<1>2. st \in init..authKeyCreated /\ state[o] < authKeyCreated
  BY <1>1 DEF reqPQSent, reqDHSent, init, authKeyCreated
<1>3. ~Quiet(o)
  BY <1>1 DEF Quiet
<1> HIDE DEF st
<1> QED
  BY <1>1, <1>2, <1>3, Exchanged

---------------------------------------------------------------------------
(* A DC is ready. *)

\* Only in the state configured does a DC count, and then the table is whole.
LEMMA DcReadyTame ==
  ASSUME IInv, IInv', Tame, NEW o \in Objects, ~Quiet(o), ProcessDcReady(o, state'),
         \A p \in Objects : /\ state'[p] = userSignedIn <=> state[p] = userSignedIn
                            /\ state[p] >= authKeyCreated => state'[p] >= authKeyCreated,
         UNCHANGED <<view, working, dcs, opening, transferring, step, transferred>>
  PROVE  Tame' /\ Survives
<1>1. TypeOK /\ Down /\ WorkingFirst /\ ConfigLater /\ ReadyMeansKeys' /\ TypeOK'
  BY DEF IInv, StartInv, ExchangeInv, ReadyInv
<1>2. /\ \A i \in DOMAIN dcs : Object(dcs, i) \in Objects
      /\ view \in {"none", "welcome", "main", "restart"} /\ state' \in [Objects -> DcStates]
      /\ api \in {"none", "connecting", "asked", "configured", "failed", "lost"} /\ ready \in Nat
  BY <1>1, Types, Members DEF TypeOK
<1>3. Up /\ working \in DOMAIN dcs
  BY <1>1, Types DEF Down, AllQuiet
<1>4. \/ api = "none" /\ api' = "connecting" /\ ready' = ready /\ file' = file
      \/ /\ api = "configured" /\ api' = api
         /\ \/ ready' = ready + 1 /\ file' = FileOf(dcs, state')
            \/ ready' = ready /\ file' = file
  <2>1. api = "none" => o.id = working
    BY <1>1 DEF WorkingFirst
  <2>2. api \notin {"connecting", "asked", "failed"} /\ api # "lost"
    BY <1>1 DEF ConfigLater, AllQuiet, Tame, Connected
  <2> QED
    BY <1>2, <2>1, <2>2 DEF ProcessDcReady
<1>5. \A i \in DOMAIN dcs :
        /\ state'[Object(dcs, i)] = userSignedIn <=> state[Object(dcs, i)] = userSignedIn
        /\ state[Object(dcs, i)] >= authKeyCreated => state'[Object(dcs, i)] >= authKeyCreated
  BY <1>2
<1>6. TableWhole' /\ Connected'
  <2>1. Entered' <=> Entered
    BY DEF Entered
  <2> QED
    BY <1>4, <2>1 DEF Tame, TableWhole, Connected, Whole
<1>7. Transferring'
  <2>1. Covered => Covered'
    BY <1>5 DEF Covered, InTransfer, Object, Signed
  <2> QED
    BY <2>1 DEF Tame, Transferring, Entered
<1>8. Entered => Signed(working)' /\ AllKeyed'
  BY <1>3, <1>5 DEF Tame, SignIn, AllKeyed, Signed, Keyed
<1>9. view = "welcome" => \A i \in DOMAIN dcs : ~Signed(i)'
  BY <1>5 DEF Tame, SignIn, Signed
<1>10. CASE file' = file
  <2>1. SignIn'
    BY <1>8, <1>9, <1>10 DEF Tame, SignIn, Entered
  <2>2. FileWhole' /\ Survives
    BY <1>10 DEF Tame, FileWhole, Survives
  <2> QED
    BY <1>6, <1>7, <2>1, <2>2 DEF Tame
<1>11. CASE api = "configured" /\ ready' = ready + 1 /\ file' = FileOf(dcs, state')
  <2>1. Whole(dcs)
    BY <1>11 DEF Tame, TableWhole
  <2>2. \A i \in DOMAIN dcs : state'[Object(dcs, i)] >= authKeyCreated
    BY <1>1, <1>2, <1>11 DEF ReadyMeansKeys, Keyed
  <2>3. view = "welcome" \/ Entered
    BY <1>2, <1>3 DEF Up, Entered
  <2>4. \/ state'[Object(dcs, working)] = userSignedIn
        \/ \A i \in DOMAIN dcs : state'[Object(dcs, i)] # userSignedIn
    BY <1>8, <1>9, <2>3 DEF Signed
  <2>5. FileWhole' /\ (SignedIn(file') <=> state'[Object(dcs, working)] = userSignedIn)
    BY <1>1, <1>2, <1>3, <1>11, <2>1, <2>2, <2>4, FileWritten
  <2>6. SignIn'
    BY <1>3, <1>8, <1>9, <2>5 DEF SignIn, Entered, Signed
  <2>7. Survives
    BY <1>8, <2>3, <2>5 DEF Survives, Tame, SignIn, Signed
  <2> QED
    BY <1>6, <1>7, <2>5, <2>6, <2>7 DEF Tame
<1> QED
  BY <1>4, <1>10, <1>11

LEMMA OnDcAuthDisconnectedTame ==
  ASSUME IInv, IInv', Tame, NEW o \in Objects, OnDcAuthDisconnected(o)
  PROVE  Tame' /\ Survives
<1>1. /\ authLink[o] = "closing" /\ ProcessDcReady(o, state) /\ state' = state
      /\ UNCHANGED <<view, working, dcs, opening, transferring, step, transferred>>
  BY DEF OnDcAuthDisconnected, transferVars
<1>2. ~Quiet(o)
  BY <1>1 DEF Quiet
<1> QED
  BY <1>1, <1>2, DcReadyTame

LEMMA ProcessAuthCompleteTame ==
  ASSUME IInv, IInv', Tame, NEW o \in Objects, ProcessAuthComplete(o)
  PROVE  Tame' /\ Survives
<1>1. /\ talk[o] = "answered" /\ state[o] = clientDHSent
      /\ state' = [state EXCEPT ![o] = authKeyCreated]
      /\ \/ UNCHANGED <<api, ready, file>>
         \/ ProcessDcReady(o, state')
      /\ UNCHANGED <<view, working, dcs, opening, transferring, step, transferred>>
  BY DEF ProcessAuthComplete, OnDcReady, transferVars
<1>2. ~Quiet(o)
  BY <1>1 DEF Quiet
<1>3. /\ state[o] < authKeyCreated /\ authKeyCreated \in init..authKeyCreated
      /\ state[o] # userSignedIn /\ authKeyCreated # userSignedIn
      /\ authKeyCreated >= authKeyCreated
  BY <1>1 DEF init, authKeyCreated, clientDHSent, userSignedIn
<1>4. CASE UNCHANGED <<api, ready, file>>
  BY <1>1, <1>2, <1>3, <1>4, Exchanged
<1>5. CASE ProcessDcReady(o, state')
  <2>1. state \in [Objects -> DcStates]
    BY Types DEF IInv
  <2>2. \A p \in Objects : /\ state'[p] = userSignedIn <=> state[p] = userSignedIn
                           /\ state[p] >= authKeyCreated => state'[p] >= authKeyCreated
    BY <1>1, <1>3, <2>1
  <2> QED
    BY <1>1, <1>2, <1>5, <2>2, DcReadyTame
<1> QED
  BY <1>1, <1>4, <1>5

---------------------------------------------------------------------------
(* The Api, and the user at the log-in pages. *)

\* A step that leaves what Tame speaks of alone, but perhaps the state of the Api.
LEMMA ApiStep ==
  ASSUME Tame, api' = api \/ api' = "connecting" \/ api' = "asked",
         UNCHANGED <<file, view, working, dcs, state, ready, opening, transferring, step,
                     transferred>>
  PROVE  Tame' /\ Survives
<1>1. FileWhole' /\ TableWhole' /\ Connected'
  BY DEF Tame, FileWhole, TableWhole, Connected, Whole, Entered
<1>2. SignIn' /\ Transferring'
  BY DEF Tame, SignIn, Transferring, Entered, AllKeyed, Signed, Keyed, Covered, InTransfer
<1> QED
  BY <1>1, <1>2 DEF Tame, Survives

LEMMA DcChangeTame ==
  ASSUME Tame, NEW newDc \in Ids, DcChange(newDc)
  PROVE  Tame' /\ Survives
<1>1. /\ view = "welcome"
      /\ UNCHANGED <<file, view, dcs, state, api, ready, opening, transferring, step, transferred>>
  BY DEF DcChange, transferVars
<1>2. FileWhole' /\ TableWhole' /\ Connected'
  BY <1>1 DEF Tame, FileWhole, TableWhole, Connected, Whole, Entered
<1>3. SignIn' /\ Transferring'
  BY <1>1 DEF Tame, SignIn, Transferring, Entered, Signed
<1> QED
  BY <1>1, <1>2, <1>3 DEF Tame, Survives

LEMMA LogOutTame ==
  ASSUME Tame, LogOut
  PROVE  Tame' /\ Survives
<1>1. /\ view = "main" /\ view' = "restart" /\ file' = NoFile
      /\ UNCHANGED <<working, dcs, state, api, ready, opening, transferring, step, transferred>>
  BY DEF LogOut, transferVars
<1>2. FileWhole' /\ TableWhole' /\ Connected'
  BY <1>1 DEF Tame, FileWhole, TableWhole, Connected, Whole, Entered
<1>3. SignIn' /\ Transferring'
  BY <1>1 DEF Tame, SignIn, Transferring, Entered, AllKeyed, Signed, Keyed, Covered, InTransfer
<1> QED
  BY <1>1, <1>2, <1>3 DEF Tame, Survives

LEMMA ExitTame ==
  ASSUME Tame, Exit
  PROVE  Tame' /\ Survives
<1>1. /\ view' = "none" /\ api' = "none" /\ ready' = 0 /\ opening' = {} /\ transferring' = <<>>
      /\ step' = "none" /\ transferred' = FALSE /\ file' = file
  BY DEF Exit
<1>2. ~Entered'
  BY <1>1 DEF Entered
<1>3. FileWhole' /\ TableWhole' /\ Connected' /\ SignIn' /\ Transferring'
  BY <1>1, <1>2 DEF Tame, FileWhole, TableWhole, Connected, SignIn, Transferring
<1> QED
  BY <1>1, <1>3 DEF Tame, Survives

\* The user has logged in: all keys are there, and nothing is transferred yet.
LEMMA OnUserAuthorizedTame ==
  ASSUME IInv, Tame, OnUserAuthorized
  PROVE  Tame' /\ Survives
<1>1. /\ view = "welcome" /\ ready > 0 /\ view' = "restart"
      /\ state' = [state EXCEPT ![Object(dcs, working)] = userSignedIn]
      /\ file' = FileOf(dcs, state')
      /\ UNCHANGED <<working, dcs, api, ready, opening, transferring, step, transferred>>
  BY DEF OnUserAuthorized, transferVars
<1>2. TypeOK /\ ReadyMeansKeys /\ Up
  BY <1>1 DEF IInv, ReadyInv, Up
<1>3. /\ state \in [Objects -> DcStates] /\ working \in DOMAIN dcs
      /\ \A i \in DOMAIN dcs : Object(dcs, i) \in Objects
  BY <1>2, Types, Members
<1>4. /\ state' \in [Objects -> DcStates] /\ state'[Object(dcs, working)] = userSignedIn
      /\ \A i \in DOMAIN dcs : state'[Object(dcs, i)] >= authKeyCreated
  BY <1>1, <1>2, <1>3, SignedInState DEF ReadyMeansKeys, Keyed
<1>5. Whole(dcs) /\ opening = {} /\ transferring = <<>> /\ ~transferred
  BY <1>1 DEF Tame, TableWhole, Transferring, Entered
<1>6. FileWhole' /\ SignedIn(file')
  BY <1>1, <1>2, <1>4, <1>5, FileWritten
<1>7. SignIn'
  BY <1>1, <1>4 DEF SignIn, Signed, AllKeyed, Keyed
<1>8. TableWhole' /\ Connected' /\ Transferring'
  BY <1>1, <1>5 DEF Tame, TableWhole, Connected, Transferring, Whole
<1> QED
  BY <1>6, <1>7, <1>8 DEF Tame, Survives

\* The configuration makes no new object once the user has signed in.
LEMMA OnConfigReceivedTame ==
  ASSUME IInv, Tame, moves = 0, OnConfigReceived(Arrangement)
  PROVE  Tame' /\ Survives
<1> DEFINE moved == MovedDcs(First)
<1>1. Arrangement = First
  BY DEF Arrangement, First
<1>2. /\ api = "asked" /\ api' = "configured"
      /\ dcs' = [i \in DOMAIN dcs \cup DOMAIN First |->
                   IF i \in DOMAIN First THEN First[i] ELSE dcs[i]]
      /\ state' = [o \in Objects |->
                     IF o.id \in moved /\ o.addr = First[o.id] THEN init ELSE state[o]]
      /\ working \in DOMAIN First
      /\ UNCHANGED <<file, view, working, opening, transferring, step, transferred>>
  BY <1>1 DEF OnConfigReceived, transferVars
<1>3. \A i \in DOMAIN First : i \notin moved <=> i \in DOMAIN dcs /\ dcs[i] = First[i]
  BY DEF MovedDcs
<1> HIDE DEF moved
<1>4. IsDcTable(First) /\ DOMAIN dcs \subseteq DOMAIN First
  BY <1>1, ArrangementType DEF IInv, StartInv, KnownDcs
<1>5. DOMAIN dcs' = DOMAIN First /\ \A i \in DOMAIN First : dcs'[i] = First[i]
  BY <1>2, <1>4
<1>6. \A i \in DOMAIN First :
        /\ Object(dcs', i) \in Objects /\ Object(dcs', i).id = i
        /\ Object(dcs', i).addr = First[i]
  BY <1>4, <1>5 DEF IsDcTable, Object, Objects
<1>7. \A i \in DOMAIN First : i \in moved => state'[Object(dcs', i)] = init
  BY <1>2, <1>6
<1>8. \A i \in DOMAIN First : i \notin moved =>
        /\ i \in DOMAIN dcs /\ Object(dcs', i) = Object(dcs, i)
        /\ state'[Object(dcs', i)] = state[Object(dcs, i)]
  <2> SUFFICES ASSUME NEW i \in DOMAIN First, i \notin moved
               PROVE  /\ i \in DOMAIN dcs /\ Object(dcs', i) = Object(dcs, i)
                      /\ state'[Object(dcs', i)] = state[Object(dcs, i)]
    OBVIOUS
  <2>1. i \in DOMAIN dcs /\ Object(dcs', i) = Object(dcs, i)
    BY <1>3, <1>5 DEF Object
  <2>2. state'[Object(dcs', i)] = state[Object(dcs', i)]
    BY <1>2, <1>6
  <2> QED
    BY <2>1, <2>2
<1>9. FileWhole' /\ TableWhole' /\ Connected'
  BY <1>2, <1>5 DEF Tame, FileWhole, TableWhole, Connected, Whole
<1>10. view = "welcome" => \A i \in DOMAIN First : state'[Object(dcs', i)] # userSignedIn
  BY <1>7, <1>8 DEF Tame, SignIn, Signed, init, userSignedIn
<1>11. Entered => \A i \in DOMAIN First : i \notin moved
  BY <1>3 DEF Tame, TableWhole, Whole
<1>12. SignIn'
  BY <1>2, <1>5, <1>8, <1>10, <1>11 DEF Tame, SignIn, Entered, AllKeyed, Signed, Keyed
<1>13. Transferring'
  <2>1. ASSUME Entered, Covered PROVE Covered'
    <3> SUFFICES ASSUME NEW i \in DOMAIN First
                 PROVE  \/ state'[Object(dcs', i)] = userSignedIn \/ Object(dcs', i) \in opening'
                        \/ \E j \in DOMAIN transferring' : transferring'[j] = Object(dcs', i)
      BY <1>5 DEF Covered, Signed, InTransfer
    <3>1. /\ i \in DOMAIN dcs /\ Object(dcs', i) = Object(dcs, i)
          /\ state'[Object(dcs', i)] = state[Object(dcs, i)]
      BY <1>8, <1>11, <2>1
    <3>2. \/ state[Object(dcs, i)] = userSignedIn \/ Object(dcs, i) \in opening
          \/ \E j \in DOMAIN transferring : transferring[j] = Object(dcs, i)
      BY <2>1, <3>1 DEF Covered, Signed, InTransfer
    <3> QED
      BY <1>2, <3>1, <3>2
  <2> QED
    BY <1>2, <2>1 DEF Tame, Transferring, Entered
<1> QED
  BY <1>2, <1>9, <1>12, <1>13 DEF Tame, Survives

---------------------------------------------------------------------------
(* The transfer. *)

\* A session that is ready moves from mPendingTransferSessions to mTransferSessions.
LEMMA OnTransferSessionReadyTame ==
  ASSUME IInv, Tame, NEW o \in Objects, OnTransferSessionReady(o)
  PROVE  Tame' /\ Survives
<1>1. /\ o \in opening /\ opening' = opening \ {o} /\ transferring' = Append(transferring, o)
      /\ (opening' = {} \/ step' = step)
      /\ UNCHANGED <<file, view, working, dcs, state, api, ready, transferred>>
  BY DEF OnTransferSessionReady
<1>2. transferring \in Seq(Objects)
  BY Types DEF IInv
<1>3. Entered /\ Covered /\ ~transferred /\ step = "none"
  BY <1>1 DEF Tame, Transferring
<1>4. /\ Len(transferring) \in Nat /\ DOMAIN transferring = 1..Len(transferring)
      /\ DOMAIN transferring' = 1..(Len(transferring) + 1)
      /\ transferring'[Len(transferring) + 1] = o
      /\ \A i \in 1..Len(transferring) : transferring'[i] = transferring[i]
  BY <1>1, <1>2
<1>5. \A p : InTransfer(p) => InTransfer(p)'
  <2> SUFFICES ASSUME NEW p, InTransfer(p)
               PROVE  p \in opening' \/ \E i \in DOMAIN transferring' : transferring'[i] = p
    BY DEF InTransfer
  <2>1. CASE p = o
    BY <1>4, <2>1
  <2>2. CASE p # o /\ p \in opening
    BY <1>1, <2>2
  <2>3. ASSUME NEW i \in DOMAIN transferring, transferring[i] = p
        PROVE  \E j \in DOMAIN transferring' : transferring'[j] = p
    <3>1. i \in DOMAIN transferring' /\ transferring'[i] = p
      BY <1>4, <2>3
    <3> QED
      BY <3>1
  <2> QED
    BY <2>1, <2>2, <2>3 DEF InTransfer
<1>6. Covered'
  BY <1>1, <1>3, <1>5 DEF Covered, Signed
<1>7. Transferring'
  BY <1>1, <1>3, <1>6 DEF Transferring, Entered
<1>8. FileWhole' /\ TableWhole' /\ Connected' /\ SignIn'
  BY <1>1 DEF Tame, FileWhole, TableWhole, Connected, SignIn, Whole, Entered, AllKeyed, Signed, Keyed
<1> QED
  BY <1>1, <1>7, <1>8 DEF Tame, Survives

LEMMA OnAuthExportedTame ==
  ASSUME Tame, OnAuthExportedAuthorization
  PROVE  Tame' /\ Survives
<1>1. /\ step = "export" /\ UNCHANGED <<file, view, working, dcs, state, api, ready, opening,
                                        transferring, transferred>>
  BY DEF OnAuthExportedAuthorization
<1>2. FileWhole' /\ TableWhole' /\ Connected' /\ SignIn'
  BY <1>1 DEF Tame, FileWhole, TableWhole, Connected, SignIn, Whole, Entered, AllKeyed, Signed, Keyed
<1>3. opening = {}
  BY <1>1 DEF Tame, Transferring
<1>4. Transferring'
  BY <1>1, <1>3 DEF Tame, Transferring, Entered, Covered, InTransfer, Signed
<1> QED
  BY <1>1, <1>2, <1>4 DEF Tame, Survives

\* The first session of the list has the log-in; the last one ends the transfer.
LEMMA OnAuthImportedTame ==
  ASSUME IInv, Listed, Tame, OnAuthImportedAuthorization
  PROVE  Tame' /\ Survives
<1> DEFINE h == Head(transferring)
<1>1. /\ step = "import" /\ state' = [state EXCEPT ![h] = userSignedIn]
      /\ transferring' = Tail(transferring)
      /\ \/ transferring' = <<>> /\ file' = FileOf(dcs, state')
         \/ UNCHANGED <<transferred, file>>
      /\ UNCHANGED <<view, working, dcs, api, ready, opening>>
  BY DEF OnAuthImportedAuthorization
<1>2. TypeOK /\ Down
  BY DEF IInv, StartInv
<1>3. transferring \in Seq(Objects) /\ transferring # <<>>
  BY <1>1, <1>2, Types DEF Listed
<1>4. Entered /\ Covered /\ opening = {}
  BY <1>1, <1>3 DEF Tame, Transferring
<1>5. ~transferred
  BY <1>3 DEF Tame, Transferring
<1>6. h \in Objects /\ h = transferring[1] /\ DOMAIN transferring = 1..Len(transferring)
      /\ Len(transferring) \in Nat
      /\ Tail(transferring) \in Seq(Objects) /\ Len(Tail(transferring)) = Len(transferring) - 1
      /\ \A i \in 1..Len(Tail(transferring)) : Tail(transferring)[i] = transferring[i + 1]
  BY <1>3, HeadTailProperties
<1> HIDE DEF h
<1>7. state \in [Objects -> DcStates] /\ \A i \in DOMAIN dcs : Object(dcs, i) \in Objects
  BY <1>2, Types, Members
<1>8. Up /\ working \in DOMAIN dcs
  BY <1>2, <1>4, Types DEF Up, Entered
<1>9. /\ state' \in [Objects -> DcStates] /\ state'[h] = userSignedIn
      /\ \A p \in Objects : /\ state[p] = userSignedIn => state'[p] = userSignedIn
                            /\ state[p] >= authKeyCreated => state'[p] >= authKeyCreated
  BY <1>1, <1>6, <1>7, SignedInState
<1>10. \A p \in Objects : InTransfer(p) => p = h \/ InTransfer(p)'
  <2> SUFFICES ASSUME NEW i \in 1..Len(transferring), transferring[i] # h
               PROVE  \E j \in DOMAIN transferring' : transferring'[j] = transferring[i]
    BY <1>4, <1>6 DEF InTransfer
  <2>1. PICK j \in 1..Len(Tail(transferring)) : j + 1 = i
    <3>1. i - 1 \in 1..Len(Tail(transferring)) /\ (i - 1) + 1 = i
      BY <1>6
    <3> QED
      BY <3>1
  <2>2. transferring'[j] = transferring[i] /\ j \in DOMAIN transferring'
    BY <1>1, <1>6, <2>1
  <2> QED
    BY <2>2
<1>11. Covered'
  <2> SUFFICES ASSUME NEW i \in DOMAIN dcs
               PROVE  \/ state'[Object(dcs, i)] = userSignedIn \/ Object(dcs, i) \in opening'
                      \/ \E j \in DOMAIN transferring' : transferring'[j] = Object(dcs, i)
    BY <1>1 DEF Covered, Signed, InTransfer
  <2>1. PICK p \in Objects : p = Object(dcs, i)
    BY <1>7
  <2>2. state[p] = userSignedIn \/ InTransfer(p)
    BY <1>4, <2>1 DEF Covered, Signed
  <2>3. InTransfer(p) =>
          \/ p = h \/ p \in opening' \/ \E j \in DOMAIN transferring' : transferring'[j] = p
    BY <1>10 DEF InTransfer
  <2>4. \/ state'[p] = userSignedIn \/ p \in opening'
        \/ \E j \in DOMAIN transferring' : transferring'[j] = p
    BY <1>9, <2>2, <2>3
  <2> QED
    BY <2>1, <2>4
<1>12. Transferring'
  <2>1. transferred' => transferring' = <<>>
    BY <1>1, <1>5
  <2> QED
    BY <1>1, <1>4, <1>11, <2>1 DEF Transferring, Entered
<1>13. /\ state'[Object(dcs, working)] = userSignedIn
       /\ \A i \in DOMAIN dcs : state'[Object(dcs, i)] >= authKeyCreated
  BY <1>4, <1>7, <1>8, <1>9 DEF Tame, SignIn, Signed, AllKeyed, Keyed
<1>14. SignIn'
  BY <1>1, <1>4, <1>13 DEF SignIn, Entered, Signed, AllKeyed, Keyed
<1>15. FileWhole' /\ (file' = file \/ SignedIn(file'))
  <2>1. Whole(dcs)
    BY <1>4 DEF Tame, TableWhole
  <2>2. CASE file' = FileOf(dcs, state')
    BY <1>2, <1>8, <1>9, <1>13, <2>1, <2>2, FileWritten
  <2>3. CASE file' = file
    BY <2>3 DEF Tame, FileWhole
  <2> QED
    BY <1>1, <2>2, <2>3
<1>16. TableWhole' /\ Connected'
  BY <1>1 DEF Tame, TableWhole, Connected, Whole, Entered
<1> QED
  BY <1>12, <1>14, <1>15, <1>16 DEF Tame, Survives

---------------------------------------------------------------------------
(* A run begins. *)

\* Without a file there is only DC 1, without a key.
LEMMA FirstStart ==
  ASSUME IInv, Tame, Start, file = NoFile
  PROVE  Tame' /\ Survives
<1> DEFINE table == Put(Empty, 1, Boot)
<1>1. DOMAIN table = 1..1
  BY EmptyTable DEF Put
<1> HIDE DEF table
<1>2. NthDc(table, 1) = 1
  <2>1. 1 \in Nat /\ 1 \in 1..1
    OBVIOUS
  <2> QED
    BY <1>1, <2>1, NthIsNumber
<1>3. /\ ~Up /\ dcs' = table /\ state' = [o \in Objects |-> init] /\ working' = 1
      /\ api' = api \/ api' = "connecting"
      /\ UNCHANGED <<file, ready, transferring, step>>
  BY DEF Start, table
<1>4. \/ state'[Object(table, NthDc(table, 1))] = userSignedIn
      \/ view' = "welcome" /\ UNCHANGED <<opening, transferred>>
  BY DEF Start, table
<1>5. /\ Object(table, 1) \in Objects /\ init # userSignedIn
      /\ \A i \in DOMAIN table : Object(table, i) \in Objects
  <2>1. DOMAIN table = {1} /\ table[1] = Boot
    BY EmptyTable DEF table, Put
  <2> QED
    BY <2>1, IdsAssumption, ArrangementsAssumption DEF Object, Objects, init, userSignedIn
<1>6. view' = "welcome" /\ UNCHANGED <<opening, transferred>>
  BY <1>2, <1>3, <1>4, <1>5
<1>7. api = "none" /\ ready = 0 /\ ~Entered
  BY <1>3 DEF IInv, StartInv, Down, Up, Entered
<1>8. FileWhole' /\ TableWhole' /\ Connected'
  BY <1>3, <1>6, <1>7 DEF FileWhole, TableWhole, Connected, Entered
<1>9. SignIn'
  BY <1>3, <1>5, <1>6 DEF SignIn, SignedIn, Entered, Signed
<1>10. Transferring'
  BY <1>3, <1>6, <1>7 DEF Tame, Transferring
<1> QED
  BY <1>8, <1>9, <1>10 DEF Tame, Survives, SignedIn

\* What a file says is what the run begins with: the user is in if the file says so, and
\* then every DC that has only its key gets a session of the transfer.
LEMMA LaterStart ==
  ASSUME IInv, Tame, Contiguous, Start, file # NoFile
  PROVE  Tame' /\ Survives
<1> DEFINE table == [i \in DOMAIN file.dcs |-> file.dcs[i].addr]
           w == file.working
<1>1. /\ w \in DOMAIN First /\ DOMAIN table = DOMAIN First
      /\ \A i \in DOMAIN First : table[i] = First[i] /\ file.dcs[i].addr = First[i]
  BY FileParts DEF Tame, FileWhole, IInv
<1>2. \A i \in DOMAIN First : i \in Ids /\ First[i] \in Addresses /\ file.dcs[i].state \in DcStates
                            /\ file.dcs[i].state >= authKeyCreated
  BY <1>1, FileParts DEF Tame, FileWhole, IInv
<1>3. SignedIn(file) <=> file.dcs[w].state = userSignedIn
  BY DEF SignedIn
<1>4. SignedIn(file) \/ \A i \in DOMAIN First : file.dcs[i].state # userSignedIn
  BY DEF Tame, FileWhole
<1>5. NthDc(table, w) = w
  BY <1>1, NthIsNumber DEF Contiguous
<1>6. /\ ~Up /\ dcs' = table /\ working' = w
      /\ state' = [o \in Objects |-> IF o.id \in DOMAIN table /\ o.addr = table[o.id]
                                     THEN file.dcs[o.id].state ELSE init]
      /\ api' = api \/ api' = "connecting"
      /\ \/ /\ state'[Object(table, NthDc(table, w))] = userSignedIn
            /\ view' = "main" /\ opening' = Transfers(table, state', w)
            /\ transferred' = (opening' = {})
         \/ /\ state'[Object(table, NthDc(table, w))] # userSignedIn
            /\ view' = "welcome" /\ UNCHANGED <<opening, transferred>>
      /\ UNCHANGED <<file, ready, transferring, step>>
  BY DEF Start
<1> HIDE DEF table, w
<1>7. \A i \in DOMAIN First :
        /\ Object(table, i) \in Objects /\ Object(table, i).id = i
        /\ Object(table, i).addr = table[i]
  BY <1>1, <1>2 DEF Object, Objects
<1>8. \A i \in DOMAIN First : state'[Object(table, i)] = file.dcs[i].state
  BY <1>1, <1>6, <1>7
<1>9. /\ api = "none" /\ ready = 0 /\ ~Entered /\ opening = {} /\ transferring = <<>>
      /\ step = "none" /\ ~transferred
  BY <1>6 DEF IInv, StartInv, Down, Up, Entered, Tame, Transferring
<1>10. FileWhole' /\ TableWhole' /\ Connected'
  BY <1>1, <1>6, <1>9 DEF Tame, FileWhole, TableWhole, Whole, Connected
<1>11. CASE SignedIn(file)
  <2>1. /\ view' = "main" /\ opening' = Transfers(table, state', w)
        /\ transferred' = (opening' = {})
    BY <1>1, <1>3, <1>5, <1>6, <1>8, <1>11
  <2>2. /\ state'[Object(dcs', working')] = userSignedIn
        /\ \A i \in DOMAIN dcs' : state'[Object(dcs', i)] >= authKeyCreated
    <3>1. dcs' = table /\ working' = w
      BY <1>6
    <3>2. state'[Object(table, w)] = userSignedIn
      BY <1>1, <1>3, <1>8, <1>11
    <3>3. \A i \in DOMAIN table : state'[Object(table, i)] >= authKeyCreated
      BY <1>1, <1>2, <1>8
    <3> QED
      BY <3>1, <3>2, <3>3
  <2>3. SignIn'
    BY <2>1, <2>2 DEF SignIn, Signed, AllKeyed, Keyed
  <2>4. Covered'
    <3> SUFFICES ASSUME NEW i \in DOMAIN First, file.dcs[i].state # userSignedIn
                 PROVE  Object(table, i) \in opening'
      BY <1>1, <1>6, <1>8 DEF Covered, Signed, InTransfer
    <3>1. file.dcs[i].state = authKeyCreated
      BY <1>2 DEF DcStates, init, userSignedIn, authKeyCreated
    <3>2. i # w
      BY <1>3, <1>11
    <3> QED
      BY <1>1, <1>7, <1>8, <2>1, <3>1, <3>2 DEF Transfers
  <2>5. Transferring'
    BY <1>6, <1>9, <2>1, <2>4 DEF Transferring, Entered
  <2> QED
    BY <1>6, <1>10, <2>3, <2>5 DEF Tame, Survives
<1>12. CASE ~SignedIn(file)
  <2>1. state'[Object(table, w)] # userSignedIn
    BY <1>1, <1>3, <1>8, <1>12
  <2>2. view' = "welcome" /\ UNCHANGED <<opening, transferred>>
    BY <1>5, <1>6, <2>1
  <2>3. SignIn'
    BY <1>1, <1>4, <1>6, <1>8, <1>12, <2>2 DEF SignIn, Signed, Entered
  <2>4. Transferring'
    BY <1>6, <1>9, <2>2 DEF Transferring
  <2> QED
    BY <1>6, <1>10, <1>12, <2>3, <2>4 DEF Tame, Survives
<1> QED
  BY <1>11, <1>12

\* At first there is nothing.
LEMMA InitTame == Init => Tame
<1> SUFFICES ASSUME Init PROVE Tame
  OBVIOUS
<1> QED
  BY DEF Init, Tame, FileWhole, Connected, TableWhole, SignIn, Transferring, Entered

---------------------------------------------------------------------------
(* The theorems. *)

\* A loss or a move leaves the file alone; it is never undone.
LEMMA Disturbs ==
  ASSUME IInv, [Next]_vars
  PROVE  \/ UNCHANGED <<lost, moves>>
         \/ file' = file /\ ~Undisturbed'
<1>1. lost \in Nat /\ moves \in Nat
  BY Types DEF IInv
<1>2. ASSUME NEW o \in Objects, AuthLost(o) PROVE file' = file /\ ~Undisturbed'
  BY <1>1, <1>2 DEF AuthLost, Undisturbed
<1>3. CASE OnApiError
  BY <1>1, <1>3 DEF OnApiError, Undisturbed
<1>4. CASE ApiLost
  BY <1>1, <1>4 DEF ApiLost, Undisturbed
<1>5. CASE ServerMoves
  BY <1>1, <1>5 DEF ServerMoves, Undisturbed
<1>6. [Next]_vars =>
        \/ UNCHANGED <<lost, moves>> \/ OnApiError \/ ApiLost \/ ServerMoves
        \/ \E o \in Objects : AuthLost(o)
  BY DEF Next, vars, Start, Exit, OnUserAuthorized, LogOut, DcChange, OnAuthConnected,
         ServerAnswers, ProcessAnswer, ProcessAuthComplete, OnDcAuthDisconnected,
         OnTransferSessionReady, OnApiReady, OnConfigReceived, OnAuthExportedAuthorization,
         OnAuthImportedAuthorization
<1> QED
  BY <1>2, <1>3, <1>4, <1>5, <1>6

\* Every step that is neither a loss nor a move.
LEMMA UndisturbedStep ==
  ASSUME Contiguous, IInv, IInv', Listed, Tame, moves = 0, UNCHANGED <<lost, moves>>, [Next]_vars
  PROVE  Tame' /\ Survives
<1>1. CASE Start
  BY <1>1, FirstStart, LaterStart
<1>2. CASE Exit
  BY <1>2, ExitTame
<1>3. CASE OnUserAuthorized
  BY <1>3, OnUserAuthorizedTame
<1>4. CASE LogOut
  BY <1>4, LogOutTame
<1>5. ASSUME NEW i \in Ids, DcChange(i) PROVE Tame' /\ Survives
  BY <1>5, DcChangeTame
<1>6. ASSUME NEW o \in Objects, OnAuthConnected(o) PROVE Tame' /\ Survives
  BY <1>6, OnAuthConnectedTame
<1>7. ASSUME NEW o \in Objects, ServerAnswers(o) PROVE Tame' /\ Survives
  BY <1>7, ServerAnswersTame
<1>8. ASSUME NEW o \in Objects, ProcessAnswer(o) PROVE Tame' /\ Survives
  BY <1>8, ProcessAnswerTame
<1>9. ASSUME NEW o \in Objects, ProcessAuthComplete(o) PROVE Tame' /\ Survives
  BY <1>9, ProcessAuthCompleteTame
<1>10. ASSUME NEW o \in Objects, OnDcAuthDisconnected(o) PROVE Tame' /\ Survives
  BY <1>10, OnDcAuthDisconnectedTame
<1>11. ASSUME NEW o \in Objects, OnTransferSessionReady(o) PROVE Tame' /\ Survives
  BY <1>11, OnTransferSessionReadyTame
<1>12. CASE OnApiReady
  <2>1. /\ api' = "asked" /\ UNCHANGED <<file, view, working, dcs, state, ready, opening,
                                         transferring, step, transferred>>
    BY <1>12 DEF OnApiReady, transferVars
  <2> QED
    BY <2>1, ApiStep
<1>13. CASE OnConfigReceived(Arrangement)
  BY <1>13, OnConfigReceivedTame
<1>14. CASE OnAuthExportedAuthorization
  BY <1>14, OnAuthExportedTame
<1>15. CASE OnAuthImportedAuthorization
  BY <1>15, OnAuthImportedTame
<1>16. CASE UNCHANGED vars
  <2>1. UNCHANGED <<file, view, working, dcs, state, api, ready, opening, transferring, step,
                    transferred>>
    BY <1>16 DEF vars, transferVars
  <2> QED
    BY <2>1, ApiStep
<1>17. ~OnApiError /\ ~ApiLost /\ ~ServerMoves /\ \A o \in Objects : ~AuthLost(o)
  <2>1. lost \in Nat /\ moves \in Nat
    BY Types DEF IInv
  <2> QED
    BY <2>1 DEF OnApiError, ApiLost, ServerMoves, AuthLost
<1> QED
  BY <1>1, <1>2, <1>3, <1>4, <1>5, <1>6, <1>7, <1>8, <1>9, <1>10, <1>11, <1>12, <1>13, <1>14,
     <1>15, <1>16, <1>17 DEF Next

LEMMA CalmKeeps ==
  ASSUME Contiguous, IInv, Listed, Calm, [Next]_vars
  PROVE  Calm' /\ Survives
<1>1. CASE file' = file /\ ~Undisturbed'
  BY <1>1 DEF Calm, Survives
<1>2. CASE UNCHANGED <<lost, moves>> /\ ~Undisturbed
  BY <1>2 DEF Calm, Survives, Undisturbed
<1>3. CASE UNCHANGED <<lost, moves>> /\ Undisturbed
  <2>1. Tame /\ moves = 0
    BY <1>3 DEF Calm, Undisturbed
  <2> QED
    BY <1>3, <2>1, NextKeeps, UndisturbedStep DEF Calm
<1> QED
  BY <1>1, <1>2, <1>3, Disturbs

\* While nothing is lost or moved the file, mDcs, the sign-ins and the transfer agree,
\* through every order of exchanges, answers, log-ins and restarts.
THEOREM TransferInvariant == Contiguous => (Spec => []Calm)
<1> SUFFICES ASSUME Contiguous PROVE Spec => []Calm
  OBVIOUS
<1>1. Init => Calm
  BY InitTame DEF Calm
<1>2. IInv /\ Listed /\ Calm /\ [Next]_vars => Calm'
  BY CalmKeeps
<1> QED
  BY <1>1, <1>2, DcProviderInvariant, PTL DEF Spec

\* authTransferCompleted is emitted when every DC has the log-in (dcprovider.h), as long
\* as nothing was lost or moved.
THEOREM EveryDcIsReached == Contiguous => (Spec => []TransferReachesAll)
<1> SUFFICES ASSUME Contiguous PROVE Spec => []TransferReachesAll
  OBVIOUS
<1>1. IInv /\ Calm => TransferReachesAll
  <2> SUFFICES ASSUME IInv, Calm, Undisturbed, transferred, NEW i \in DOMAIN dcs
               PROVE  state[Object(dcs, i)] = userSignedIn
    BY DEF TransferReachesAll
  <2>1. Covered /\ opening = {} /\ transferring = <<>>
    BY DEF Calm, Tame, Transferring
  <2>2. DOMAIN transferring = {}
    BY <2>1
  <2> QED
    BY <2>1, <2>2 DEF Covered, Signed, InTransfer
<1> QED
  BY <1>1, TransferInvariant, DcProviderInvariant, PTL

\* No start, exchange or transfer takes the log-in out of data/auth: only the user's own
\* log-out does (onAuthLogOutAnswer), as long as nothing was lost or moved.
THEOREM LoginOutlivesRuns == Contiguous => (Spec => LoginSurvives)
<1> SUFFICES ASSUME Contiguous PROVE Spec => LoginSurvives
  OBVIOUS
<1>1. IInv /\ Listed /\ Calm /\ [Next]_vars => [Survives]_vars
  BY CalmKeeps
<1>2. Spec => [][Survives]_vars
  BY <1>1, TransferInvariant, DcProviderInvariant, PTL DEF Spec
<1> QED
  BY <1>2, PTL DEF LoginSurvives, Survives

=============================================================================
