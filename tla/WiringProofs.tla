----------------------------- MODULE WiringProofs -----------------------------
(***************************************************************************)
(* Proofs about Wiring for any components, clients, ports and commands.    *)
(***************************************************************************)
EXTENDS Wiring, TLAPS

\* Type correctness of the wiring pattern's state.
THEOREM TypeCorrect == Spec => []TypeOK
<1> USE WiringAssumption
<1>1. Init => TypeOK
  BY DEF Init, TypeOK, Ports
<1>2. TypeOK /\ [Next]_vars => TypeOK'
  <2> SUFFICES ASSUME TypeOK, [Next]_vars PROVE TypeOK'
    OBVIOUS
  <2> USE DEF TypeOK, slaveVars
  <2>1. ASSUME NEW k \in Clients, NEW p \in PortNames, AddBegins(k, p) PROVE TypeOK'
    BY <2>1 DEF AddBegins, Ports
  <2>2. ASSUME NEW k \in Clients, NEW p \in PortNames, ReAddBegins(k, p) PROVE TypeOK'
    <3>1. p \in Ports /\ NoPort \in Ports /\ Home[k] \in Components
      BY DEF Ports
    <3>2. ports' \in [Components -> [Ports -> Clients \cup {NoClient}]]
      BY <2>2, <3>1 DEF ReAddBegins
    <3>3. portName' \in [Clients -> Ports] /\ managed' \in [Clients -> BOOLEAN]
      BY <2>2, <3>1 DEF ReAddBegins
    <3> QED
      BY <2>2, <3>2, <3>3 DEF ReAddBegins
  <2>3. ASSUME NEW k \in Clients, AddInserts(k) PROVE TypeOK'
    <3>1. Home[k] \in Components /\ portName[k] \in Ports
      OBVIOUS
    <3>2. ports' \in [Components -> [Ports -> Clients \cup {NoClient}]]
      BY <2>3, <3>1 DEF AddInserts
    <3>3. managed' \in [Clients -> BOOLEAN] /\ adding' \subseteq Clients
      BY <2>3 DEF AddInserts
    <3> QED
      BY <2>3, <3>2, <3>3 DEF AddInserts
  <2>4. ASSUME NEW c \in Components, NEW r \in Requests, MethodCallback(c, r) PROVE TypeOK'
    BY <2>4 DEF MethodCallback
  <2>5. ASSUME NEW c \in Components, HandleWiring(c) PROVE TypeOK'
    BY <2>5 DEF HandleWiring, Statuses
  <2>6. ASSUME NEW c \in Components, ConnectBegins(c) PROVE TypeOK'
    BY <2>6 DEF ConnectBegins
  <2>7. ASSUME NEW c \in Components, ConnectSucceeds(c) PROVE TypeOK'
    <3>1. request[c].server \in Components
      BY <2>7 DEF ConnectSucceeds, Responds, TypeOK
    <3> QED
      BY <2>7, <3>1 DEF ConnectSucceeds, Statuses
  <2>8. ASSUME NEW c \in Components, ConnectFails(c) PROVE TypeOK'
    BY <2>8 DEF ConnectFails
  <2>9. ASSUME NEW c \in Components, CallbackReturns(c) PROVE TypeOK'
    BY <2>9 DEF CallbackReturns
  <2>10. CASE UNCHANGED vars
    BY <2>10 DEF vars
  <2> QED
    BY <2>1, <2>2, <2>3, <2>4, <2>5, <2>6, <2>7, <2>8, <2>9, <2>10 DEF Next
<1> QED
  BY <1>1, <1>2, PTL DEF Spec

-----------------------------------------------------------------------------
(* The thread that connects a client does so for the query its server waits
   for, and the port it uses stays in the list, since it has the mutex. *)
WorkerServesQuery ==
  \A c \in Components :
    worker[c] = "connecting" =>
      /\ request[c] \in Requests
      /\ request[c].command = "connect"
      /\ ports[c][request[c].port] # NoClient
      /\ answer[c] = NoAnswer

\* There is no answer in the map when the server waits for none.
NoStrayAnswer == \A c \in Components : request[c] = NoRequest => answer[c] = NoAnswer

\* A client listed in a component is one of its clients.
ListedAtHome ==
  \A c \in Components, p \in Ports : ports[c][p] # NoClient => Home[ports[c][p]] = c

\* A client that enters for the first time manages nothing until it is listed.
NewcomerUnmanaged == \A k \in adding : k \notin ReAdded => ~ managed[k]

Inv ==
  /\ TypeOK
  /\ WorkerServesQuery
  /\ NoStrayAnswer
  /\ ListedAtHome
  /\ NewcomerUnmanaged
  /\ PortsBelong
  /\ NeverWiredToSelf
  /\ OkMeansConnected

\* What the types say of a port, a command and a client.
LEMMA PortTypes ==
  ASSUME TypeOK, WiringAssumption
  PROVE  /\ \A r \in Requests : r.port \in Ports /\ r.server \in Components
         /\ \A c \in Components : \A p \in Ports :
              ports[c][p] # NoClient => ports[c][p] \in Clients
         /\ \A k \in Clients : Home[k] \in Components /\ portName[k] \in Ports
  BY DEF TypeOK, WiringAssumption, Ports

\* Every step keeps the connecting thread with its query and its port.
LEMMA WorkerStep ==
  ASSUME WiringAssumption, TypeOK, WorkerServesQuery, [Next]_vars
  PROVE  WorkerServesQuery'
<1> USE WiringAssumption, PortTypes DEF slaveVars, WorkerServesQuery
<1>1. ASSUME NEW k \in Clients, NEW p \in PortNames, AddBegins(k, p)
      PROVE  WorkerServesQuery'
  BY <1>1 DEF AddBegins
<1>2. ASSUME NEW k \in Clients, NEW p \in PortNames, ReAddBegins(k, p)
      PROVE  WorkerServesQuery'
  <2> SUFFICES ASSUME NEW c \in Components, worker'[c] = "connecting"
               PROVE  ports'[c] = ports[c]
    BY <1>2 DEF ReAddBegins
  <2> QED
    BY <1>2 DEF ReAddBegins, SlaveFree, TypeOK
<1>3. ASSUME NEW k \in Clients, AddInserts(k)
      PROVE  WorkerServesQuery'
  <2> SUFFICES ASSUME NEW c \in Components, worker'[c] = "connecting"
               PROVE  ports'[c] = ports[c]
    BY <1>3 DEF AddInserts
  <2> QED
    BY <1>3 DEF AddInserts, SlaveFree, TypeOK
<1>4. ASSUME NEW c \in Components, NEW r \in Requests, MethodCallback(c, r)
      PROVE  WorkerServesQuery'
  BY <1>4 DEF MethodCallback, TypeOK
<1>5. ASSUME NEW c \in Components, HandleWiring(c)
      PROVE  WorkerServesQuery'
  <2> SUFFICES ASSUME NEW d \in Components, worker'[d] = "connecting"
               PROVE  answer'[d] = answer[d]
    BY <1>5 DEF HandleWiring
  <2> QED
    BY <1>5 DEF HandleWiring, Waiting, TypeOK
<1>6. ASSUME NEW c \in Components, ConnectBegins(c)
      PROVE  WorkerServesQuery'
  BY <1>6 DEF ConnectBegins, Waiting, TypeOK
<1>7. ASSUME NEW c \in Components, ConnectSucceeds(c)
      PROVE  WorkerServesQuery'
  <2> SUFFICES ASSUME NEW d \in Components, worker'[d] = "connecting"
               PROVE  answer'[d] = answer[d] /\ worker[d] = "connecting"
    BY <1>7 DEF ConnectSucceeds
  <2> QED
    BY <1>7 DEF ConnectSucceeds, TypeOK
<1>8. ASSUME NEW c \in Components, ConnectFails(c)
      PROVE  WorkerServesQuery'
  BY <1>8 DEF ConnectFails
<1>9. ASSUME NEW c \in Components, CallbackReturns(c)
      PROVE  WorkerServesQuery'
  <2> SUFFICES ASSUME NEW d \in Components, worker'[d] = "connecting"
               PROVE  answer'[d] = answer[d] /\ request'[d] = request[d]
    BY <1>9 DEF CallbackReturns
  <2> QED
    BY <1>9 DEF CallbackReturns, TypeOK
<1>10. CASE UNCHANGED vars
  BY <1>10 DEF vars
<1> QED
  BY <1>1, <1>2, <1>3, <1>4, <1>5, <1>6, <1>7, <1>8, <1>9, <1>10 DEF Next

\* Answers come with the query and leave with it.
LEMMA AnswerStep ==
  ASSUME WiringAssumption, TypeOK, WorkerServesQuery, NoStrayAnswer, [Next]_vars
  PROVE  NoStrayAnswer'
<1> USE WiringAssumption DEF slaveVars, NoStrayAnswer, TypeOK
<1>1. ASSUME NEW c \in Components, NEW r \in Requests, MethodCallback(c, r)
      PROVE  NoStrayAnswer'
  BY <1>1 DEF MethodCallback
<1>2. ASSUME NEW c \in Components, HandleWiring(c)
      PROVE  NoStrayAnswer'
  BY <1>2 DEF HandleWiring, Waiting
<1>3. ASSUME NEW c \in Components, ConnectSucceeds(c)
      PROVE  NoStrayAnswer'
  <2>1. request[c] # NoRequest
    BY <1>3 DEF ConnectSucceeds, WorkerServesQuery
  <2> QED
    BY <1>3, <2>1 DEF ConnectSucceeds
<1>4. ASSUME NEW c \in Components, CallbackReturns(c)
      PROVE  NoStrayAnswer'
  BY <1>4 DEF CallbackReturns
<1>5. CASE UNCHANGED <<request, answer>>
  BY <1>5
<1> QED
  BY <1>1, <1>2, <1>3, <1>4, <1>5 DEF Next, vars, AddBegins, ReAddBegins, AddInserts,
     ConnectBegins, ConnectFails

\* Lists and handlers stay in agreement, in whatever order clients enter.
LEMMA ListStep ==
  ASSUME WiringAssumption, TypeOK, ListedAtHome, NewcomerUnmanaged, PortsBelong, [Next]_vars
  PROVE  ListedAtHome' /\ NewcomerUnmanaged' /\ PortsBelong'
<1> USE WiringAssumption DEF slaveVars
<1>1. ASSUME NEW k \in Clients, NEW p \in PortNames, AddBegins(k, p)
      PROVE  ListedAtHome' /\ NewcomerUnmanaged' /\ PortsBelong'
  <2>1. ListedAtHome' /\ NewcomerUnmanaged'
    BY <1>1 DEF AddBegins, ListedAtHome, NewcomerUnmanaged
  <2>2. ASSUME NEW j \in Clients, managed[j] PROVE portName'[j] = portName[j]
    BY <1>1, <2>2 DEF AddBegins, TypeOK
  <2>3. PortsBelong'
    BY <1>1, <2>2, PortTypes DEF AddBegins, PortsBelong, AddedOnce
  <2> QED
    BY <2>1, <2>3
<1>2. ASSUME NEW k \in Clients, NEW p \in PortNames, ReAddBegins(k, p)
      PROVE  ListedAtHome' /\ NewcomerUnmanaged' /\ PortsBelong'
  <2> p \in Ports /\ Home[k] \in Components
    BY DEF Ports
  <2>1. ASSUME NEW c \in Components, NEW q \in Ports, ports'[c][q] # NoClient
        PROVE  ports'[c][q] = ports[c][q]
    BY <1>2, <2>1 DEF ReAddBegins, TypeOK
  <2>2. ListedAtHome'
    BY <2>1 DEF ListedAtHome
  <2>3. NewcomerUnmanaged'
    BY <1>2 DEF ReAddBegins, NewcomerUnmanaged, TypeOK
  <2>4. ASSUME NEW c \in Components, AddedOnce(c)
        PROVE  ports'[c] = ports[c]
    BY <1>2, <2>4 DEF ReAddBegins, AddedOnce, TypeOK
  <2>5. ASSUME NEW c \in Components, AddedOnce(c), NEW j \in Clients, Home[j] = c
        PROVE  managed'[j] = managed[j] /\ portName'[j] = portName[j]
    BY <1>2, <2>5 DEF ReAddBegins, AddedOnce, TypeOK
  <2>6. PortsBelong'
    BY <2>1, <2>2, <2>4, <2>5, PortTypes DEF PortsBelong, AddedOnce, ListedAtHome
  <2> QED
    BY <2>2, <2>3, <2>6
<1>3. ASSUME NEW k \in Clients, AddInserts(k)
      PROVE  ListedAtHome' /\ NewcomerUnmanaged' /\ PortsBelong'
  <2> DEFINE free == ports[Home[k]][portName[k]] = NoClient
  <2> Home[k] \in Components /\ portName[k] \in Ports /\ k # NoClient
    BY DEF TypeOK
  <2>1. /\ portName' = portName
        /\ managed' = [managed EXCEPT ![k] = free]
        /\ adding' = adding \ {k}
    BY <1>3 DEF AddInserts
  <2>2. ports' = IF free THEN [ports EXCEPT ![Home[k]][portName[k]] = k] ELSE ports
    BY <1>3 DEF AddInserts
  <2> HIDE DEF free
  <2>3. ASSUME NEW c \in Components, NEW q \in Ports
        PROVE  ports'[c][q] = IF free /\ c = Home[k] /\ q = portName[k] THEN k ELSE ports[c][q]
    BY <2>2 DEF TypeOK
  <2>4. ListedAtHome'
    BY <2>3 DEF ListedAtHome
  <2>5. NewcomerUnmanaged'
    BY <2>1 DEF NewcomerUnmanaged, TypeOK
  <2>6. ASSUME NEW c \in Components, AddedOnce(c), NEW j \in Clients, Home[j] = c, managed'[j]
        PROVE  ports'[c][portName[j]] = j
    <3>1. portName[j] \in Ports
      BY DEF TypeOK
    <3>2. CASE j = k
      <4>1. free
        BY <2>1, <2>6, <3>2 DEF TypeOK
      <4> QED
        BY <2>3, <2>6, <3>1, <3>2, <4>1
    <3>3. CASE j # k
      <4>1. managed[j] /\ ports[c][portName[j]] = j
        BY <2>1, <2>6, <3>3 DEF PortsBelong, TypeOK
      <4>2. ~ (free /\ c = Home[k] /\ portName[j] = portName[k])
        BY <4>1 DEF free
      <4> QED
        BY <2>3, <3>1, <4>1, <4>2
    <3> QED
      BY <3>2, <3>3
  <2>7. ASSUME NEW c \in Components, AddedOnce(c), NEW q \in Ports, ports'[c][q] # NoClient
        PROVE  managed'[ports'[c][q]] /\ portName[ports'[c][q]] = q
    <3>1. CASE free /\ c = Home[k] /\ q = portName[k]
      BY <2>1, <2>3, <3>1 DEF TypeOK
    <3>2. CASE ~ (free /\ c = Home[k] /\ q = portName[k])
      <4>1. ports'[c][q] = ports[c][q] /\ ports[c][q] \in Clients
        BY <2>3, <2>7, <3>2 DEF TypeOK
      <4>2. /\ Home[ports[c][q]] = c
            /\ managed[ports[c][q]]
            /\ portName[ports[c][q]] = q
        BY <2>7, <4>1 DEF PortsBelong
      <4>3. ports[c][q] # k
        <5> SUFFICES ASSUME ports[c][q] = k PROVE FALSE
          OBVIOUS
        <5>1. k \notin ReAdded
          BY <2>7, <4>2 DEF AddedOnce
        <5>2. ~ managed[k]
          BY <1>3, <5>1 DEF AddInserts, NewcomerUnmanaged
        <5> QED
          BY <4>2, <5>2
      <4> QED
        BY <2>1, <4>1, <4>2, <4>3 DEF TypeOK
    <3> QED
      BY <3>1, <3>2
  <2>8. PortsBelong'
    BY <2>1, <2>4, <2>6, <2>7 DEF PortsBelong, AddedOnce, ListedAtHome
  <2> QED
    BY <2>4, <2>5, <2>8
<1>4. CASE UNCHANGED <<ports, portName, managed, adding>>
  BY <1>4 DEF ListedAtHome, NewcomerUnmanaged, PortsBelong, AddedOnce
<1> QED
  BY <1>1, <1>2, <1>3, <1>4 DEF Next, vars, MethodCallback, HandleWiring, ConnectBegins,
     ConnectSucceeds, ConnectFails, CallbackReturns

\* The server of a component that connects a client is inside the callback.
LEMMA SelfStep ==
  ASSUME WiringAssumption, TypeOK, WorkerServesQuery, ListedAtHome, NeverWiredToSelf, [Next]_vars
  PROVE  NeverWiredToSelf'
<1>1. ASSUME NEW c \in Components, ConnectSucceeds(c)
      PROVE  NeverWiredToSelf'
  <2> DEFINE k == ports[c][request[c].port]
  <2>1. request[c] \in Requests /\ k # NoClient
    BY <1>1 DEF ConnectSucceeds, WorkerServesQuery
  <2>2. k \in Clients /\ Home[k] = c
    BY <2>1, PortTypes DEF ListedAtHome
  <2>3. request[c].server # c
    BY <1>1, <2>1 DEF ConnectSucceeds, Responds, WiringAssumption
  <2> QED
    BY <1>1, <2>2, <2>3 DEF ConnectSucceeds, NeverWiredToSelf, TypeOK
<1>2. CASE UNCHANGED connected
  BY <1>2 DEF NeverWiredToSelf
<1> QED
  BY <1>1, <1>2 DEF Next, vars, slaveVars, AddBegins, ReAddBegins, AddInserts, MethodCallback,
     HandleWiring, ConnectBegins, ConnectFails, CallbackReturns

\* Between the answer of the handler and the return of the callback nobody
\* changes the connection or the port.
LEMMA OkStep ==
  ASSUME WiringAssumption, TypeOK, WorkerServesQuery, NoStrayAnswer, ListedAtHome,
         OkMeansConnected, [Next]_vars
  PROVE  OkMeansConnected'
<1> USE WiringAssumption DEF slaveVars
<1> SUFFICES ASSUME NEW c \in Components, AddedOnce(c), request'[c] # NoRequest,
                    request'[c].command = "connect", answer'[c] = "OK"
             PROVE  /\ ports'[c][request'[c].port] # NoClient
                    /\ connected'[ports'[c][request'[c].port]] = request'[c].server
  BY DEF OkMeansConnected, AddedOnce
<1> DEFINE Before == request[c] = request'[c] /\ answer[c] = "OK"
<1>1. ASSUME Before
      PROVE  /\ request[c].port \in Ports
             /\ ports[c][request[c].port] \in Clients
             /\ Home[ports[c][request[c].port]] = c
             /\ connected[ports[c][request[c].port]] = request[c].server
  <2>1. ports[c][request[c].port] # NoClient
    BY <1>1 DEF OkMeansConnected
  <2>2. request[c] \in Requests
    BY <1>1 DEF TypeOK
  <2> QED
    BY <1>1, <2>1, <2>2, PortTypes DEF OkMeansConnected, ListedAtHome
<1>2. ASSUME Before, UNCHANGED <<ports, connected>>
      PROVE  /\ ports'[c][request'[c].port] # NoClient
             /\ connected'[ports'[c][request'[c].port]] = request'[c].server
  BY <1>1, <1>2
<1>3. ASSUME NEW k \in Clients, NEW p \in PortNames, ReAddBegins(k, p)
      PROVE  Before /\ connected' = connected /\ ports'[c] = ports[c]
  BY <1>3 DEF ReAddBegins, AddedOnce, TypeOK
<1>4. ASSUME NEW k \in Clients, AddInserts(k)
      PROVE  /\ Before /\ connected' = connected
             /\ ports'[c][request[c].port] = ports[c][request[c].port]
  <2>1. Before
    BY <1>4 DEF AddInserts
  <2> QED
    BY <1>1, <1>4, <2>1 DEF AddInserts, TypeOK
<1>5. ASSUME NEW d \in Components, NEW r \in Requests, MethodCallback(d, r)
      PROVE  Before /\ UNCHANGED <<ports, connected>>
  <2>1. CASE d = c
    BY <1>5, <2>1 DEF MethodCallback, NoStrayAnswer, Statuses
  <2>2. CASE d # c
    BY <1>5, <2>2 DEF MethodCallback, TypeOK
  <2> QED
    BY <2>1, <2>2
<1>6. ASSUME NEW d \in Components, HandleWiring(d)
      PROVE  Before /\ UNCHANGED <<ports, connected>>
  <2>1. CASE d = c
    BY <1>6, <2>1 DEF HandleWiring, TypeOK
  <2>2. CASE d # c
    BY <1>6, <2>2 DEF HandleWiring, TypeOK
  <2> QED
    BY <2>1, <2>2
<1>7. ASSUME NEW d \in Components, ConnectSucceeds(d)
      PROVE  /\ ports'[c][request'[c].port] # NoClient
             /\ connected'[ports'[c][request'[c].port]] = request'[c].server
  <2>1. /\ request[d] \in Requests
        /\ ports[d][request[d].port] \in Clients
        /\ Home[ports[d][request[d].port]] = d
    BY <1>7, PortTypes DEF ConnectSucceeds, WorkerServesQuery, ListedAtHome
  <2>2. CASE d = c
    BY <1>7, <2>1, <2>2 DEF ConnectSucceeds, TypeOK
  <2>3. CASE d # c
    <3>1. Before
      BY <1>7, <2>3 DEF ConnectSucceeds, TypeOK
    <3>2. ports[c][request[c].port] # ports[d][request[d].port]
      BY <1>1, <2>1, <2>3, <3>1
    <3> QED
      BY <1>1, <1>7, <2>1, <3>1, <3>2 DEF ConnectSucceeds, TypeOK
  <2> QED
    BY <2>2, <2>3
<1>8. ASSUME NEW d \in Components, CallbackReturns(d)
      PROVE  Before /\ UNCHANGED <<ports, connected>>
  BY <1>8 DEF CallbackReturns, TypeOK, Statuses
<1> QED
  <2>1. ASSUME NEW k \in Clients, NEW p \in PortNames, AddBegins(k, p)
        PROVE  Before /\ UNCHANGED <<ports, connected>>
    BY <2>1 DEF AddBegins
  <2>2. ASSUME NEW d \in Components, ConnectBegins(d)
        PROVE  Before /\ UNCHANGED <<ports, connected>>
    BY <2>2 DEF ConnectBegins
  <2>3. ASSUME NEW d \in Components, ConnectFails(d)
        PROVE  Before /\ UNCHANGED <<ports, connected>>
    BY <2>3 DEF ConnectFails
  <2>4. ASSUME UNCHANGED vars
        PROVE  Before /\ UNCHANGED <<ports, connected>>
    BY <2>4 DEF vars
  <2>5. CASE \E k \in Clients : \E p \in PortNames : ReAddBegins(k, p)
    BY <1>1, <1>3, <2>5
  <2>6. CASE \E k \in Clients : AddInserts(k)
    BY <1>1, <1>4, <2>6
  <2> HIDE DEF Before
  <2> QED
    BY <1>2, <1>5, <1>6, <1>7, <1>8, <2>1, <2>2, <2>3, <2>4, <2>5, <2>6 DEF Next

\* The inductive invariant.
LEMMA InvHolds == Spec => []Inv
<1>1. Init => Inv
  BY WiringAssumption DEF Init, Inv, TypeOK, WorkerServesQuery, NoStrayAnswer, ListedAtHome,
     NewcomerUnmanaged, PortsBelong, AddedOnce, NeverWiredToSelf, OkMeansConnected, Ports
<1>2. TypeOK /\ TypeOK' /\ Inv /\ [Next]_vars => Inv'
  BY WiringAssumption, WorkerStep, AnswerStep, ListStep, SelfStep, OkStep DEF Inv
<1> QED
  BY <1>1, <1>2, TypeCorrect, PTL DEF Spec

\* The handlers of a component whose clients are added once agree with its port
\* list: WiringHandler::m_portIsManged is true exactly for the client
\* WiringSlave::handleWiring finds under the name.
THEOREM PortsBelongAlways == Spec => []PortsBelong
<1>1. Inv => PortsBelong
  BY DEF Inv
<1> QED
  BY <1>1, InvHolds, PTL

\* However components, clients and masters interleave, handleWiring never
\* connects a client to the server of its own component.
THEOREM NeverWiredToSelfAlways == Spec => []NeverWiredToSelf
<1>1. Inv => NeverWiredToSelf
  BY DEF Inv
<1> QED
  BY <1>1, InvHolds, PTL

\* SMART_OK in the answer to a connect command is true when the method callback
\* returns it.
THEOREM OkMeansConnectedAlways == Spec => []OkMeansConnected
<1>1. Inv => OkMeansConnected
  BY DEF Inv
<1> QED
  BY <1>1, InvHolds, PTL
=============================================================================
