-------------------------------- MODULE Wiring --------------------------------
(***************************************************************************)
(* The wiring pattern: a master tells the wiring slave of a component, by  *)
(* a query, to connect one of the component's clients to a server.  The    *)
(* module composes WiringHandler and SendClient::add (a client enters the  *)
(* port list), WiringSlave (the port list and the commands), QueryServer   *)
(* (the method callback that waits for the answer) and the thread of       *)
(* ThreadQueueQueryHandler that works the commands off.                    *)
(*                                                                         *)
(* The method callback runs in the thread of the component's OPC UA server *)
(* and spins there until the answer is in the map.  So a component takes   *)
(* one query at a time, its queue holds no more than that one, and while   *)
(* it is at work nobody can connect to the component's server.             *)
(*                                                                         *)
(* An attempt to connect to a server that does not answer may go on as     *)
(* long as the server is silent (the search for its URL is repeated), or   *)
(* ends the process (NamingService: the background thread is destroyed     *)
(* joinable, and errors of the search leave the handler's thread).         *)
(***************************************************************************)
EXTENDS Integers

CONSTANTS
  Components,    \* each has one OPC UA server and one wiring slave
  Clients,       \* the send clients of the components
  Home,          \* the component of a client
  PortNames,     \* the names clients are added under
  Requests,      \* the commands masters send
  NoClient,      \* a port that is not in the list
  NoRequest,     \* the server thread is not in the callback
  NoAnswer,      \* no answer in the map
  NoServer,      \* a client that was never connected
  ReAdded        \* the clients that are added again when they have a port

\* The name of a handler that has no port, a key of the list like any other.
NoPort == ""

Ports == PortNames \cup {NoPort}

Statuses == {"OK", "UNKNOWNPORT", "ERROR"}

ASSUME WiringAssumption ==
  /\ Home \in [Clients -> Components]
  /\ NoPort \notin PortNames
  /\ Requests \subseteq [command : {"connect", "disconnect", "other"},
                         port : PortNames, server : Components]
  /\ NoClient \notin Clients
  /\ NoRequest \notin Requests
  /\ NoAnswer \notin Statuses
  /\ NoServer \notin Components
  /\ ReAdded \subseteq Clients

VARIABLES
  ports,       \* WiringSlave::ports: the client of a port
  portName,    \* WiringHandler::m_portName
  managed,     \* WiringHandler::m_portIsManged
  adding,      \* the clients inside WiringHandler::add
  connected,   \* the server a client is connected to
  request,     \* the query the server thread waits for
  worker,      \* the handler thread: "idle" or, with the slave's mutex, "connecting"
  answer,      \* QueryServer::m_answers, which never has more than one entry
  running      \* the processes that have not ended

vars == <<ports, portName, managed, adding, connected, request, worker, answer, running>>

slaveVars == <<request, worker, answer, running>>

Init ==
  /\ ports = [c \in Components |-> [p \in Ports |-> NoClient]]
  /\ portName = [k \in Clients |-> NoPort]
  /\ managed = [k \in Clients |-> FALSE]
  /\ adding = {}
  /\ connected = [k \in Clients |-> NoServer]
  /\ request = [c \in Components |-> NoRequest]
  /\ worker = [c \in Components |-> "idle"]
  /\ answer = [c \in Components |-> NoAnswer]
  /\ running = Components

-----------------------------------------------------------------------------
(* The port list *)

\* The slave's mutex is free: handleWiring keeps it while a client connects.
SlaveFree(c) == worker[c] = "idle"

\* WiringHandler::add with a port that is not managed: the name is set, and
\* remove() has nothing to do.
AddBegins(k, p) ==
  /\ Home[k] \in running
  /\ k \notin adding
  /\ ~ managed[k]
  /\ portName' = [portName EXCEPT ![k] = p]
  /\ adding' = adding \cup {k}
  /\ UNCHANGED <<ports, managed, connected, slaveVars>>

\* WiringHandler::add of a client that has a port: the new name replaces the
\* old one, and remove() takes the port of the new name off the list,
\* whoever has it.  If there was one, the name is cleared.
ReAddBegins(k, p) ==
  /\ k \in ReAdded
  /\ Home[k] \in running
  /\ k \notin adding
  /\ managed[k]
  /\ SlaveFree(Home[k])
  /\ ports' = [ports EXCEPT ![Home[k]][p] = NoClient]
  /\ portName' = [portName EXCEPT ![k] = IF ports[Home[k]][p] = NoClient THEN p ELSE NoPort]
  /\ managed' = [managed EXCEPT ![k] = ports[Home[k]][p] = NoClient]
  /\ adding' = adding \cup {k}
  /\ UNCHANGED <<connected, slaveVars>>

\* Mutant: the slave assigns the port instead of inserting it.
AddInsertsOverwrites(k) ==
  /\ Home[k] \in running
  /\ k \in adding
  /\ SlaveFree(Home[k])
  /\ ports' = [ports EXCEPT ![Home[k]][portName[k]] = k]
  /\ managed' = [managed EXCEPT ![k] = TRUE]
  /\ adding' = adding \ {k}
  /\ UNCHANGED <<portName, connected, slaveVars>>

\* WiringSlave::add inserts the client unless the port is in the list; the
\* handler keeps whether it was (SMART_OK or SMART_PORTALREADYUSED).
AddInserts(k) ==
  /\ Home[k] \in running
  /\ k \in adding
  /\ SlaveFree(Home[k])
  /\ LET c == Home[k]
         free == ports[c][portName[k]] = NoClient
     IN  /\ ports' = IF free THEN [ports EXCEPT ![c][portName[k]] = k] ELSE ports
         /\ managed' = [managed EXCEPT ![k] = free]
  /\ adding' = adding \ {k}
  /\ UNCHANGED <<portName, connected, slaveVars>>

-----------------------------------------------------------------------------
(* The commands of a master *)

\* A query arrives: the method callback hands it to the handler's thread and
\* spins.  While it does, the server takes no other query.
MethodCallback(c, r) ==
  /\ c \in running
  /\ request[c] = NoRequest
  /\ request' = [request EXCEPT ![c] = r]
  /\ UNCHANGED <<ports, portName, managed, adding, connected, worker, answer, running>>

\* The query the handler's thread can take from its queue.
Waiting(c) ==
  /\ c \in running
  /\ request[c] # NoRequest
  /\ answer[c] = NoAnswer
  /\ worker[c] = "idle"

\* Mutants: SMART_OK for an unknown port; no answer to an unknown command.
HandleWiringOkUnknown(c) ==
  /\ Waiting(c)
  /\ request[c].command # "connect" \/ ports[c][request[c].port] = NoClient
  /\ answer' = [answer EXCEPT ![c] = "OK"]
  /\ UNCHANGED <<ports, portName, managed, adding, connected, request, worker, running>>

HandleWiringSilent(c) ==
  /\ Waiting(c)
  /\ request[c].command # "other" /\ ports[c][request[c].port] = NoClient
  /\ answer' = [answer EXCEPT ![c] = "UNKNOWNPORT"]
  /\ UNCHANGED <<ports, portName, managed, adding, connected, request, worker, running>>

\* handleWiring: a command that is answered at once, for an unknown port, an
\* unknown command, or disconnect, which SendClient answers without doing it.
HandleWiring(c) ==
  /\ Waiting(c)
  /\ LET r == request[c]
         known == ports[c][r.port] # NoClient
     IN  \/ /\ r.command = "other"
            /\ answer' = [answer EXCEPT ![c] = "ERROR"]
         \/ /\ r.command # "other" /\ ~ known
            /\ answer' = [answer EXCEPT ![c] = "UNKNOWNPORT"]
         \/ /\ r.command = "disconnect" /\ known
            /\ answer' = [answer EXCEPT ![c] = "OK"]
  /\ UNCHANGED <<ports, portName, managed, adding, connected, request, worker, running>>

\* handleWiring calls the connect function of a known port, with the mutex.
ConnectBegins(c) ==
  /\ Waiting(c)
  /\ request[c].command = "connect"
  /\ ports[c][request[c].port] # NoClient
  /\ worker' = [worker EXCEPT ![c] = "connecting"]
  /\ UNCHANGED <<ports, portName, managed, adding, connected, request, answer, running>>

\* Mutant: the server thread goes on serving while a query is worked off.
RespondsAlways(s) == s \in running

\* A server answers while its thread is not in a method callback.
Responds(s) == s \in running /\ request[s] = NoRequest

\* SendClient::connect to a server that responds.
ConnectSucceeds(c) ==
  /\ c \in running
  /\ worker[c] = "connecting"
  /\ Responds(request[c].server)
  /\ connected' = [connected EXCEPT ![ports[c][request[c].port]] = request[c].server]
  /\ answer' = [answer EXCEPT ![c] = "OK"]
  /\ worker' = [worker EXCEPT ![c] = "idle"]
  /\ UNCHANGED <<ports, portName, managed, adding, request, running>>

\* All attempts to connect fail, or the search throws: the process ends.
ConnectFails(c) ==
  /\ c \in running
  /\ worker[c] = "connecting"
  /\ ~ Responds(request[c].server)
  /\ running' = running \ {c}
  /\ UNCHANGED <<ports, portName, managed, adding, connected, request, worker, answer>>

\* The method callback finds the answer, removes it and returns it.
CallbackReturns(c) ==
  /\ c \in running
  /\ request[c] # NoRequest
  /\ answer[c] # NoAnswer
  /\ request' = [request EXCEPT ![c] = NoRequest]
  /\ answer' = [answer EXCEPT ![c] = NoAnswer]
  /\ UNCHANGED <<ports, portName, managed, adding, connected, worker, running>>

-----------------------------------------------------------------------------
Next ==
  \/ \E k \in Clients :
       \/ \E p \in PortNames : AddBegins(k, p) \/ ReAddBegins(k, p)
       \/ AddInserts(k)
  \/ \E c \in Components :
       \/ \E r \in Requests : MethodCallback(c, r)
       \/ HandleWiring(c)
       \/ ConnectBegins(c)
       \/ ConnectSucceeds(c)
       \/ ConnectFails(c)
       \/ CallbackReturns(c)

Spec == Init /\ [][Next]_vars

\* The handler's thread and the spinning server thread are scheduled. Nothing
\* ends the search for a server that does not respond.
Fairness ==
  \A c \in Components :
    /\ WF_vars(HandleWiring(c) \/ ConnectBegins(c))
    /\ WF_vars(ConnectSucceeds(c))
    /\ WF_vars(CallbackReturns(c))

FairSpec == Spec /\ Fairness

-----------------------------------------------------------------------------
(* Properties *)

\* Type correctness of the port lists, the handlers and the query in work.
TypeOK ==
  /\ ports \in [Components -> [Ports -> Clients \cup {NoClient}]]
  /\ portName \in [Clients -> Ports]
  /\ managed \in [Clients -> BOOLEAN]
  /\ adding \subseteq Clients
  /\ connected \in [Clients -> Components \cup {NoServer}]
  /\ request \in [Components -> Requests \cup {NoRequest}]
  /\ worker \in [Components -> {"idle", "connecting"}]
  /\ answer \in [Components -> Statuses \cup {NoAnswer}]
  /\ running \subseteq Components

\* A component none of whose clients is added again.
AddedOnce(c) == \A k \in ReAdded : Home[k] # c

\* What the handlers of such a component believe is what its slave has: a
\* client manages a port exactly when it is listed under that name, and no
\* client is listed under any other name or in another component.
PortsBelong ==
  \A c \in Components :
    /\ \A p \in Ports : ports[c][p] # NoClient => Home[ports[c][p]] = c
    /\ AddedOnce(c) =>
         /\ \A k \in Clients :
              Home[k] = c /\ managed[k] => ports[c][portName[k]] = k
         /\ \A p \in Ports :
              ports[c][p] # NoClient =>
                managed[ports[c][p]] /\ portName[ports[c][p]] = p

\* A wiring command cannot connect a client to a service of its own
\* component: the server that would have to answer spins for this command.
NeverWiredToSelf == \A k \in Clients : connected[k] # Home[k]

\* An answer SMART_OK to "connect" means that the client of that port is
\* connected to the server of the command (in a component none of whose
\* clients is added again, which can take the port away in between).
OkMeansConnected ==
  \A c \in Components :
    ( /\ AddedOnce(c)
      /\ request[c] # NoRequest
      /\ request[c].command = "connect"
      /\ answer[c] = "OK" ) =>
      /\ ports[c][request[c].port] # NoClient
      /\ connected[ports[c][request[c].port]] = request[c].server

\* The command being worked off needs a server that does not respond.
Starved(c) == worker[c] = "connecting" /\ ~ Responds(request[c].server)

\* Every query is answered or the process has ended, also with several
\* components wired at once: only a connect to a server that is itself busy
\* with a query, such as the own one, holds the answer back.
QueryAnswered ==
  \A c \in Components :
    request[c] # NoRequest ~> request[c] = NoRequest \/ c \notin running \/ Starved(c)

=============================================================================
