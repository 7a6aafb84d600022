---------------------------- MODULE NamingService ----------------------------
(***************************************************************************)
(* NamingServiceOpcUa and the part of OpcUaServer it relies on: how a      *)
(* client gets the connection to a server of a given name, and how the     *)
(* connection ends with its last user.                                     *)
(*                                                                         *)
(* The users are the threads that ask one naming service for connections   *)
(* or hold a share of them. A connection has a background thread; the      *)
(* cache has an entry for every name, which owns the object of this        *)
(* thread. The unique_locks of the naming service are made without their   *)
(* mutex: nothing keeps two users apart, and steps of theirs interleave as *)
(* written here. Where the C++ program would call std::terminate, use an   *)
(* invalid iterator or leave a thread behind with destroyed objects, the   *)
(* model ends with terminated. overlapped and refused are history.         *)
(***************************************************************************)
EXTENDS Integers

CONSTANTS
  Users,        \* threads that use the naming service
  Names,        \* names of servers
  OwnName,      \* the server of the own component
  MaxConns,     \* bound on the connections made
  Retries,      \* attempts of the background thread to connect (10 in the code)
  MaxUrls       \* bound on the URLs a server has one after the other

ASSUME NamingAssumption ==
  /\ MaxConns \in Nat
  /\ Retries \in Nat \ {0}
  /\ MaxUrls \in Nat
  /\ OwnName \in Names

Conns == 1 .. MaxConns

VARIABLES
  isRunning,    \* m_isRunning
  knownServer,  \* m_foundServer
  url,          \* URL at which every server can be reached, 0: not at all
  urls,         \* number of URLs it had so far
  serverUrl,    \* m_serverUrl, 0: no entry
  cache,        \* m_connectionCache, 0: no entry
  made,         \* connections made so far
  worker,       \* their background threads
  tries,        \* attempts to connect left to them
  pRun,         \* their flags *pRun
  target,       \* the URLs they connect to
  of,           \* the names their deleters look for in the cache
  pc,           \* where every user is
  name,         \* the name it has asked for, or of the connection it deletes
  conn,         \* the connection it is given, or deletes, 0: none
  holds,        \* the connection it keeps, 0: none
  victim,       \* the connection whose cache entry the deleter has found
  terminated,   \* the process has ended by a fault
  overlapped,   \* two users were in the naming service at the same time
  refused       \* a server was not reached by any of the attempts

serverVars == <<isRunning, knownServer, url, urls>>
connVars == <<made, worker, tries, pRun, target, of>>
userVars == <<pc, name, conn, holds, victim>>
vars == <<serverVars, serverUrl, cache, connVars, userVars, terminated, overlapped, refused>>

-----------------------------------------------------------------------------
(* OpcUaServer and the other servers in the network.                       *)

\* run() of the own server begins; its loop ends some time after stopRunning().
Run ==
  /\ ~ terminated
  /\ isRunning' = TRUE
  /\ UNCHANGED <<knownServer, url, urls, serverUrl, cache, connVars, userVars,
                 terminated, overlapped, refused>>

StopRunning ==
  /\ ~ terminated
  /\ isRunning' = FALSE
  /\ UNCHANGED <<knownServer, url, urls, serverUrl, cache, connVars, userVars,
                 terminated, overlapped, refused>>

\* serverOnNetworkCallback(): a server announces itself and has its TXT record received.
ServerOnNetwork(n) ==
  /\ ~ terminated
  /\ isRunning
  /\ url[n] # 0
  /\ knownServer' = knownServer \cup {n}
  /\ UNCHANGED <<isRunning, url, urls, serverUrl, cache, connVars, userVars,
                 terminated, overlapped, refused>>

\* The server n is started, with a port of its own choice.
ServerStarts(n) ==
  /\ url[n] = 0
  /\ urls[n] < MaxUrls
  /\ urls' = [urls EXCEPT ![n] = @ + 1]
  /\ url' = [url EXCEPT ![n] = urls[n] + 1]
  /\ UNCHANGED <<isRunning, knownServer, serverUrl, cache, connVars, userVars,
                 terminated, overlapped, refused>>

ServerStops(n) ==
  /\ url[n] # 0
  /\ url' = [url EXCEPT ![n] = 0]
  /\ UNCHANGED <<isRunning, knownServer, urls, serverUrl, cache, connVars, userVars,
                 terminated, overlapped, refused>>

-----------------------------------------------------------------------------
(* getConnectionAndNodeIdByName().                                         *)

\* What u has a share of.
Shares(u) == {holds[u]} \cup (IF pc[u] \in {"waiting", "reading"} THEN {conn[u]} ELSE {})

\* Nobody but u has a share of c.
LastShare(u, c) == \A v \in Users \ {u} : c \notin Shares(v)

\* Another user is between entry and return.
Overlap(u) == \E v \in Users \ {u} : pc[v] # "idle"

Goto(u, label) == pc' = [pc EXCEPT ![u] = label]

\* The entry of an expired connection is dropped: the destructor of its thread object
\* terminates the program unless the thread has been joined.
DropExpired(n) ==
  \/ /\ worker[cache[n]] # "joined"
     /\ terminated' = TRUE
     /\ UNCHANGED cache
  \/ /\ worker[cache[n]] = "joined"
     /\ cache' = [cache EXCEPT ![n] = 0]
     /\ UNCHANGED terminated

Alive(c) == \E v \in Users : c \in Shares(v)

\* Mutant of Lookup: the cache is not consulted.
LookupSkipped(u, n) ==
  /\ Goto(u, IF serverUrl[n] # 0 THEN "creating" ELSE "awaiting")
  /\ UNCHANGED <<conn, cache, terminated>>

\* The cached connection is used if somebody still has a share of it.
Lookup(u, n) ==
  \/ /\ cache[n] # 0 /\ Alive(cache[n])
     /\ conn' = [conn EXCEPT ![u] = cache[n]]
     /\ Goto(u, "reading")
     /\ UNCHANGED <<cache, terminated>>
  \/ /\ cache[n] # 0 /\ ~ Alive(cache[n])
     /\ DropExpired(n)
     /\ Goto(u, IF serverUrl[n] # 0 THEN "creating" ELSE "awaiting")
     /\ UNCHANGED conn
  \/ /\ cache[n] = 0
     /\ Goto(u, IF serverUrl[n] # 0 THEN "creating" ELSE "awaiting")
     /\ UNCHANGED <<conn, cache, terminated>>

GetConnection(u, n) ==
  /\ ~ terminated
  /\ pc[u] = "idle"
  /\ name' = [name EXCEPT ![u] = n]
  /\ Lookup(u, n)
  /\ overlapped' = (overlapped \/ Overlap(u))
  /\ UNCHANGED <<serverVars, serverUrl, connVars, holds, victim, refused>>

\* findServerUrlByServerName() waits for the server of its own component.
OwnServerRuns(u) ==
  /\ ~ terminated
  /\ pc[u] = "awaiting"
  /\ isRunning
  /\ Goto(u, "searching")
  /\ UNCHANGED <<serverVars, serverUrl, cache, connVars, name, conn, holds, victim,
                 terminated, overlapped, refused>>

\* A known server has n registered, and n answers.
Findable(n) == n \in knownServer /\ url[n] # 0

\* Then it asks the known servers until one of them has found the name, and keeps the URL.
FindServerUrl(u) ==
  /\ ~ terminated
  /\ pc[u] = "searching"
  /\ Findable(name[u])
  /\ serverUrl' = [serverUrl EXCEPT ![name[u]] = IF @ = 0 THEN url[name[u]] ELSE @]
  /\ Goto(u, "creating")
  /\ UNCHANGED <<serverVars, cache, connVars, name, conn, holds, victim,
                 terminated, overlapped, refused>>

\* An error other than an unreachable server is passed on to the caller.
FindServerThrows(u) ==
  /\ ~ terminated
  /\ pc[u] = "searching"
  /\ name[u] \in knownServer
  /\ Goto(u, "idle")
  /\ UNCHANGED <<serverVars, serverUrl, cache, connVars, name, conn, holds, victim,
                 terminated, overlapped, refused>>

\* The connection is made and its background thread started.
StartBackgroundTask(u) ==
  /\ ~ terminated
  /\ pc[u] = "creating"
  /\ made < MaxConns
  /\ made' = made + 1
  /\ worker' = [worker EXCEPT ![made + 1] = "connecting"]
  /\ tries' = [tries EXCEPT ![made + 1] = Retries]
  /\ pRun' = [pRun EXCEPT ![made + 1] = TRUE]
  /\ target' = [target EXCEPT ![made + 1] = serverUrl[name[u]]]
  /\ of' = [of EXCEPT ![made + 1] = name[u]]
  /\ conn' = [conn EXCEPT ![u] = made + 1]
  /\ Goto(u, "waiting")
  /\ UNCHANGED <<serverVars, serverUrl, cache, name, holds, victim,
                 terminated, overlapped, refused>>

\* There is no client: the object of the background thread is destroyed without a join.
NoClient(u) ==
  /\ ~ terminated
  /\ pc[u] = "waiting"
  /\ worker[conn[u]] = "failed"
  /\ terminated' = TRUE
  /\ UNCHANGED <<serverVars, serverUrl, cache, connVars, userVars, overlapped, refused>>

\* The connection gets into the cache. An entry somebody made meanwhile is kept, and the
\* object of the new background thread destroyed without a join.
InsertConnection(u) ==
  /\ ~ terminated
  /\ pc[u] = "waiting"
  /\ worker[conn[u]] = "running"
  /\ \/ /\ cache[name[u]] = 0
        /\ cache' = [cache EXCEPT ![name[u]] = conn[u]]
        /\ Goto(u, "reading")
        /\ UNCHANGED terminated
     \/ /\ cache[name[u]] # 0
        /\ terminated' = TRUE
        /\ UNCHANGED <<cache, pc>>
  /\ UNCHANGED <<serverVars, serverUrl, connVars, name, conn, holds, victim, overlapped, refused>>

\* A share of c is given away; the last one calls the deleter.
Release(u, c) ==
  /\ conn' = [conn EXCEPT ![u] = c]
  /\ name' = [name EXCEPT ![u] = of[c]]
  /\ Goto(u, IF LastShare(u, c) THEN "deleting" ELSE "idle")

\* getNsIndexFromServer() has read the index; the client replaces its former connection.
ReadNsIndex(u) ==
  /\ ~ terminated
  /\ pc[u] = "reading"
  /\ holds' = [holds EXCEPT ![u] = conn[u]]
  /\ \/ /\ holds[u] \in {0, conn[u]}
        /\ Goto(u, "idle")
        /\ UNCHANGED <<conn, name>>
     \/ /\ holds[u] \notin {0, conn[u]}
        /\ Release(u, holds[u])
  /\ UNCHANGED <<serverVars, serverUrl, cache, connVars, victim, terminated, overlapped, refused>>

\* Reading the index fails: the exception gives the new share away.
ReadNsIndexThrows(u) ==
  /\ ~ terminated
  /\ pc[u] = "reading"
  /\ \/ /\ holds[u] = conn[u]
        /\ Goto(u, "idle")
        /\ UNCHANGED <<conn, name>>
     \/ /\ holds[u] # conn[u]
        /\ Release(u, conn[u])
  /\ UNCHANGED <<serverVars, serverUrl, cache, connVars, holds, victim,
                 terminated, overlapped, refused>>

-----------------------------------------------------------------------------
(* The end of a connection.                                                *)

\* Mutant of Disconnect: the connection is ended whoever else has a share of it.
DisconnectEndsConnection(u) ==
  /\ ~ terminated
  /\ pc[u] = "idle"
  /\ holds[u] # 0
  /\ holds' = [holds EXCEPT ![u] = 0]
  /\ conn' = [conn EXCEPT ![u] = holds[u]]
  /\ name' = [name EXCEPT ![u] = of[holds[u]]]
  /\ Goto(u, "deleting")
  /\ UNCHANGED <<serverVars, serverUrl, cache, connVars, victim, terminated, overlapped, refused>>

\* The client or the subscription of u gives its connection away.
Disconnect(u) ==
  /\ ~ terminated
  /\ pc[u] = "idle"
  /\ holds[u] # 0
  /\ holds' = [holds EXCEPT ![u] = 0]
  /\ Release(u, holds[u])
  /\ overlapped' = (overlapped \/ (LastShare(u, holds[u]) /\ Overlap(u)))
  /\ UNCHANGED <<serverVars, serverUrl, cache, connVars, victim, terminated, refused>>

\* Mutant of StopBackgroundTask: the flag stays set.
StopBackgroundTaskForgotten(u) ==
  /\ ~ terminated
  /\ pc[u] = "deleting"
  /\ cache[name[u]] # 0
  /\ victim' = [victim EXCEPT ![u] = cache[name[u]]]
  /\ Goto(u, "joining")
  /\ UNCHANGED <<serverVars, serverUrl, cache, connVars, name, conn, holds,
                 terminated, overlapped, refused>>

\* clientWithMutexDeletedCallback() takes the entry under the name for the one of its
\* connection; without an entry it erases the end of the map.
StopBackgroundTask(u) ==
  /\ ~ terminated
  /\ pc[u] = "deleting"
  /\ victim' = [victim EXCEPT ![u] = cache[name[u]]]
  /\ \/ /\ cache[name[u]] # 0
        /\ pRun' = [pRun EXCEPT ![cache[name[u]]] = FALSE]
        /\ Goto(u, "joining")
        /\ UNCHANGED terminated
     \/ /\ cache[name[u]] = 0
        /\ terminated' = TRUE
        /\ UNCHANGED <<pRun, pc>>
  /\ UNCHANGED <<serverVars, serverUrl, cache, made, worker, tries, target, of, name, conn, holds,
                 overlapped, refused>>

JoinBackgroundTask(u) ==
  /\ ~ terminated
  /\ pc[u] = "joining"
  /\ worker[victim[u]] \in {"ended", "joined"}
  /\ worker' = [worker EXCEPT ![victim[u]] = "joined"]
  /\ Goto(u, "erasing")
  /\ UNCHANGED <<serverVars, serverUrl, cache, made, tries, pRun, target, of, name, conn, holds,
                 victim, terminated, overlapped, refused>>

\* Mutant of EraseConnection: the entry stays in the cache.
EraseConnectionKeepsEntry(u) ==
  /\ ~ terminated
  /\ pc[u] = "erasing"
  /\ Goto(u, "idle")
  /\ UNCHANGED <<serverVars, serverUrl, cache, connVars, name, conn, holds, victim,
                 terminated, overlapped, refused>>

\* The entry is erased and the connection destroyed, which must not have a background
\* thread any more.
EraseConnection(u) ==
  /\ ~ terminated
  /\ pc[u] = "erasing"
  /\ \/ /\ cache[name[u]] = victim[u] /\ worker[conn[u]] = "joined"
        /\ cache' = [cache EXCEPT ![name[u]] = 0]
        /\ Goto(u, "idle")
        /\ UNCHANGED terminated
     \/ /\ cache[name[u]] # victim[u] \/ worker[conn[u]] # "joined"
        /\ terminated' = TRUE
        /\ UNCHANGED <<cache, pc>>
  /\ UNCHANGED <<serverVars, serverUrl, connVars, name, conn, holds, victim, overlapped, refused>>

-----------------------------------------------------------------------------
(* opcUaBackgroundTask().                                                  *)

\* The server is reached; the promise is set and the loop begins.
ConnectSucceeds(c) ==
  /\ ~ terminated
  /\ worker[c] = "connecting"
  /\ url[of[c]] = target[c]
  /\ worker' = [worker EXCEPT ![c] = "running"]
  /\ UNCHANGED <<serverVars, serverUrl, cache, made, tries, pRun, target, of, userVars,
                 terminated, overlapped, refused>>

\* An attempt fails; after the last one the promise is set to null.
ConnectFails(c) ==
  /\ ~ terminated
  /\ worker[c] = "connecting"
  /\ tries' = [tries EXCEPT ![c] = @ - 1]
  /\ worker' = [worker EXCEPT ![c] = IF tries[c] = 1 THEN "failed" ELSE @]
  /\ refused' = (refused \/ tries[c] = 1)
  /\ UNCHANGED <<serverVars, serverUrl, cache, made, pRun, target, of, userVars,
                 terminated, overlapped>>

\* The loop finds its flag cleared.
BackgroundTaskEnds(c) ==
  /\ ~ terminated
  /\ worker[c] = "running"
  /\ ~ pRun[c]
  /\ worker' = [worker EXCEPT ![c] = "ended"]
  /\ UNCHANGED <<serverVars, serverUrl, cache, made, tries, pRun, target, of, userVars,
                 terminated, overlapped, refused>>

-----------------------------------------------------------------------------
Init ==
  /\ isRunning = FALSE
  /\ knownServer = {OwnName}
  /\ url = [n \in Names |-> 0]
  /\ urls = [n \in Names |-> 0]
  /\ serverUrl = [n \in Names |-> 0]
  /\ cache = [n \in Names |-> 0]
  /\ made = 0
  /\ worker = [c \in Conns |-> "none"]
  /\ tries = [c \in Conns |-> 0]
  /\ pRun = [c \in Conns |-> FALSE]
  /\ target = [c \in Conns |-> 0]
  /\ of = [c \in Conns |-> OwnName]
  /\ pc = [u \in Users |-> "idle"]
  /\ name = [u \in Users |-> OwnName]
  /\ conn = [u \in Users |-> 0]
  /\ holds = [u \in Users |-> 0]
  /\ victim = [u \in Users |-> 0]
  /\ terminated = FALSE
  /\ overlapped = FALSE
  /\ refused = FALSE

ServerStep == Run \/ StopRunning
NetworkStep(n) == ServerOnNetwork(n) \/ ServerStarts(n) \/ ServerStops(n)
WorkerStep(c) == ConnectSucceeds(c) \/ ConnectFails(c) \/ BackgroundTaskEnds(c)

\* The steps of a user that has entered the naming service.
Proceed(u) ==
  \/ OwnServerRuns(u)
  \/ FindServerUrl(u)
  \/ FindServerThrows(u)
  \/ StartBackgroundTask(u)
  \/ NoClient(u)
  \/ InsertConnection(u)
  \/ ReadNsIndex(u)
  \/ ReadNsIndexThrows(u)
  \/ StopBackgroundTask(u)
  \/ JoinBackgroundTask(u)
  \/ EraseConnection(u)

Next ==
  \/ ServerStep
  \/ \E n \in Names : NetworkStep(n) \/ (\E u \in Users : GetConnection(u, n))
  \/ \E u \in Users : Disconnect(u) \/ Proceed(u)
  \/ \E c \in Conns : WorkerStep(c)

Spec == Init /\ [][Next]_vars

\* The threads of the users and of the connections keep running.
FairSpec ==
  /\ Spec
  /\ \A u \in Users : WF_vars(Proceed(u))
  /\ \A c \in Conns : WF_vars(WorkerStep(c))

-----------------------------------------------------------------------------
(* Properties.                                                             *)

\* Type correctness.
TypeOK ==
  /\ isRunning \in BOOLEAN
  /\ knownServer \subseteq Names
  /\ url \in [Names -> 0 .. MaxUrls]
  /\ urls \in [Names -> 0 .. MaxUrls]
  /\ serverUrl \in [Names -> 0 .. MaxUrls]
  /\ cache \in [Names -> 0 .. made]
  /\ made \in 0 .. MaxConns
  /\ worker \in [Conns -> {"none", "connecting", "failed", "running", "ended", "joined"}]
  /\ tries \in [Conns -> 0 .. Retries]
  /\ pRun \in [Conns -> BOOLEAN]
  /\ target \in [Conns -> 0 .. MaxUrls]
  /\ of \in [Conns -> Names]
  /\ pc \in [Users -> {"idle", "awaiting", "searching", "creating", "waiting", "reading",
                      "deleting", "joining", "erasing"}]
  /\ name \in [Users -> Names]
  /\ conn \in [Users -> 0 .. made]
  /\ holds \in [Users -> 0 .. made]
  /\ victim \in [Users -> 0 .. made]
  /\ terminated \in BOOLEAN
  /\ overlapped \in BOOLEAN
  /\ refused \in BOOLEAN

\* A connection somebody holds is the one in the cache under its name, so that all users of
\* a server share it, and its background thread runs: another user that gives its share
\* away, or whose connect() fails, does not stop it.
HeldIsServed ==
  \A u \in Users :
    ~ terminated /\ holds[u] # 0 =>
      /\ cache[of[holds[u]]] = holds[u]
      /\ worker[holds[u]] = "running" /\ pRun[holds[u]]

\* When no call is under way, a connection nobody holds is not in the cache and has no
\* thread any more.
NothingLeftBehind ==
  ~ terminated /\ (\A u \in Users : pc[u] = "idle") =>
    \A c \in Conns :
      Alive(c) \/ (worker[c] \in {"none", "joined"} /\ \A n \in Names : cache[n] # c)

\* Users that do not meet in the naming service are only at risk of a server that cannot be
\* reached.
FaultHasCause == terminated => overlapped \/ refused

\* Waits for the network, or for the bound on connections.
Blocked(u) ==
  \/ pc[u] = "awaiting" /\ ~ isRunning
  \/ pc[u] = "searching" /\ ~ Findable(name[u])
  \/ pc[u] = "creating" /\ made = MaxConns

\* connect() and disconnect() return as soon as the server can be found; in particular
\* the thread that is joined ends.
CallReturns ==
  \A u \in Users : pc[u] # "idle" ~> pc[u] = "idle" \/ terminated \/ Blocked(u)
=============================================================================
