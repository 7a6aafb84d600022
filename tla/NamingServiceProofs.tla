------------------------- MODULE NamingServiceProofs -------------------------
(***************************************************************************)
(* Theorems about NamingService, for any users, names of servers and       *)
(* number of connections: a connection that is held is served, none is     *)
(* left behind, and faults have a cause.                                   *)
(***************************************************************************)
EXTENDS NamingService, TLAPS

-----------------------------------------------------------------------------
(* Type correctness.                                                       *)

\* A user that has been given a connection has one, and a background thread that tries
\* to connect has attempts left.
TypeInv ==
  /\ TypeOK
  /\ \A u \in Users : pc[u] \in {"waiting", "reading"} => conn[u] # 0
  /\ \A c \in Conns : worker[c] = "connecting" => tries[c] # 0

\* The naming service starts well typed.
LEMMA TypeInit == Init => TypeInv
<1> SUFFICES ASSUME Init PROVE TypeInv
  OBVIOUS
<1>1. 0 \in 0 .. MaxUrls /\ 0 \in 0 .. MaxConns /\ 0 \in 0 .. Retries /\ 0 \in 0 .. made
  BY NamingAssumption DEF Init
<1> QED
  BY <1>1, NamingAssumption DEF Init, TypeInv, TypeOK

\* Giving a share away leads out of the naming service or into the deleter.
LEMMA ReleaseGoes ==
  ASSUME NEW u, NEW c, Release(u, c)
  PROVE  pc' = [pc EXCEPT ![u] = "deleting"] \/ pc' = [pc EXCEPT ![u] = "idle"]
<1>1. CASE LastShare(u, c)
  BY <1>1 DEF Release, Goto
<1>2. CASE ~ LastShare(u, c)
  BY <1>2 DEF Release, Goto
<1> QED
  BY <1>1, <1>2

\* A look into the cache leaves it as it is or without an expired entry.
LEMMA LookupDrops ==
  ASSUME NEW u, NEW n, Lookup(u, n)
  PROVE  cache' = cache \/ cache' = [cache EXCEPT ![n] = 0]
BY Zenon DEF Lookup, DropExpired

\* The connections in use are connections made.
LEMMA MadeIsConn ==
  ASSUME TypeOK, NEW i \in 0 .. made, i # 0
  PROVE  i \in Conns
BY NamingAssumption DEF TypeOK, Conns

\* Every step keeps the state well typed.
LEMMA TypeStep == TypeInv /\ [Next]_vars => TypeInv'
<1> SUFFICES ASSUME TypeInv, [Next]_vars PROVE TypeInv'
  OBVIOUS
<1> USE NamingAssumption DEF TypeInv, TypeOK, serverVars, connVars, userVars, Goto
<1>1. ASSUME Run PROVE TypeInv'
  BY <1>1 DEF Run
<1>2. ASSUME StopRunning PROVE TypeInv'
  BY <1>2 DEF StopRunning
<1>3. ASSUME NEW n \in Names, ServerOnNetwork(n) PROVE TypeInv'
  BY <1>3 DEF ServerOnNetwork
<1>4. ASSUME NEW n \in Names, ServerStarts(n) PROVE TypeInv'
  BY <1>4 DEF ServerStarts
<1>5. ASSUME NEW n \in Names, ServerStops(n) PROVE TypeInv'
  BY <1>5 DEF ServerStops
<1>6. ASSUME NEW u \in Users, NEW n \in Names, GetConnection(u, n) PROVE TypeInv'
  <2>1. /\ name' \in [Users -> Names]
        /\ UNCHANGED <<serverVars, serverUrl, connVars, holds, victim, refused>>
    BY <1>6 DEF GetConnection
  <2>2. cache' \in [Names -> 0 .. made]
    <3>1. cache' = cache \/ cache' = [cache EXCEPT ![n] = 0]
      <4>1. Lookup(u, n)
        BY <1>6, Zenon DEF GetConnection
      <4> QED
        BY <4>1, LookupDrops, Zenon
    <3> QED
      BY <3>1
  <2>3. conn' \in [Users -> 0 .. made]
    BY <1>6 DEF GetConnection, Lookup
  <2>4. pc' \in [Users -> {"idle", "awaiting", "searching", "creating", "waiting", "reading",
                           "deleting", "joining", "erasing"}]
    BY <1>6 DEF GetConnection, Lookup
  <2>5. \A v \in Users : pc'[v] \in {"waiting", "reading"} => conn'[v] # 0
    BY <1>6 DEF GetConnection, Lookup
  <2>6. terminated' \in BOOLEAN /\ overlapped' \in BOOLEAN
    BY <1>6, Zenon DEF GetConnection, Lookup, DropExpired
  <2> QED
    BY <2>1, <2>2, <2>3, <2>4, <2>5, <2>6
<1>7. ASSUME NEW u \in Users, OwnServerRuns(u) PROVE TypeInv'
  BY <1>7 DEF OwnServerRuns
<1>8. ASSUME NEW u \in Users, FindServerUrl(u) PROVE TypeInv'
  BY <1>8 DEF FindServerUrl
<1>9. ASSUME NEW u \in Users, FindServerThrows(u) PROVE TypeInv'
  BY <1>9 DEF FindServerThrows
<1>10. ASSUME NEW u \in Users, StartBackgroundTask(u) PROVE TypeInv'
  <2>1. made + 1 \in Conns /\ made' = made + 1 /\ made' \in 0 .. MaxConns
    BY <1>10 DEF StartBackgroundTask, Conns
  <2>2. \A i \in 0 .. made : i \in 0 .. made'
    BY <2>1
  <2>3. worker' \in [Conns -> {"none", "connecting", "failed", "running", "ended", "joined"}]
    BY <1>10, <2>1 DEF StartBackgroundTask
  <2>4. /\ tries' \in [Conns -> 0 .. Retries] /\ target' \in [Conns -> 0 .. MaxUrls]
        /\ of' \in [Conns -> Names]
    BY <1>10, <2>1 DEF StartBackgroundTask
  <2>5. pRun' \in [Conns -> BOOLEAN]
    BY <1>10, <2>1 DEF StartBackgroundTask
  <2>6. conn' \in [Users -> 0 .. made'] /\ made + 1 # 0
    BY <1>10, <2>1, <2>2 DEF StartBackgroundTask
  <2>7. /\ cache' \in [Names -> 0 .. made'] /\ holds' \in [Users -> 0 .. made']
        /\ victim' \in [Users -> 0 .. made']
    BY <1>10, <2>1, <2>2 DEF StartBackgroundTask
  <2>8. \A v \in Users : pc'[v] \in {"waiting", "reading"} => conn'[v] # 0
    BY <1>10, <2>6 DEF StartBackgroundTask
  <2>9. \A c \in Conns : worker'[c] = "connecting" => tries'[c] # 0
    BY <1>10, <2>1 DEF StartBackgroundTask
  <2> QED
    BY <1>10, <2>1, <2>3, <2>4, <2>5, <2>6, <2>7, <2>8, <2>9 DEF StartBackgroundTask
<1>11. ASSUME NEW u \in Users, NoClient(u) PROVE TypeInv'
  BY <1>11 DEF NoClient
<1>12. ASSUME NEW u \in Users, InsertConnection(u) PROVE TypeInv'
  <2>1. terminated' \in BOOLEAN
    BY <1>12, Zenon DEF InsertConnection
  <2>2. cache' \in [Names -> 0 .. made]
    BY <1>12 DEF InsertConnection
  <2>3. /\ pc' \in [Users -> {"idle", "awaiting", "searching", "creating", "waiting", "reading",
                              "deleting", "joining", "erasing"}]
        /\ \A v \in Users : pc'[v] \in {"waiting", "reading"} => conn[v] # 0
    BY <1>12 DEF InsertConnection
  <2> QED
    BY <1>12, <2>1, <2>2, <2>3 DEF InsertConnection
<1>13. ASSUME NEW u \in Users, ReadNsIndex(u) PROVE TypeInv'
  <2>1. /\ conn' \in [Users -> 0 .. made] /\ name' \in [Users -> Names]
        /\ pc' \in [Users -> {"idle", "awaiting", "searching", "creating", "waiting", "reading",
                              "deleting", "joining", "erasing"}]
    <3>1. \/ holds[u] # 0 /\ Release(u, holds[u])
          \/ (UNCHANGED <<conn, name>> /\ pc' = [pc EXCEPT ![u] = "idle"])
      BY <1>13 DEF ReadNsIndex
    <3>2. holds[u] # 0 => holds[u] \in Conns
      BY MadeIsConn
    <3>3. CASE holds[u] # 0 /\ Release(u, holds[u])
      BY <3>2, <3>3, ReleaseGoes DEF Release
    <3> QED
      BY <3>1, <3>3
  <2>2. \A v \in Users : pc'[v] \in {"waiting", "reading"} => conn'[v] # 0
    BY <1>13 DEF ReadNsIndex, Release
  <2> QED
    BY <1>13, <2>1, <2>2 DEF ReadNsIndex
<1>14. ASSUME NEW u \in Users, ReadNsIndexThrows(u) PROVE TypeInv'
  <2>1. /\ conn' \in [Users -> 0 .. made] /\ name' \in [Users -> Names]
        /\ pc' \in [Users -> {"idle", "awaiting", "searching", "creating", "waiting", "reading",
                              "deleting", "joining", "erasing"}]
    <3>1. \/ conn[u] # 0 /\ Release(u, conn[u])
          \/ (UNCHANGED <<conn, name>> /\ pc' = [pc EXCEPT ![u] = "idle"])
      BY <1>14 DEF ReadNsIndexThrows
    <3>2. conn[u] # 0 => conn[u] \in Conns
      BY MadeIsConn
    <3>3. CASE conn[u] # 0 /\ Release(u, conn[u])
      BY <3>2, <3>3, ReleaseGoes DEF Release
    <3> QED
      BY <3>1, <3>3
  <2>2. \A v \in Users : pc'[v] \in {"waiting", "reading"} => conn'[v] # 0
    BY <1>14 DEF ReadNsIndexThrows, Release
  <2> QED
    BY <1>14, <2>1, <2>2 DEF ReadNsIndexThrows
<1>15. ASSUME NEW u \in Users, StopBackgroundTask(u) PROVE TypeInv'
  BY <1>15 DEF StopBackgroundTask
<1>16. ASSUME NEW u \in Users, JoinBackgroundTask(u) PROVE TypeInv'
  BY <1>16 DEF JoinBackgroundTask
<1>17. ASSUME NEW u \in Users, EraseConnection(u) PROVE TypeInv'
  <2>1. terminated' \in BOOLEAN
    BY <1>17, Zenon DEF EraseConnection
  <2>2. cache' \in [Names -> 0 .. made]
    BY <1>17 DEF EraseConnection
  <2>3. /\ pc' \in [Users -> {"idle", "awaiting", "searching", "creating", "waiting", "reading",
                              "deleting", "joining", "erasing"}]
        /\ \A v \in Users : pc'[v] \in {"waiting", "reading"} => conn[v] # 0
    BY <1>17 DEF EraseConnection
  <2> QED
    BY <1>17, <2>1, <2>2, <2>3 DEF EraseConnection
<1>18. ASSUME NEW u \in Users, Disconnect(u) PROVE TypeInv'
  <2>1. /\ conn' \in [Users -> 0 .. made] /\ name' \in [Users -> Names]
        /\ pc' \in [Users -> {"idle", "awaiting", "searching", "creating", "waiting", "reading",
                              "deleting", "joining", "erasing"}]
    <3>1. (holds[u] # 0 /\ Release(u, holds[u]))
      BY <1>18 DEF Disconnect
    <3>2. holds[u] # 0 => holds[u] \in Conns
      BY MadeIsConn
    <3>3. CASE holds[u] # 0 /\ Release(u, holds[u])
      BY <3>2, <3>3, ReleaseGoes DEF Release
    <3> QED
      BY <3>1, <3>3
  <2>2. \A v \in Users : pc'[v] \in {"waiting", "reading"} => conn'[v] # 0
    BY <1>18 DEF Disconnect, Release
  <2>3. overlapped' \in BOOLEAN
    BY <1>18, Zenon DEF Disconnect
  <2> QED
    <3>1. holds' \in [Users -> 0 .. made]
      BY <1>18 DEF Disconnect
    <3>2. UNCHANGED <<serverVars, serverUrl, cache, connVars, victim, terminated, refused>>
      BY <1>18, Zenon DEF Disconnect
    <3> QED
      BY <2>1, <2>2, <2>3, <3>1, <3>2
<1>19. ASSUME NEW c \in Conns, ConnectSucceeds(c) PROVE TypeInv'
  BY <1>19 DEF ConnectSucceeds
<1>20. ASSUME NEW c \in Conns, ConnectFails(c) PROVE TypeInv'
  BY <1>20 DEF ConnectFails
<1>21. ASSUME NEW c \in Conns, BackgroundTaskEnds(c) PROVE TypeInv'
  BY <1>21 DEF BackgroundTaskEnds
<1>22. ASSUME UNCHANGED vars PROVE TypeInv'
  BY <1>22 DEF vars
<1> QED
  BY <1>1, <1>2, <1>3, <1>4, <1>5, <1>6, <1>7, <1>8, <1>9, <1>10, <1>11, <1>12, <1>13, <1>14,
     <1>15, <1>16, <1>17, <1>18, <1>19, <1>20, <1>21, <1>22
  DEF Next, ServerStep, NetworkStep, Proceed, WorkerStep

\* The state of the naming service is well typed.
THEOREM TypeCorrect == Spec => []TypeOK
<1>1. TypeInv => TypeOK
  BY DEF TypeInv
<1> QED
  BY <1>1, TypeInit, TypeStep, PTL DEF Spec

-----------------------------------------------------------------------------
(* The inductive invariant.                                                *)

\* c is in the cache under its name and has a running background thread.
Served(c) == c # 0 /\ cache[of[c]] = c /\ worker[c] = "running" /\ pRun[c] = TRUE

Uses(u, c) == holds[u] = c \/ (pc[u] \in {"waiting", "reading"} /\ conn[u] = c)

\* What somebody holds or has been given is served.
UsersServed ==
  \A u \in Users :
    /\ holds[u] # 0 => Served(holds[u])
    /\ pc[u] = "reading" => Served(conn[u])

\* A connection that is being made is known to nobody else.
MakersAlone ==
  \A u \in Users :
    pc[u] = "waiting" =>
      /\ conn[u] # 0 /\ of[conn[u]] = name[u]
      /\ worker[conn[u]] \in {"connecting", "failed", "running"} /\ pRun[conn[u]] = TRUE
      /\ \A n \in Names : cache[n] # conn[u]
      /\ \A v \in Users : pc[v] = "waiting" /\ conn[v] = conn[u] => v = u

\* A deleter deletes what nobody uses, and nobody else deletes it; the entry of the cache is
\* that of its connection.
DeletersAlone ==
  \A u \in Users :
    /\ pc[u] \in {"deleting", "joining"} =>
         /\ conn[u] # 0 /\ cache[name[u]] = conn[u] /\ of[conn[u]] = name[u]
         /\ \A v \in Users : ~ Uses(v, conn[u])
         /\ \A v \in Users : pc[v] \in {"deleting", "joining"} /\ conn[v] = conn[u] => v = u
    /\ pc[u] = "deleting" => worker[conn[u]] = "running" /\ pRun[conn[u]] = TRUE
    /\ pc[u] = "joining" => victim[u] = conn[u] /\ worker[conn[u]] \in {"running", "ended"}
    /\ pc[u] = "erasing" =>
         conn[u] # 0 /\ victim[u] = conn[u] /\ of[conn[u]] = name[u] /\ worker[conn[u]] = "joined"

SharingInv == UsersServed /\ MakersAlone /\ DeletersAlone

\* u uses c, or is about to end its background thread.
Keeps(u, c) == Uses(u, c) \/ (pc[u] \in {"deleting", "joining"} /\ conn[u] = c)

Kept(c) == \E u \in Users : Keeps(u, c)

\* Every entry of the cache has the name of its connection, and is used or being deleted.
EntriesUsed ==
  \A n \in Names :
    cache[n] # 0 =>
      /\ of[cache[n]] = n
      /\ Kept(cache[n]) \/ \E u \in Users : pc[u] = "erasing" /\ conn[u] = cache[n]

\* Every background thread that has not been joined is used or being deleted.
ThreadsUsed == \A c \in Conns : worker[c] \notin {"none", "joined"} => Kept(c)

\* Without an overlap there is one user at a time in the naming service, and what it has
\* seen of the cache is still so.
Undisturbed ==
  ~ overlapped =>
    /\ \A u, v \in Users : u # v => pc[u] = "idle" \/ pc[v] = "idle"
    /\ \A u \in Users :
         /\ pc[u] \in {"awaiting", "searching", "creating", "waiting"} => cache[name[u]] = 0
         /\ pc[u] = "erasing" => cache[name[u]] = conn[u]

RefusalsRecorded == \A c \in Conns : worker[c] = "failed" => refused

CleanInv == EntriesUsed /\ ThreadsUsed /\ Undisturbed /\ RefusalsRecorded

NamingInv == (~ terminated => SharingInv /\ CleanInv) /\ FaultHasCause

-----------------------------------------------------------------------------
(* The invariant is kept. One lemma per action.                            *)

\* At the start nothing is used and nothing kept.
LEMMA KeepInit == Init => SharingInv /\ CleanInv
<1> SUFFICES ASSUME Init PROVE SharingInv /\ CleanInv
  OBVIOUS
<1>1. SharingInv
  BY DEF Init, SharingInv, UsersServed, MakersAlone, DeletersAlone
<1>2. CleanInv
  BY DEF Init, CleanInv, EntriesUsed, ThreadsUsed, Undisturbed, RefusalsRecorded
<1> QED
  BY <1>1, <1>2

\* Steps of the servers do not touch the connections.
LEMMA KeepSame ==
  ASSUME SharingInv, CleanInv,
         UNCHANGED <<cache, worker, pRun, of, pc, name, conn, holds, victim, overlapped, refused>>
  PROVE  SharingInv' /\ CleanInv'
<1>1. SharingInv'
  BY DEF SharingInv, UsersServed, MakersAlone, DeletersAlone, Served, Uses
<1>2. EntriesUsed' /\ ThreadsUsed'
  BY DEF CleanInv, EntriesUsed, ThreadsUsed, Kept, Keeps, Uses
<1>3. Undisturbed' /\ RefusalsRecorded'
  BY Zenon DEF CleanInv, Undisturbed, RefusalsRecorded
<1> QED
  BY <1>1, <1>2, <1>3 DEF CleanInv

\* getConnectionAndNodeIdByName looks into the cache.
LEMMA KeepGet ==
  ASSUME TypeInv, SharingInv, CleanInv, ~ terminated', NEW u \in Users, NEW n \in Names,
         GetConnection(u, n)
  PROVE  SharingInv' /\ CleanInv'
<1>1. /\ pc[u] = "idle" /\ name' = [name EXCEPT ![u] = n]
      /\ UNCHANGED <<worker, pRun, of, holds, victim, refused>>
      /\ ~ overlapped' => ~ overlapped /\ \A v \in Users \ {u} : pc[v] = "idle"
      /\ \/ /\ cache[n] # 0 /\ Alive(cache[n]) /\ conn' = [conn EXCEPT ![u] = cache[n]]
            /\ pc' = [pc EXCEPT ![u] = "reading"] /\ cache' = cache
         \/ /\ cache[n] # 0 /\ ~ Alive(cache[n]) /\ worker[cache[n]] = "joined"
            /\ cache' = [cache EXCEPT ![n] = 0] /\ conn' = conn
            /\ pc' = [pc EXCEPT ![u] = IF serverUrl[n] # 0 THEN "creating" ELSE "awaiting"]
         \/ /\ cache[n] = 0 /\ cache' = cache /\ conn' = conn
            /\ pc' = [pc EXCEPT ![u] = IF serverUrl[n] # 0 THEN "creating" ELSE "awaiting"]
  BY Zenon DEF GetConnection, Lookup, DropExpired, Overlap, Goto, connVars, userVars, serverVars
<1>2. cache[n] # 0 /\ Alive(cache[n]) =>
        /\ Served(cache[n])
        /\ \A w \in Users : pc[w] \in {"deleting", "joining"} => conn[w] # cache[n]
  <2> SUFFICES ASSUME cache[n] # 0, NEW v \in Users, cache[n] \in Shares(v)
               PROVE  /\ Served(cache[n])
                      /\ \A w \in Users : pc[w] \in {"deleting", "joining"} => conn[w] # cache[n]
    BY Zenon DEF Alive
  <2>1. holds[v] = cache[n] \/ (pc[v] \in {"waiting", "reading"} /\ conn[v] = cache[n])
    BY DEF Shares
  <2> QED
    BY <2>1 DEF SharingInv, UsersServed, MakersAlone, DeletersAlone, Uses
<1>3. \/ /\ Served(cache[n]) /\ conn' = [conn EXCEPT ![u] = cache[n]]
         /\ \A w \in Users : pc[w] \in {"deleting", "joining"} => conn[w] # cache[n]
         /\ pc' = [pc EXCEPT ![u] = "reading"] /\ cache' = cache
      \/ /\ \/ cache[n] = 0 /\ cache' = cache
            \/ worker[cache[n]] = "joined" /\ cache' = [cache EXCEPT ![n] = 0]
         /\ conn' = conn
         /\ pc' = [pc EXCEPT ![u] = IF serverUrl[n] # 0 THEN "creating" ELSE "awaiting"]
  BY <1>1, <1>2, Zenon
<1>4. /\ pc[u] = "idle" /\ name' = [name EXCEPT ![u] = n]
      /\ UNCHANGED <<worker, pRun, of, holds, victim, refused>>
      /\ ~ overlapped' => ~ overlapped /\ \A v \in Users \ {u} : pc[v] = "idle"
  BY <1>1, Zenon
<1>5. UsersServed'
  <2>1. CASE pc' = [pc EXCEPT ![u] = "reading"]
    BY <1>3, <1>4, <2>1 DEF SharingInv, UsersServed, Served, TypeInv, TypeOK
  <2>2. CASE /\ \/ cache[n] = 0 /\ cache' = cache
                \/ worker[cache[n]] = "joined" /\ cache' = [cache EXCEPT ![n] = 0]
             /\ conn' = conn
             /\ pc' = [pc EXCEPT ![u] = IF serverUrl[n] # 0 THEN "creating" ELSE "awaiting"]
    <3>1. \A i \in 0 .. made : Served(i) => of[i] \in Names /\ Served(i)'
      BY <1>4, <2>2, MadeIsConn DEF Served, TypeInv, TypeOK
    <3> QED
      BY <1>4, <2>2, <3>1 DEF SharingInv, UsersServed, TypeInv, TypeOK
  <2> QED
    BY <1>3, <2>1, <2>2
<1>6. MakersAlone'
  BY <1>3, <1>4 DEF SharingInv, UsersServed, MakersAlone, DeletersAlone, Served, Uses, TypeInv,
      TypeOK
<1>7. DeletersAlone'
  <2>1. CASE pc' = [pc EXCEPT ![u] = "reading"]
    BY <1>3, <1>4, <2>1 DEF SharingInv, DeletersAlone, Uses, TypeInv, TypeOK
  <2>2. CASE /\ \/ cache[n] = 0 /\ cache' = cache
                \/ worker[cache[n]] = "joined" /\ cache' = [cache EXCEPT ![n] = 0]
             /\ conn' = conn
             /\ pc' = [pc EXCEPT ![u] = IF serverUrl[n] # 0 THEN "creating" ELSE "awaiting"]
    BY <1>4, <2>2 DEF SharingInv, DeletersAlone, Uses, TypeInv, TypeOK
  <2> QED
    BY <1>3, <2>1, <2>2
<1>8. \A d \in Conns : Kept(d) => Kept(d)'
  BY <1>3, <1>4 DEF Kept, Keeps, Uses, TypeInv, TypeOK
<1>9. EntriesUsed'
  BY <1>3, <1>4, <1>8, MadeIsConn DEF CleanInv, EntriesUsed, TypeInv, TypeOK
<1>10. ThreadsUsed'
  BY <1>3, <1>4, <1>8 DEF CleanInv, ThreadsUsed, TypeInv, TypeOK
<1>11. Undisturbed'
  BY <1>3, <1>4 DEF CleanInv, Undisturbed, TypeInv, TypeOK
<1>12. RefusalsRecorded'
  BY <1>3, <1>4 DEF CleanInv, RefusalsRecorded, TypeInv, TypeOK
<1> QED
  BY <1>5, <1>6, <1>7, <1>9, <1>10, <1>11, <1>12 DEF SharingInv, CleanInv

\* The search for the URL of a server.
LEMMA KeepWalk ==
  ASSUME TypeInv, SharingInv, CleanInv, ~ terminated', NEW u \in Users,
         \/ pc' = [pc EXCEPT ![u] = "searching"]
         \/ pc' = [pc EXCEPT ![u] = "creating"]
         \/ pc' = [pc EXCEPT ![u] = "idle"],
         pc[u] \in {"awaiting", "searching"},
         UNCHANGED <<cache, worker, pRun, of, name, conn, holds, victim, overlapped, refused>>
  PROVE  SharingInv' /\ CleanInv'
<1>1. UsersServed'
  BY DEF SharingInv, UsersServed, MakersAlone, DeletersAlone, Served, Uses, TypeInv, TypeOK
<1>2. MakersAlone'
  BY DEF SharingInv, UsersServed, MakersAlone, DeletersAlone, Served, Uses, TypeInv, TypeOK
<1>3. DeletersAlone'
  BY DEF SharingInv, UsersServed, MakersAlone, DeletersAlone, Served, Uses, TypeInv, TypeOK
<1>4. \A d \in Conns : Kept(d) => Kept(d)'
  BY DEF Kept, Keeps, Uses, TypeInv, TypeOK
<1>5. EntriesUsed'
  BY <1>4, MadeIsConn DEF CleanInv, EntriesUsed, TypeInv, TypeOK
<1>6. ThreadsUsed'
  BY <1>4 DEF CleanInv, ThreadsUsed, TypeInv, TypeOK
<1>7. Undisturbed'
  BY DEF CleanInv, Undisturbed, TypeInv, TypeOK
<1>8. RefusalsRecorded'
  BY DEF CleanInv, RefusalsRecorded, TypeInv, TypeOK
<1> QED
  BY <1>1, <1>2, <1>3, <1>5, <1>6, <1>7, <1>8 DEF SharingInv, CleanInv

\* The new connection is one that nobody knows.
LEMMA KeepStart ==
  ASSUME TypeInv, SharingInv, CleanInv, ~ terminated', NEW u \in Users, StartBackgroundTask(u)
  PROVE  SharingInv' /\ CleanInv'
<1>1. /\ pc[u] = "creating" /\ made < MaxConns
      /\ worker' = [worker EXCEPT ![made + 1] = "connecting"]
      /\ pRun' = [pRun EXCEPT ![made + 1] = TRUE]
      /\ of' = [of EXCEPT ![made + 1] = name[u]]
      /\ conn' = [conn EXCEPT ![u] = made + 1]
      /\ pc' = [pc EXCEPT ![u] = "waiting"]
      /\ UNCHANGED <<cache, name, holds, victim, overlapped, refused>>
  BY Zenon DEF StartBackgroundTask, Goto, connVars, userVars, serverVars
<1>2. /\ made + 1 \in Conns /\ made + 1 # 0
      /\ \A v \in Users : conn[v] # made + 1 /\ holds[v] # made + 1 /\ victim[v] # made + 1
      /\ \A n \in Names : cache[n] # made + 1
  <2>1. made \in Nat /\ made + 1 \in Conns /\ \A i \in 0 .. made : i # made + 1
    BY <1>1, NamingAssumption DEF TypeInv, TypeOK, Conns
  <2> QED
    BY <2>1 DEF TypeInv, TypeOK
<1>3. UsersServed'
  BY <1>1, <1>2 DEF SharingInv, UsersServed, MakersAlone, DeletersAlone, Served, Uses, TypeInv,
      TypeOK
<1>4. MakersAlone'
  BY <1>1, <1>2 DEF SharingInv, UsersServed, MakersAlone, DeletersAlone, Served, Uses, TypeInv,
      TypeOK
<1>5. DeletersAlone'
  BY <1>1, <1>2 DEF SharingInv, UsersServed, MakersAlone, DeletersAlone, Served, Uses, TypeInv,
      TypeOK
<1>6. \A d \in Conns : Kept(d) => Kept(d)'
  BY <1>1, <1>2 DEF Kept, Keeps, Uses, TypeInv, TypeOK
<1>7. EntriesUsed'
  BY <1>1, <1>2, <1>6, MadeIsConn DEF CleanInv, EntriesUsed, TypeInv, TypeOK
<1>8. ThreadsUsed'
  <2>1. \A d : d = made + 1 => Kept(d)'
    BY <1>2, <1>1 DEF Kept, Keeps, Uses, TypeInv, TypeOK
  <2> QED
    BY <1>1, <1>2, <1>6, <2>1 DEF CleanInv, ThreadsUsed, TypeInv, TypeOK
<1>9. Undisturbed'
  BY <1>1, <1>2 DEF CleanInv, Undisturbed, TypeInv, TypeOK
<1>10. RefusalsRecorded'
  BY <1>1, <1>2 DEF CleanInv, RefusalsRecorded, TypeInv, TypeOK
<1> QED
  BY <1>3, <1>4, <1>5, <1>7, <1>8, <1>9, <1>10 DEF SharingInv, CleanInv

\* The new connection gets into the cache.
LEMMA KeepInsert ==
  ASSUME TypeInv, SharingInv, CleanInv, ~ terminated', NEW u \in Users, InsertConnection(u)
  PROVE  SharingInv' /\ CleanInv'
<1>1. /\ pc[u] = "waiting" /\ worker[conn[u]] = "running" /\ cache[name[u]] = 0
      /\ cache' = [cache EXCEPT ![name[u]] = conn[u]]
      /\ pc' = [pc EXCEPT ![u] = "reading"]
      /\ UNCHANGED <<worker, pRun, of, name, conn, holds, victim, overlapped, refused>>
  BY Zenon DEF InsertConnection, Goto, connVars, userVars, serverVars
<1>2. UsersServed'
  BY <1>1 DEF SharingInv, UsersServed, MakersAlone, DeletersAlone, Served, Uses, TypeInv, TypeOK
<1>3. MakersAlone'
  BY <1>1 DEF SharingInv, UsersServed, MakersAlone, DeletersAlone, Served, Uses, TypeInv, TypeOK
<1>4. DeletersAlone'
  BY <1>1 DEF SharingInv, UsersServed, MakersAlone, DeletersAlone, Served, Uses, TypeInv, TypeOK
<1>5. \A d \in Conns : Kept(d) => Kept(d)'
  BY <1>1 DEF Kept, Keeps, Uses, TypeInv, TypeOK
<1>6. EntriesUsed'
  <2>1. Kept(conn[u])' /\ of[conn[u]] = name[u]
    BY <1>1 DEF Kept, Keeps, Uses, TypeInv, TypeOK, SharingInv, MakersAlone
  <2> QED
    BY <1>1, <1>5, <2>1, MadeIsConn DEF CleanInv, EntriesUsed, TypeInv, TypeOK
<1>7. ThreadsUsed'
  BY <1>1, <1>5 DEF CleanInv, ThreadsUsed, TypeInv, TypeOK
<1>8. Undisturbed'
  BY <1>1 DEF CleanInv, Undisturbed, TypeInv, TypeOK
<1>9. RefusalsRecorded'
  BY <1>1 DEF CleanInv, RefusalsRecorded, TypeInv, TypeOK
<1> QED
  BY <1>2, <1>3, <1>4, <1>6, <1>7, <1>8, <1>9 DEF SharingInv, CleanInv

\* The caller gets the connection and gives away its former one.
LEMMA KeepRead ==
  ASSUME TypeInv, SharingInv, CleanInv, ~ terminated', NEW u \in Users, ReadNsIndex(u)
  PROVE  SharingInv' /\ CleanInv'
<1>1. /\ pc[u] = "reading" /\ holds' = [holds EXCEPT ![u] = conn[u]]
      /\ UNCHANGED <<cache, worker, pRun, of, victim, overlapped, refused>>
      /\ \/ /\ holds[u] \in {0, conn[u]} /\ pc' = [pc EXCEPT ![u] = "idle"]
            /\ UNCHANGED <<conn, name>>
         \/ /\ holds[u] \notin {0, conn[u]}
            /\ conn' = [conn EXCEPT ![u] = holds[u]]
            /\ name' = [name EXCEPT ![u] = of[holds[u]]]
            /\ \/ LastShare(u, holds[u]) /\ pc' = [pc EXCEPT ![u] = "deleting"]
               \/ ~ LastShare(u, holds[u]) /\ pc' = [pc EXCEPT ![u] = "idle"]
  BY Zenon DEF ReadNsIndex, Release, Goto, connVars, userVars, serverVars
<1>2. UsersServed'
  BY <1>1 DEF SharingInv, UsersServed, MakersAlone, DeletersAlone, Served, Uses, TypeInv, TypeOK,
      LastShare, Shares
<1>3. MakersAlone'
  BY <1>1 DEF SharingInv, UsersServed, MakersAlone, DeletersAlone, Served, Uses, TypeInv, TypeOK,
      LastShare, Shares
<1>4. DeletersAlone'
  BY <1>1 DEF SharingInv, UsersServed, MakersAlone, DeletersAlone, Served, Uses, TypeInv, TypeOK,
      LastShare, Shares
<1>5. \A d \in Conns : Kept(d) => Kept(d)'
  <2> SUFFICES ASSUME NEW d \in Conns, NEW v \in Users, Keeps(v, d) PROVE Kept(d)'
    BY DEF Kept
  <2>1. CASE v # u
    BY <1>1, <2>1 DEF Kept, Keeps, Uses, TypeInv, TypeOK
  <2>2. CASE v = u /\ d = holds[u] /\ ~ LastShare(u, holds[u]) /\ pc' = [pc EXCEPT ![u] = "idle"]
    <3>1. PICK w \in Users \ {u} : holds[u] \in Shares(w)
      BY <2>2, Zenon DEF LastShare
    <3>2. Uses(w, d)
      BY <2>2, <3>1 DEF Shares, Uses
    <3>3. Uses(w, d)'
      BY <1>1, <3>2 DEF Uses, TypeInv, TypeOK
    <3> QED
      BY <3>3 DEF Kept, Keeps
  <2>3. CASE v = u /\ ~ (d = holds[u] /\ ~ LastShare(u, holds[u]) /\ pc' = [pc EXCEPT ![u] = "idle"])
    <3>1. Keeps(u, d)'
      <4>1. d # 0
        BY DEF Conns
      <4> QED
        BY <1>1, <2>3, <4>1 DEF Keeps, Uses, TypeInv, TypeOK, SharingInv, UsersServed
    <3> QED
      BY <3>1 DEF Kept
  <2> QED
    BY <2>1, <2>2, <2>3
<1>6. EntriesUsed'
  BY <1>1, <1>5, MadeIsConn DEF CleanInv, EntriesUsed, TypeInv, TypeOK
<1>7. ThreadsUsed'
  BY <1>1, <1>5 DEF CleanInv, ThreadsUsed, TypeInv, TypeOK
<1>8. Undisturbed'
  BY <1>1 DEF CleanInv, Undisturbed, TypeInv, TypeOK
<1>9. RefusalsRecorded'
  BY <1>1 DEF CleanInv, RefusalsRecorded, TypeInv, TypeOK
<1> QED
  BY <1>2, <1>3, <1>4, <1>6, <1>7, <1>8, <1>9 DEF SharingInv, CleanInv

\* An exception gives the new share away.
LEMMA KeepReadThrows ==
  ASSUME TypeInv, SharingInv, CleanInv, ~ terminated', NEW u \in Users, ReadNsIndexThrows(u)
  PROVE  SharingInv' /\ CleanInv'
<1>1. /\ pc[u] = "reading"
      /\ UNCHANGED <<cache, worker, pRun, of, holds, victim, overlapped, refused>>
      /\ \/ /\ holds[u] = conn[u] /\ pc' = [pc EXCEPT ![u] = "idle"]
            /\ UNCHANGED <<conn, name>>
         \/ /\ holds[u] # conn[u]
            /\ conn' = [conn EXCEPT ![u] = conn[u]]
            /\ name' = [name EXCEPT ![u] = of[conn[u]]]
            /\ \/ LastShare(u, conn[u]) /\ pc' = [pc EXCEPT ![u] = "deleting"]
               \/ ~ LastShare(u, conn[u]) /\ pc' = [pc EXCEPT ![u] = "idle"]
  BY Zenon DEF ReadNsIndexThrows, Release, Goto, connVars, userVars, serverVars
<1>2. UsersServed'
  BY <1>1 DEF SharingInv, UsersServed, MakersAlone, DeletersAlone, Served, Uses, TypeInv, TypeOK,
      LastShare, Shares
<1>3. MakersAlone'
  BY <1>1 DEF SharingInv, UsersServed, MakersAlone, DeletersAlone, Served, Uses, TypeInv, TypeOK,
      LastShare, Shares
<1>4. DeletersAlone'
  BY <1>1 DEF SharingInv, UsersServed, MakersAlone, DeletersAlone, Served, Uses, TypeInv, TypeOK,
      LastShare, Shares
<1>5. \A d \in Conns : Kept(d) => Kept(d)'
  <2> SUFFICES ASSUME NEW d \in Conns, NEW v \in Users, Keeps(v, d) PROVE Kept(d)'
    BY DEF Kept
  <2>1. CASE v # u
    BY <1>1, <2>1 DEF Kept, Keeps, Uses, TypeInv, TypeOK
  <2>2. CASE v = u /\ d = conn[u] /\ ~ LastShare(u, conn[u]) /\ pc' = [pc EXCEPT ![u] = "idle"]
    <3>1. PICK w \in Users \ {u} : conn[u] \in Shares(w)
      BY <2>2, Zenon DEF LastShare
    <3>2. Uses(w, d)
      BY <2>2, <3>1 DEF Shares, Uses
    <3>3. Uses(w, d)'
      BY <1>1, <3>2 DEF Uses, TypeInv, TypeOK
    <3> QED
      BY <3>3 DEF Kept, Keeps
  <2>3. CASE v = u /\ ~ (d = conn[u] /\ ~ LastShare(u, conn[u]) /\ pc' = [pc EXCEPT ![u] = "idle"])
    <3>1. Keeps(u, d)'
      <4>1. d # 0
        BY DEF Conns
      <4> QED
        BY <1>1, <2>3, <4>1 DEF Keeps, Uses, TypeInv, TypeOK, SharingInv, UsersServed
    <3> QED
      BY <3>1 DEF Kept
  <2> QED
    BY <2>1, <2>2, <2>3
<1>6. EntriesUsed'
  BY <1>1, <1>5, MadeIsConn DEF CleanInv, EntriesUsed, TypeInv, TypeOK
<1>7. ThreadsUsed'
  BY <1>1, <1>5 DEF CleanInv, ThreadsUsed, TypeInv, TypeOK
<1>8. Undisturbed'
  BY <1>1 DEF CleanInv, Undisturbed, TypeInv, TypeOK
<1>9. RefusalsRecorded'
  BY <1>1 DEF CleanInv, RefusalsRecorded, TypeInv, TypeOK
<1> QED
  BY <1>2, <1>3, <1>4, <1>6, <1>7, <1>8, <1>9 DEF SharingInv, CleanInv

\* A client or subscription gives its connection away.
LEMMA KeepDisconnect ==
  ASSUME TypeInv, SharingInv, CleanInv, ~ terminated', NEW u \in Users, Disconnect(u)
  PROVE  SharingInv' /\ CleanInv'
<1>1. /\ pc[u] = "idle" /\ holds[u] # 0 /\ holds' = [holds EXCEPT ![u] = 0]
      /\ UNCHANGED <<cache, worker, pRun, of, victim, refused>>
      /\ ~ overlapped' =>
           ~ overlapped /\ (LastShare(u, holds[u]) => \A v \in Users \ {u} : pc[v] = "idle")
      /\ conn' = [conn EXCEPT ![u] = holds[u]]
      /\ name' = [name EXCEPT ![u] = of[holds[u]]]
      /\ \/ LastShare(u, holds[u]) /\ pc' = [pc EXCEPT ![u] = "deleting"]
         \/ ~ LastShare(u, holds[u]) /\ pc' = [pc EXCEPT ![u] = "idle"]
  BY Zenon DEF Disconnect, Release, Overlap, Goto, connVars, userVars, serverVars
<1>2. UsersServed'
  BY <1>1 DEF SharingInv, UsersServed, MakersAlone, DeletersAlone, Served, Uses, TypeInv, TypeOK,
      LastShare, Shares
<1>3. MakersAlone'
  BY <1>1 DEF SharingInv, UsersServed, MakersAlone, DeletersAlone, Served, Uses, TypeInv, TypeOK,
      LastShare, Shares
<1>4. DeletersAlone'
  BY <1>1 DEF SharingInv, UsersServed, MakersAlone, DeletersAlone, Served, Uses, TypeInv, TypeOK,
      LastShare, Shares
<1>5. \A d \in Conns : Kept(d) => Kept(d)'
  <2> SUFFICES ASSUME NEW d \in Conns, NEW v \in Users, Keeps(v, d) PROVE Kept(d)'
    BY DEF Kept
  <2>1. CASE v # u
    BY <1>1, <2>1 DEF Kept, Keeps, Uses, TypeInv, TypeOK
  <2>2. CASE v = u /\ d = holds[u] /\ ~ LastShare(u, holds[u]) /\ pc' = [pc EXCEPT ![u] = "idle"]
    <3>1. PICK w \in Users \ {u} : holds[u] \in Shares(w)
      BY <2>2, Zenon DEF LastShare
    <3>2. Uses(w, d)
      BY <2>2, <3>1 DEF Shares, Uses
    <3>3. Uses(w, d)'
      BY <1>1, <3>2 DEF Uses, TypeInv, TypeOK
    <3> QED
      BY <3>3 DEF Kept, Keeps
  <2>3. CASE v = u /\ ~ (d = holds[u] /\ ~ LastShare(u, holds[u]) /\ pc' = [pc EXCEPT ![u] = "idle"])
    <3>1. Keeps(u, d)'
      <4>1. d # 0
        BY DEF Conns
      <4> QED
        BY <1>1, <2>3, <4>1 DEF Keeps, Uses, TypeInv, TypeOK, SharingInv, UsersServed
    <3> QED
      BY <3>1 DEF Kept
  <2> QED
    BY <2>1, <2>2, <2>3
<1>6. EntriesUsed'
  BY <1>1, <1>5, MadeIsConn DEF CleanInv, EntriesUsed, TypeInv, TypeOK
<1>7. ThreadsUsed'
  BY <1>1, <1>5 DEF CleanInv, ThreadsUsed, TypeInv, TypeOK
<1>8. Undisturbed'
  BY <1>1 DEF CleanInv, Undisturbed, TypeInv, TypeOK
<1>9. RefusalsRecorded'
  BY <1>1 DEF CleanInv, RefusalsRecorded, TypeInv, TypeOK
<1> QED
  BY <1>2, <1>3, <1>4, <1>6, <1>7, <1>8, <1>9 DEF SharingInv, CleanInv

\* The deleter clears the flag of the background thread.
LEMMA KeepStop ==
  ASSUME TypeInv, SharingInv, CleanInv, ~ terminated', NEW u \in Users, StopBackgroundTask(u)
  PROVE  SharingInv' /\ CleanInv'
<1>1. /\ pc[u] = "deleting" /\ cache[name[u]] # 0
      /\ victim' = [victim EXCEPT ![u] = cache[name[u]]]
      /\ pRun' = [pRun EXCEPT ![cache[name[u]]] = FALSE]
      /\ pc' = [pc EXCEPT ![u] = "joining"]
      /\ UNCHANGED <<cache, worker, of, name, conn, holds, overlapped, refused>>
  BY Zenon DEF StopBackgroundTask, Goto, connVars, userVars, serverVars
<1>2. UsersServed'
  BY <1>1 DEF SharingInv, UsersServed, MakersAlone, DeletersAlone, Served, Uses, TypeInv, TypeOK
<1>3. MakersAlone'
  BY <1>1 DEF SharingInv, UsersServed, MakersAlone, DeletersAlone, Served, Uses, TypeInv, TypeOK
<1>4. DeletersAlone'
  BY <1>1 DEF SharingInv, UsersServed, MakersAlone, DeletersAlone, Served, Uses, TypeInv, TypeOK
<1>5. \A d \in Conns : Kept(d) => Kept(d)'
  BY <1>1 DEF Kept, Keeps, Uses, TypeInv, TypeOK
<1>6. EntriesUsed'
  BY <1>1, <1>5, MadeIsConn DEF CleanInv, EntriesUsed, TypeInv, TypeOK
<1>7. ThreadsUsed'
  BY <1>1, <1>5 DEF CleanInv, ThreadsUsed, TypeInv, TypeOK
<1>8. Undisturbed'
  BY <1>1 DEF CleanInv, Undisturbed, TypeInv, TypeOK
<1>9. RefusalsRecorded'
  BY <1>1 DEF CleanInv, RefusalsRecorded, TypeInv, TypeOK
<1> QED
  BY <1>2, <1>3, <1>4, <1>6, <1>7, <1>8, <1>9 DEF SharingInv, CleanInv

\* The deleter joins the background thread.
LEMMA KeepJoin ==
  ASSUME TypeInv, SharingInv, CleanInv, ~ terminated', NEW u \in Users, JoinBackgroundTask(u)
  PROVE  SharingInv' /\ CleanInv'
<1>1. /\ pc[u] = "joining" /\ worker[victim[u]] \in {"ended", "joined"}
      /\ worker' = [worker EXCEPT ![victim[u]] = "joined"]
      /\ pc' = [pc EXCEPT ![u] = "erasing"]
      /\ UNCHANGED <<cache, pRun, of, name, conn, holds, victim, overlapped, refused>>
  BY Zenon DEF JoinBackgroundTask, Goto, connVars, userVars, serverVars
<1>2. victim[u] = conn[u] /\ conn[u] \in Conns
  BY <1>1, MadeIsConn DEF SharingInv, DeletersAlone, TypeInv, TypeOK
<1>3. UsersServed'
  BY <1>1, <1>2 DEF SharingInv, UsersServed, MakersAlone, DeletersAlone, Served, Uses, TypeInv,
      TypeOK
<1>4. MakersAlone'
  BY <1>1, <1>2 DEF SharingInv, UsersServed, MakersAlone, DeletersAlone, Served, Uses, TypeInv,
      TypeOK
<1>5. DeletersAlone'
  BY <1>1, <1>2 DEF SharingInv, UsersServed, MakersAlone, DeletersAlone, Served, Uses, TypeInv,
      TypeOK
<1>6. \A d \in Conns \ {conn[u]} : Kept(d) => Kept(d)'
  BY <1>1, <1>2 DEF Kept, Keeps, Uses, TypeInv, TypeOK
<1>7. EntriesUsed'
  BY <1>1, <1>2, <1>6, MadeIsConn DEF CleanInv, EntriesUsed, TypeInv, TypeOK
<1>8. ThreadsUsed'
  BY <1>1, <1>2, <1>6 DEF CleanInv, ThreadsUsed, TypeInv, TypeOK
<1>9. Undisturbed'
  BY <1>1, <1>2 DEF CleanInv, Undisturbed, SharingInv, DeletersAlone, TypeInv, TypeOK
<1>10. RefusalsRecorded'
  BY <1>1, <1>2 DEF CleanInv, RefusalsRecorded, TypeInv, TypeOK
<1> QED
  BY <1>3, <1>4, <1>5, <1>7, <1>8, <1>9, <1>10 DEF SharingInv, CleanInv

\* The deleter erases the entry of the cache.
LEMMA KeepErase ==
  ASSUME TypeInv, SharingInv, CleanInv, ~ terminated', NEW u \in Users, EraseConnection(u)
  PROVE  SharingInv' /\ CleanInv'
<1>1. /\ pc[u] = "erasing" /\ cache[name[u]] = victim[u] /\ worker[conn[u]] = "joined"
      /\ cache' = [cache EXCEPT ![name[u]] = 0]
      /\ pc' = [pc EXCEPT ![u] = "idle"]
      /\ UNCHANGED <<worker, pRun, of, name, conn, holds, victim, overlapped, refused>>
  BY Zenon DEF EraseConnection, Goto, connVars, userVars, serverVars
<1>2. UsersServed'
  BY <1>1 DEF SharingInv, UsersServed, MakersAlone, DeletersAlone, Served, Uses, TypeInv, TypeOK
<1>3. MakersAlone'
  BY <1>1 DEF SharingInv, UsersServed, MakersAlone, DeletersAlone, Served, Uses, TypeInv, TypeOK
<1>4. DeletersAlone'
  BY <1>1 DEF SharingInv, UsersServed, MakersAlone, DeletersAlone, Served, Uses, TypeInv, TypeOK
<1>5. \A d \in Conns : Kept(d) => Kept(d)'
  BY <1>1 DEF Kept, Keeps, Uses, TypeInv, TypeOK
<1>6. EntriesUsed'
  <2>1. victim[u] = conn[u] /\ of[conn[u]] = name[u]
    BY <1>1 DEF SharingInv, DeletersAlone
  <2> QED
    BY <1>1, <1>5, <2>1, MadeIsConn DEF CleanInv, EntriesUsed, TypeInv, TypeOK
<1>7. ThreadsUsed'
  BY <1>1, <1>5 DEF CleanInv, ThreadsUsed, TypeInv, TypeOK
<1>8. Undisturbed'
  BY <1>1 DEF CleanInv, Undisturbed, TypeInv, TypeOK
<1>9. RefusalsRecorded'
  BY <1>1 DEF CleanInv, RefusalsRecorded, TypeInv, TypeOK
<1> QED
  BY <1>2, <1>3, <1>4, <1>6, <1>7, <1>8, <1>9 DEF SharingInv, CleanInv

\* The background thread reaches the server.
LEMMA KeepConnect ==
  ASSUME TypeInv, SharingInv, CleanInv, ~ terminated', NEW c \in Conns, ConnectSucceeds(c)
  PROVE  SharingInv' /\ CleanInv'
<1>1. /\ worker[c] = "connecting" /\ worker' = [worker EXCEPT ![c] = "running"]
      /\ refused' = refused
      /\ UNCHANGED <<cache, pRun, of, pc, name, conn, holds, victim, overlapped>>
  BY Zenon DEF ConnectSucceeds, Goto, connVars, userVars, serverVars
<1>2. UsersServed'
  BY <1>1 DEF SharingInv, UsersServed, MakersAlone, DeletersAlone, Served, Uses, TypeInv, TypeOK
<1>3. MakersAlone'
  BY <1>1 DEF SharingInv, UsersServed, MakersAlone, DeletersAlone, Served, Uses, TypeInv, TypeOK
<1>4. DeletersAlone'
  BY <1>1 DEF SharingInv, UsersServed, MakersAlone, DeletersAlone, Served, Uses, TypeInv, TypeOK
<1>5. \A d \in Conns : Kept(d) => Kept(d)'
  BY <1>1 DEF Kept, Keeps, Uses, TypeInv, TypeOK
<1>6. EntriesUsed'
  BY <1>1, <1>5, MadeIsConn DEF CleanInv, EntriesUsed, TypeInv, TypeOK
<1>7. ThreadsUsed'
  BY <1>1, <1>5 DEF CleanInv, ThreadsUsed, TypeInv, TypeOK
<1>8. Undisturbed'
  BY <1>1 DEF CleanInv, Undisturbed, TypeInv, TypeOK
<1>9. RefusalsRecorded'
  BY <1>1 DEF CleanInv, RefusalsRecorded, TypeInv, TypeOK
<1> QED
  BY <1>2, <1>3, <1>4, <1>6, <1>7, <1>8, <1>9 DEF SharingInv, CleanInv

\* An attempt to connect fails.
LEMMA KeepFails ==
  ASSUME TypeInv, SharingInv, CleanInv, ~ terminated', NEW c \in Conns, ConnectFails(c)
  PROVE  SharingInv' /\ CleanInv'
<1>1. /\ worker[c] = "connecting"
      /\ worker' = [worker EXCEPT ![c] = IF tries[c] = 1 THEN "failed" ELSE worker[c]]
      /\ refused' = (refused \/ tries[c] = 1)
      /\ UNCHANGED <<cache, pRun, of, pc, name, conn, holds, victim, overlapped>>
  BY Zenon DEF ConnectFails, Goto, connVars, userVars, serverVars
<1>2. UsersServed'
  BY <1>1 DEF SharingInv, UsersServed, MakersAlone, DeletersAlone, Served, Uses, TypeInv, TypeOK
<1>3. MakersAlone'
  BY <1>1 DEF SharingInv, UsersServed, MakersAlone, DeletersAlone, Served, Uses, TypeInv, TypeOK
<1>4. DeletersAlone'
  BY <1>1 DEF SharingInv, UsersServed, MakersAlone, DeletersAlone, Served, Uses, TypeInv, TypeOK
<1>5. \A d \in Conns : Kept(d) => Kept(d)'
  BY <1>1 DEF Kept, Keeps, Uses, TypeInv, TypeOK
<1>6. EntriesUsed'
  BY <1>1, <1>5, MadeIsConn DEF CleanInv, EntriesUsed, TypeInv, TypeOK
<1>7. ThreadsUsed'
  BY <1>1, <1>5 DEF CleanInv, ThreadsUsed, TypeInv, TypeOK
<1>8. Undisturbed'
  BY <1>1 DEF CleanInv, Undisturbed, TypeInv, TypeOK
<1>9. RefusalsRecorded'
  BY <1>1 DEF CleanInv, RefusalsRecorded, TypeInv, TypeOK
<1> QED
  BY <1>2, <1>3, <1>4, <1>6, <1>7, <1>8, <1>9 DEF SharingInv, CleanInv

\* The background thread ends.
LEMMA KeepEnds ==
  ASSUME TypeInv, SharingInv, CleanInv, ~ terminated', NEW c \in Conns, BackgroundTaskEnds(c)
  PROVE  SharingInv' /\ CleanInv'
<1>1. /\ worker[c] = "running" /\ ~ pRun[c] /\ worker' = [worker EXCEPT ![c] = "ended"]
      /\ refused' = refused
      /\ UNCHANGED <<cache, pRun, of, pc, name, conn, holds, victim, overlapped>>
  BY Zenon DEF BackgroundTaskEnds, Goto, connVars, userVars, serverVars
<1>2. UsersServed'
  BY <1>1 DEF SharingInv, UsersServed, MakersAlone, DeletersAlone, Served, Uses, TypeInv, TypeOK
<1>3. MakersAlone'
  BY <1>1 DEF SharingInv, UsersServed, MakersAlone, DeletersAlone, Served, Uses, TypeInv, TypeOK
<1>4. DeletersAlone'
  BY <1>1 DEF SharingInv, UsersServed, MakersAlone, DeletersAlone, Served, Uses, TypeInv, TypeOK
<1>5. \A d \in Conns : Kept(d) => Kept(d)'
  BY <1>1 DEF Kept, Keeps, Uses, TypeInv, TypeOK
<1>6. EntriesUsed'
  BY <1>1, <1>5, MadeIsConn DEF CleanInv, EntriesUsed, TypeInv, TypeOK
<1>7. ThreadsUsed'
  BY <1>1, <1>5 DEF CleanInv, ThreadsUsed, TypeInv, TypeOK
<1>8. Undisturbed'
  BY <1>1 DEF CleanInv, Undisturbed, TypeInv, TypeOK
<1>9. RefusalsRecorded'
  BY <1>1 DEF CleanInv, RefusalsRecorded, TypeInv, TypeOK
<1> QED
  BY <1>2, <1>3, <1>4, <1>6, <1>7, <1>8, <1>9 DEF SharingInv, CleanInv

-----------------------------------------------------------------------------
(* The faults of the process and their causes.                             *)

\* An expired entry whose thread has not been joined is being deleted by another user.
LEMMA ExpiredIsBeingDeleted ==
  ASSUME EntriesUsed, NEW u \in Users, NEW n \in Names, pc[u] = "idle",
         cache[n] # 0, ~ Alive(cache[n])
  PROVE  Overlap(u)
<1>1. ASSUME NEW v \in Users, Uses(v, cache[n]) PROVE FALSE
  BY <1>1 DEF Uses, Alive, Shares
<1>2. PICK v \in Users : pc[v] \in {"deleting", "joining", "erasing"}
  BY <1>1 DEF EntriesUsed, Kept, Keeps
<1>3. v # u /\ pc[v] # "idle"
  BY <1>2
<1> QED
  BY <1>3 DEF Overlap

\* A step that ends the process has a cause.
LEMMA FaultStep ==
  ASSUME TypeInv, SharingInv, CleanInv, ~ terminated, [Next]_vars, terminated'
  PROVE  overlapped' \/ refused'
<1> USE DEF serverVars, connVars, userVars
<1>1. ASSUME NEW u \in Users, NEW n \in Names, GetConnection(u, n) PROVE overlapped' \/ refused'
  <2>1. pc[u] = "idle" /\ cache[n] # 0 /\ ~ Alive(cache[n])
    BY <1>1, Zenon DEF GetConnection, Lookup
  <2>2. Overlap(u)
    BY <2>1, ExpiredIsBeingDeleted DEF CleanInv
  <2> QED
    BY <1>1, <2>2, Zenon DEF GetConnection
<1>2. ASSUME NEW u \in Users, NoClient(u) PROVE overlapped' \/ refused'
  <2>1. pc[u] = "waiting" /\ worker[conn[u]] = "failed" /\ refused' = refused
    BY <1>2 DEF NoClient
  <2>2. conn[u] \in Conns
    BY <2>1, MadeIsConn DEF TypeInv, TypeOK
  <2> QED
    BY <2>1, <2>2 DEF CleanInv, RefusalsRecorded
<1>3. ASSUME NEW u \in Users, InsertConnection(u) PROVE overlapped' \/ refused'
  <2>1. pc[u] = "waiting" /\ cache[name[u]] # 0 /\ overlapped' = overlapped
    BY <1>3, Zenon DEF InsertConnection
  <2> QED
    BY <2>1 DEF CleanInv, Undisturbed
<1>4. ASSUME NEW u \in Users, StopBackgroundTask(u) PROVE FALSE
  <2>1. pc[u] = "deleting" /\ cache[name[u]] = 0
    BY <1>4, Zenon DEF StopBackgroundTask
  <2> QED
    BY <2>1 DEF SharingInv, DeletersAlone
<1>5. ASSUME NEW u \in Users, EraseConnection(u) PROVE overlapped' \/ refused'
  <2>1. /\ cache[name[u]] # victim[u] \/ worker[conn[u]] # "joined"
        /\ overlapped' = overlapped
    BY <1>5, Zenon DEF EraseConnection
  <2>2. pc[u] = "erasing" /\ victim[u] = conn[u] /\ worker[conn[u]] = "joined"
    BY <1>5 DEF EraseConnection, SharingInv, DeletersAlone
  <2> QED
    BY <2>1, <2>2 DEF CleanInv, Undisturbed
<1>6. ASSUME terminated' = terminated PROVE FALSE
  BY <1>6
<1>7. ASSUME NEW u \in Users, Proceed(u) PROVE overlapped' \/ refused'
  BY <1>2, <1>3, <1>4, <1>5, <1>6, <1>7, Zenon
  DEF Proceed, OwnServerRuns, FindServerUrl, FindServerThrows, StartBackgroundTask, ReadNsIndex,
      ReadNsIndexThrows, JoinBackgroundTask
<1>8. ASSUME NEW u \in Users, Disconnect(u) PROVE FALSE
  BY <1>6, <1>8, Zenon DEF Disconnect
<1>9. ASSUME NEW c \in Conns, WorkerStep(c) PROVE FALSE
  BY <1>6, <1>9, Zenon DEF WorkerStep, ConnectSucceeds, ConnectFails, BackgroundTaskEnds
<1>10. ASSUME ServerStep \/ (\E n \in Names : NetworkStep(n)) \/ UNCHANGED vars PROVE FALSE
  BY <1>6, <1>10, Zenon
  DEF ServerStep, Run, StopRunning, NetworkStep, ServerOnNetwork, ServerStarts, ServerStops, vars
<1> QED
  BY <1>1, <1>7, <1>8, <1>9, <1>10, Zenon DEF Next

-----------------------------------------------------------------------------
(* The theorems.                                                           *)

\* A step that does not end the process keeps the invariant.
LEMMA KeepStep ==
  ASSUME TypeInv, SharingInv, CleanInv, [Next]_vars, ~ terminated'
  PROVE  SharingInv' /\ CleanInv'
<1> USE DEF serverVars, connVars, userVars
<1>1. ASSUME ServerStep \/ (\E n \in Names : NetworkStep(n)) \/ UNCHANGED vars
      PROVE  SharingInv' /\ CleanInv'
  <2>1. UNCHANGED <<cache, worker, pRun, of, pc, name, conn, holds, victim, overlapped, refused>>
    BY <1>1, Zenon
    DEF ServerStep, Run, StopRunning, NetworkStep, ServerOnNetwork, ServerStarts, ServerStops, vars
  <2> QED
    BY <2>1, KeepSame
<1>2. ASSUME NEW u \in Users, OwnServerRuns(u) \/ FindServerUrl(u) \/ FindServerThrows(u)
      PROVE  SharingInv' /\ CleanInv'
  <2>1. \/ pc' = [pc EXCEPT ![u] = "searching"]
        \/ pc' = [pc EXCEPT ![u] = "creating"]
        \/ pc' = [pc EXCEPT ![u] = "idle"]
    BY <1>2, Zenon DEF OwnServerRuns, FindServerUrl, FindServerThrows, Goto
  <2>2. /\ pc[u] \in {"awaiting", "searching"}
        /\ UNCHANGED <<cache, worker, pRun, of, name, conn, holds, victim, overlapped, refused>>
    BY <1>2, Zenon DEF OwnServerRuns, FindServerUrl, FindServerThrows
  <2> QED
    BY <2>1, <2>2, KeepWalk
<1>3. ASSUME NEW u \in Users, NoClient(u) PROVE FALSE
  BY <1>3, Zenon DEF NoClient
<1>4. ASSUME NEW u \in Users, Disconnect(u) \/ Proceed(u) PROVE SharingInv' /\ CleanInv'
  BY <1>2, <1>3, <1>4, KeepStart, KeepInsert, KeepRead, KeepReadThrows, KeepDisconnect, KeepStop,
     KeepJoin, KeepErase, Zenon DEF Proceed
<1>5. ASSUME NEW c \in Conns, WorkerStep(c) PROVE SharingInv' /\ CleanInv'
  BY <1>5, KeepConnect, KeepFails, KeepEnds, Zenon DEF WorkerStep
<1> QED
  BY <1>1, <1>4, <1>5, KeepGet, Zenon DEF Next

\* What has ended does not go on.
LEMMA EndedStays ==
  ASSUME terminated, [Next]_vars
  PROVE  UNCHANGED <<terminated, overlapped, refused>>
BY Zenon
DEF Next, ServerStep, Run, StopRunning, NetworkStep, ServerOnNetwork, ServerStarts, ServerStops,
    GetConnection, Disconnect, Proceed, OwnServerRuns, FindServerUrl, FindServerThrows,
    StartBackgroundTask, NoClient, InsertConnection, ReadNsIndex, ReadNsIndexThrows,
    StopBackgroundTask, JoinBackgroundTask, EraseConnection, WorkerStep, ConnectSucceeds,
    ConnectFails, BackgroundTaskEnds, vars

\* The invariant is inductive.
LEMMA NamingStep == TypeInv /\ NamingInv /\ [Next]_vars => NamingInv'
<1> SUFFICES ASSUME TypeInv, NamingInv, [Next]_vars PROVE NamingInv'
  OBVIOUS
<1>1. CASE terminated
  <2>1. UNCHANGED <<terminated, overlapped, refused>>
    BY <1>1, EndedStays
  <2> QED
    BY <1>1, <2>1, Zenon DEF NamingInv, FaultHasCause
<1>2. CASE ~ terminated /\ terminated'
  <2>1. overlapped' \/ refused'
    BY <1>2, FaultStep, Zenon DEF NamingInv
  <2> QED
    BY <1>2, <2>1, Zenon DEF NamingInv, FaultHasCause
<1>3. CASE ~ terminated /\ ~ terminated'
  <2>1. SharingInv' /\ CleanInv'
    BY <1>3, KeepStep, Zenon DEF NamingInv
  <2> QED
    BY <1>3, <2>1, Zenon DEF NamingInv, FaultHasCause
<1> QED
  BY <1>1, <1>2, <1>3, Zenon

\* The invariant holds.
LEMMA NamingInvariant == Spec => [](TypeInv /\ NamingInv)
<1>1. Init => NamingInv
  BY KeepInit DEF Init, NamingInv, FaultHasCause
<1> QED
  BY <1>1, TypeInit, TypeStep, NamingStep, PTL DEF Spec

\* A held connection is the cached one and its background thread runs, whatever the other
\* users do (clientWithMutexDeletedCallback never ends a connection that is in use).
THEOREM HeldServed == Spec => []HeldIsServed
<1>1. NamingInv => HeldIsServed
  BY Zenon DEF NamingInv, SharingInv, UsersServed, Served, HeldIsServed
<1> QED
  BY <1>1, NamingInvariant, PTL

\* When no call is under way, a connection without users is out of the cache and its
\* background thread has been joined.
THEOREM NoneLeftBehind == Spec => []NothingLeftBehind
<1>1. TypeInv /\ NamingInv => NothingLeftBehind
  <2> SUFFICES ASSUME TypeInv, NamingInv, ~ terminated, \A u \in Users : pc[u] = "idle",
                      NEW c \in Conns, ~ Alive(c)
               PROVE  worker[c] \in {"none", "joined"} /\ \A n \in Names : cache[n] # c
    BY Zenon DEF NothingLeftBehind
  <2>1. CleanInv
    BY Zenon DEF NamingInv
  <2>2. ~ Kept(c)
    BY DEF Kept, Keeps, Uses, Alive, Shares
  <2>3. c # 0
    BY DEF Conns
  <2> QED
    BY <2>1, <2>2, <2>3 DEF CleanInv, EntriesUsed, ThreadsUsed
<1> QED
  BY <1>1, NamingInvariant, PTL

\* The process ends by a fault only after two users were in the naming service at once, or a
\* server refused all attempts to connect.
THEOREM FaultsHaveCause == Spec => []FaultHasCause
<1>1. NamingInv => FaultHasCause
  BY Zenon DEF NamingInv
<1> QED
  BY <1>1, NamingInvariant, PTL
==============================================================================
