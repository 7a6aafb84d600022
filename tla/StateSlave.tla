------------------------------ MODULE StateSlave ------------------------------
(***************************************************************************)
(* The slave side of the component life-cycle (State/StateSlave.cpp): main *)
(* states, the substates that belong to them, the counting locks on        *)
(* substates, and the queue of state-change requests that the update       *)
(* thread works off.                                                       *)
(*                                                                         *)
(* Actors: the local threads of the component, the update thread, and the  *)
(* OPC UA server thread that runs the remote queries of the state masters. *)
(* Every operation runs under one recursive mutex that only the waits on a *)
(* condition variable give up, so an action is the code from one           *)
(* acquisition of the mutex to the next wait or return. A wait ends in two *)
(* steps: the notification (a member of "woken") and, at any later time,   *)
(* the re-acquisition of the mutex (AcquireWake..., SetWaitState...).      *)
(***************************************************************************)
EXTENDS Integers, Sequences, FiniteSets

CONSTANTS
  Threads,          \* local threads of the component
  MainNames,        \* main state names passed to defineStates
  SubNames,         \* substate names passed to defineStates
  Commands,         \* commands the masters send (a subset of StateCommands)
  RemoteStates,     \* main state names the masters send
  LocalCommands,    \* main states local threads pass to setWaitState
  InitialNames,     \* main states passed to setUpInitialState
  LockNames,        \* substates local threads lock
  LockCalls,        \* how they lock them: "acquire", "tryAcquire"
  SpuriousWakeups,  \* TRUE: a wait may end without a notification
  Disciplined,      \* TRUE: a change is requested only if none is outstanding,
                    \* and by a local thread only while it holds no substate
  QueueBound,       \* bound on the length of stateQueue
  MaxHeld,          \* bound on the substates one thread holds
  CountBound        \* bound on the lock counter of a substate

LifecycleStates == {"Init", "Alive", "Neutral", "FatalError", "Shutdown"}
DeactivateCommands == {"Deactivated", "deactivated"}
BuiltinSubStates == {"init", "neutral", "fatalError", "shutdown", "nonneutral"}
StateCommands == {"SET_STATE", "GET_CURRENT_STATE", "GET_MAIN_STATES",
                  "GET_SUB_STATES", "UNKNOWN"}

\* What may not be commanded from the outside.
NotCommandable == {"Init", "init", "Alive", "alive", "FatalError", "fatalerror",
                   "fatalError"}

\* What defineStates refuses as a main state and as a substate.
ReservedMain == NotCommandable \cup DeactivateCommands
                \cup {"Neutral", "neutral", "Shutdown", "shutdown"}
ReservedSub == NotCommandable \cup {"Neutral", "neutral", "Shutdown", "shutdown",
                                    "nonneutral", "nonNeutral", "NonNeutral"}

MainStates == LifecycleStates \cup MainNames \cup RemoteStates \cup LocalCommands
              \cup InitialNames
SubStates == BuiltinSubStates \cup SubNames

\* A request belongs to a master (server_proxy # 0), to the local thread that
\* waits for it, or to nobody any more.
Owners == Threads \cup {"master", "nobody"}
StateEntries == [action : {"CHANGE_STATE", "UNDEFINED"}, state : MainStates,
                 owner : Owners]
Status == {"none", "OK", "NOTACTIVATED", "ACTIVATED", "NOTALLOWED",
           "UNKNOWNSTATE", "CANCELLED", "ERROR"}

ASSUME ThreadsAssumption ==
  /\ IsFiniteSet(Threads)
  /\ "master" \notin Threads
  /\ "nobody" \notin Threads

ASSUME CommandsAssumption ==
  /\ Commands \subseteq StateCommands
  /\ LockNames \subseteq SubStates
  /\ LockCalls \subseteq {"acquire", "tryAcquire"}
  /\ SpuriousWakeups \in BOOLEAN
  /\ Disciplined \in BOOLEAN

ASSUME BoundsAssumption == {QueueBound, MaxHeld, CountBound} \subseteq Nat

VARIABLES
  running,       \* activate() has been called
  currentState,  \* current main state
  initialState,  \* main state entered after Alive
  desired,       \* desiredState: the request that is being processed
  stateQueue,    \* requests not yet taken by the update thread
  mainstates,    \* stateList: the main states of every substate
  cnt,           \* stateList: lock counter of every substate
  action,        \* stateList: what the pending change does to every substate
  active,        \* stateList: STATE_ACTIVATED
  updateThread,  \* "running", "halted" (is_running = false) or "joined"
  pc,            \* where a local thread is
  want,          \* the argument of the call a local thread is in ("Init": none)
  woken,         \* notified threads that have not got the mutex back yet
  held,          \* substates a thread acquired and has not released
  query,         \* the remote query in the server thread and its answer
  ret            \* the status last returned to a local thread

stateListVars == <<mainstates, cnt, action, active>>
threadVars == <<pc, want, woken, held>>
vars == <<running, currentState, initialState, desired, stateQueue, mainstates,
          cnt, action, active, updateThread, pc, want, woken, held, query, ret>>

NoQuery == [cmd |-> "none", state |-> "Init", status |-> "none", list |-> {}]

Entry(m, o) == [action |-> "CHANGE_STATE", state |-> m, owner |-> o]

-----------------------------------------------------------------------------
(* The state list. *)

\* A substate is in stateList: it is predefined or defineStates created it.
Defined(s) == s \in BuiltinSubStates \/ mainstates[s] # {}

ValidMainState(m) ==
  \/ \E s \in SubStates : m \in mainstates[s]
  \/ m \in DeactivateCommands \cup {"Alive"}

ActionFor(s, m) ==
  IF currentState \in mainstates[s] /\ m \notin mainstates[s] THEN "DEACTIVATE"
  ELSE IF currentState \notin mainstates[s] /\ m \in mainstates[s] THEN "ACTIVATE"
  ELSE "NONE"

\* lockedFlag: the change to m deactivates a substate that is locked in c.
Locked(m, c) == \E s \in SubStates : ActionFor(s, m) = "DEACTIVATE" /\ c[s] # 0

\* The main state a change to m ends in.
Target(m) == IF m \in DeactivateCommands THEN "Neutral" ELSE m

SubStatesOf(m) == {s \in SubStates : m \in mainstates[s]}

-----------------------------------------------------------------------------
(* Waiting and answering. *)

ChangePending == desired.action = "CHANGE_STATE"

WaitsForSubState(t, s) == pc[t] \in {"acquirePending", "acquireCounted"} /\ want[t] = s
WaitsForChange(t) == pc[t] \in {"setWait", "setInitial"}

\* No request of a state change is outstanding.
Calm == query = NoQuery /\ \A t \in Threads : ~ WaitsForChange(t)

\* server_proxy->answer(qid, reply), if the request d came from a master.
AnswerMaster(d, status) ==
  query' = IF d.owner = "master" THEN [query EXCEPT !.status = status] ELSE query

\* desiredState with the request done: nothing pending, server_proxy = 0.
Settled(m) == [action |-> "UNDEFINED", state |-> m, owner |-> "nobody"]

\* The call of t returns: nobody waits on the condition of its entries any more.
Disowned(e, t) == IF e.owner = t THEN [e EXCEPT !.owner = "nobody"] ELSE e

-----------------------------------------------------------------------------
(* updateState(), with the request d and the lock counters c.              *)

\* No pending action (a proxy without an action is answered with an error).
NothingPending(d) ==
  /\ d.action = "UNDEFINED"
  /\ desired' = Settled(d.state)
  /\ AnswerMaster(d, "ERROR")
  /\ UNCHANGED <<currentState, action, active, woken>>

\* The requested state is already set: only a master is told.
AlreadySet(d) ==
  /\ d.action = "CHANGE_STATE"
  /\ d.state = currentState
  /\ desired' = Settled(d.state)
  /\ AnswerMaster(d, "OK")
  /\ UNCHANGED <<currentState, action, active, woken>>

RefuseUnknown(d) ==
  /\ d.action = "CHANGE_STATE"
  /\ d.state # currentState
  /\ ~ ValidMainState(d.state)
  /\ desired' = Settled(d.state)
  /\ AnswerMaster(d, "UNKNOWNSTATE")
  /\ UNCHANGED <<currentState, action, active, woken>>

\* Mutant of Postpone: the master is answered although the change is not done.
PostponeAnswers(d, c) ==
  /\ d.action = "CHANGE_STATE"
  /\ d.state # currentState
  /\ ValidMainState(d.state)
  /\ Locked(d.state, c)
  /\ desired' = [d EXCEPT !.owner = "nobody"]
  /\ action' = [s \in SubStates |-> ActionFor(s, d.state)]
  /\ AnswerMaster(d, "OK")
  /\ UNCHANGED <<currentState, active, woken>>

\* Mutant of Postpone: action is not reset to NONE before it is computed.
PostponeKeepsActions(d, c) ==
  /\ d.action = "CHANGE_STATE"
  /\ d.state # currentState
  /\ ValidMainState(d.state)
  /\ Locked(d.state, c)
  /\ desired' = d
  /\ action' = [s \in SubStates |-> IF ActionFor(s, d.state) = "NONE" THEN action[s]
                                    ELSE ActionFor(s, d.state)]
  /\ UNCHANGED <<currentState, active, woken, query>>

\* A substate to be deactivated is locked: the request stays pending.
Postpone(d, c) ==
  /\ d.action = "CHANGE_STATE"
  /\ d.state # currentState
  /\ ValidMainState(d.state)
  /\ Locked(d.state, c)
  /\ desired' = d
  /\ action' = [s \in SubStates |-> ActionFor(s, d.state)]
  /\ UNCHANGED <<currentState, active, woken, query>>

\* Mutant of ActiveAfter: the deferred quit of nonneutral is forgotten.
ActiveAfterKeepsNonneutral(m) ==
  [s \in SubStates |-> CASE ActionFor(s, m) = "DEACTIVATE" /\ s # "nonneutral" -> FALSE
                         [] ActionFor(s, m) = "ACTIVATE" -> TRUE
                         [] OTHER -> active[s]]

\* The active substates after a change to m. nonneutral is quit after and entered
\* before all others, but by the end of the change the order does not show.
ActiveAfter(m) ==
  [s \in SubStates |-> CASE ActionFor(s, m) = "DEACTIVATE" -> FALSE
                         [] ActionFor(s, m) = "ACTIVATE" -> TRUE
                         [] OTHER -> active[s]]

\* Mutants of Notified: the requester is forgotten; every setWaitState is notified.
NotifiedWithoutOwner(d) ==
  {t \in Threads : \E s \in SubStates :
     WaitsForSubState(t, s) /\ (ActiveAfter(d.state)[s] \/ d.state = "Shutdown")}
NotifiedEveryCall(d) == {t \in Threads : WaitsForChange(t)} \cup NotifiedWithoutOwner(d)

\* The threads the performed change d notifies: those that wait for an active
\* substate (for any substate, after Shutdown), and the one that requested it.
Notified(d) ==
  {t \in Threads :
     \/ t = d.owner /\ WaitsForChange(t)
     \/ \E s \in SubStates : /\ WaitsForSubState(t, s)
                             /\ ActiveAfter(d.state)[s] \/ d.state = "Shutdown"}

Perform(d, c) ==
  /\ d.action = "CHANGE_STATE"
  /\ d.state # currentState
  /\ ValidMainState(d.state)
  /\ ~ Locked(d.state, c)
  /\ action' = [s \in SubStates |-> ActionFor(s, d.state)]
  /\ active' = ActiveAfter(d.state)
  /\ currentState' = Target(d.state)
  /\ desired' = Settled(Target(d.state))
  /\ woken' = woken \cup Notified(d)
  /\ AnswerMaster(d, "OK")

UpdateState(d, c) ==
  \/ NothingPending(d)
  \/ AlreadySet(d)
  \/ RefuseUnknown(d)
  \/ Postpone(d, c)
  \/ Perform(d, c)

-----------------------------------------------------------------------------
(* The update thread.                                                      *)

\* updateStateFromThread(): takes the next request, whatever was pending, and
\* halts the thread once that was a Shutdown.
UpdateStateFromThread ==
  /\ updateThread = "running"
  /\ stateQueue # <<>>
  /\ stateQueue' = Tail(stateQueue)
  /\ UpdateState(Head(stateQueue), cnt)
  /\ updateThread' = IF Head(stateQueue).state = "Shutdown" THEN "halted" ELSE updateThread
  /\ UNCHANGED <<running, initialState, mainstates, cnt, pc, want, held, ret>>

-----------------------------------------------------------------------------
(* Remote queries: one at a time in the OPC UA server thread, which leaves *)
(* QueryServer::methodCallback only when the answer is there.              *)

\* The answer hndSetMainState gives at once, "none" if it enqueues the request.
Verdict(m) ==
  IF ~ running THEN "NOTACTIVATED"
  ELSE IF m \in NotCommandable THEN "NOTALLOWED"
  ELSE IF m = "Shutdown" THEN "none"
  ELSE IF currentState = "Init" THEN "NOTACTIVATED"
  ELSE IF currentState \in {"Shutdown", "FatalError"} THEN "CANCELLED"
  ELSE "none"

HndSetMainState(m) ==
  /\ query' = [NoQuery EXCEPT !.cmd = "SET_STATE", !.state = m, !.status = Verdict(m)]
  /\ \/ Verdict(m) # "none" /\ UNCHANGED stateQueue
     \/ /\ Verdict(m) = "none"
        /\ Len(stateQueue) < QueueBound
        /\ stateQueue' = IF m = "Shutdown" THEN <<Entry(m, "master")>> \o stateQueue
                                           ELSE Append(stateQueue, Entry(m, "master"))

HndGetCurrentState ==
  query' = [NoQuery EXCEPT !.cmd = "GET_CURRENT_STATE",
                           !.status = IF running THEN "OK" ELSE "NOTACTIVATED",
                           !.list = IF running THEN {currentState} ELSE {}]

HndGetMainStates ==
  query' = [NoQuery EXCEPT !.cmd = "GET_MAIN_STATES",
                           !.status = IF running THEN "OK" ELSE "NOTACTIVATED",
                           !.list = IF running THEN {"Neutral"} \cup mainstates["nonneutral"]
                                               ELSE {}]

HndGetSubStates(m) ==
  query' = [NoQuery EXCEPT !.cmd = "GET_SUB_STATES", !.state = m,
                           !.status = IF ~ running THEN "NOTACTIVATED"
                                      ELSE IF SubStatesOf(m) = {} THEN "UNKNOWNSTATE"
                                      ELSE "OK",
                           !.list = IF running THEN SubStatesOf(m) ELSE {}]

\* StateSlaveHandler::handleQuery (an unknown command gets no answer).
HandleQuery(cmd, m) ==
  /\ query = NoQuery
  /\ \/ cmd = "SET_STATE" /\ (Disciplined => Calm) /\ HndSetMainState(m)
     \/ cmd = "GET_CURRENT_STATE" /\ HndGetCurrentState /\ UNCHANGED stateQueue
     \/ cmd = "GET_MAIN_STATES" /\ HndGetMainStates /\ UNCHANGED stateQueue
     \/ cmd = "GET_SUB_STATES" /\ HndGetSubStates(m) /\ UNCHANGED stateQueue
     \/ /\ cmd = "UNKNOWN"
        /\ query' = [NoQuery EXCEPT !.cmd = "UNKNOWN"]
        /\ UNCHANGED stateQueue
  /\ UNCHANGED <<running, currentState, initialState, desired, stateListVars,
                 updateThread, threadVars, ret>>

\* The server thread finds the answer, sends it and forgets it.
MethodReturn ==
  /\ query.status # "none"
  /\ query' = NoQuery
  /\ UNCHANGED <<running, currentState, initialState, desired, stateQueue,
                 stateListVars, updateThread, threadVars, ret>>

-----------------------------------------------------------------------------
(* Configuration by the component: defineStates, setUpInitialState,        *)
(* activate and the destructor.                                            *)

DefineStates(m, s) ==
  /\ ret' = IF running THEN "ACTIVATED"
            ELSE IF m \in ReservedMain \/ s \in ReservedSub THEN "NOTALLOWED"
            ELSE "OK"
  /\ mainstates' = IF ret' = "OK"
                   THEN [mainstates EXCEPT !["nonneutral"] = @ \cup {m}, ![s] = @ \cup {m}]
                   ELSE mainstates
  /\ UNCHANGED <<running, currentState, initialState, desired, stateQueue, cnt, action,
                 active, updateThread, threadVars, query>>

SetUpInitialState(m) ==
  /\ \/ /\ m = "Neutral" \/ m \in mainstates["nonneutral"]
        /\ initialState' = m
        /\ ret' = "OK"
     \/ /\ m # "Neutral" /\ m \notin mainstates["nonneutral"]
        /\ ret' = "ERROR"
        /\ UNCHANGED initialState
  /\ UNCHANGED <<running, currentState, desired, stateQueue, stateListVars,
                 updateThread, threadVars, query>>

Activate ==
  /\ running' = TRUE
  /\ ret' = "OK"
  /\ UNCHANGED <<currentState, initialState, desired, stateQueue, stateListVars,
                 updateThread, threadVars, query>>

\* ~StateSlave: shutdown() stops and joins the update thread. Nobody may be
\* inside the object or come back to it.
Destroy ==
  /\ query = NoQuery
  /\ \A t \in Threads : pc[t] = "idle" /\ held[t] = {}
  /\ running' = FALSE
  /\ updateThread' = "joined"
  /\ UNCHANGED <<currentState, initialState, desired, stateQueue, stateListVars,
                 threadVars, query, ret>>

-----------------------------------------------------------------------------
(* setWaitState().                                                         *)

\* The status setWaitState returns at once, "none" if it enqueues and waits.
LocalVerdict(m) ==
  IF ~ running THEN "NOTACTIVATED"
  ELSE IF m \notin {"Alive", "FatalError", "Shutdown"} THEN "NOTALLOWED"
  ELSE IF currentState = "Init" THEN "none"
  ELSE IF currentState = "Shutdown" THEN IF m = "Shutdown" THEN "OK" ELSE "NOTALLOWED"
  ELSE IF currentState = "FatalError" THEN IF m = "Shutdown" THEN "none"
                                           ELSE IF m = "FatalError" THEN "OK"
                                           ELSE "NOTALLOWED"
  ELSE IF m = "Alive" THEN "OK" ELSE "none"

SetWaitState(t, m) ==
  /\ pc[t] = "idle"
  /\ Disciplined => Calm /\ held[t] = {}
  /\ \/ /\ LocalVerdict(m) # "none"
        /\ ret' = LocalVerdict(m)
        /\ UNCHANGED <<stateQueue, pc, want>>
     \/ /\ LocalVerdict(m) = "none"
        /\ Len(stateQueue) < QueueBound
        /\ stateQueue' = <<Entry(m, t)>> \o stateQueue
        /\ pc' = [pc EXCEPT ![t] = "setWait"]
        /\ want' = [want EXCEPT ![t] = m]
        /\ UNCHANGED ret
  /\ UNCHANGED <<running, currentState, initialState, desired, stateListVars,
                 updateThread, woken, held, query>>

\* The wait for Alive is over: request the initial main state, wait again.
SetWaitStateInitial(t) ==
  /\ pc[t] = "setWait" /\ want[t] = "Alive"
  /\ t \in woken
  /\ Len(stateQueue) < QueueBound
  /\ stateQueue' = Append(stateQueue, Entry(initialState, t))
  /\ pc' = [pc EXCEPT ![t] = "setInitial"]
  /\ woken' = woken \ {t}
  /\ UNCHANGED <<running, currentState, initialState, desired, stateListVars,
                 updateThread, want, held, query, ret>>

SetWaitStateReturn(t) ==
  /\ pc[t] = "setInitial" \/ (pc[t] = "setWait" /\ want[t] # "Alive")
  /\ t \in woken
  /\ pc' = [pc EXCEPT ![t] = "idle"]
  /\ want' = [want EXCEPT ![t] = "Init"]
  /\ woken' = woken \ {t}
  /\ desired' = Disowned(desired, t)
  /\ stateQueue' = [i \in DOMAIN stateQueue |-> Disowned(stateQueue[i], t)]
  /\ ret' = "OK"
  /\ UNCHANGED <<running, currentState, initialState, stateListVars, updateThread,
                 held, query>>

-----------------------------------------------------------------------------
(* Locks on substates. A thread does not acquire what it already holds.    *)

MayLock(t, s) ==
  /\ pc[t] = "idle"
  /\ s \notin held[t]
  /\ Cardinality(held[t]) < MaxHeld
  /\ cnt[s] < CountBound

\* The substate is active and no pending change touches it.
Free(s) == active[s] /\ (ChangePending => action[s] = "NONE")

\* Mutant of Grant: the lock is not counted.
GrantUncounted(t, s) ==
  /\ held' = [held EXCEPT ![t] = @ \cup {s}]
  /\ ret' = "OK"
  /\ UNCHANGED cnt

\* Lock s for t and return SMART_OK.
Grant(t, s) ==
  /\ cnt' = [cnt EXCEPT ![s] = @ + 1]
  /\ held' = [held EXCEPT ![t] = @ \cup {s}]
  /\ ret' = "OK"

\* Mutant of WaitCounted: the lock is not counted before the wait.
WaitUncounted(t, s) ==
  /\ pc' = [pc EXCEPT ![t] = "acquireCounted"]
  /\ want' = [want EXCEPT ![t] = s]
  /\ UNCHANGED <<cnt, held, ret>>

\* Count the lock of s, then wait for s to become active.
WaitCounted(t, s) ==
  /\ cnt' = [cnt EXCEPT ![s] = @ + 1]
  /\ pc' = [pc EXCEPT ![t] = "acquireCounted"]
  /\ want' = [want EXCEPT ![t] = s]
  /\ UNCHANGED <<held, ret>>

\* A call on s that returns an error, or that is refused, changes nothing.
LockRefused(status) == ret' = status /\ UNCHANGED <<cnt, held>>

LockCallFails(s) ==
  \/ ~ running /\ LockRefused("NOTACTIVATED")
  \/ running /\ ~ Defined(s) /\ LockRefused("UNKNOWNSTATE")

Acquire(t, s) ==
  /\ MayLock(t, s)
  /\ \/ LockCallFails(s) /\ UNCHANGED <<pc, want>>
     \/ /\ running /\ Defined(s)
        /\ \/ /\ Free(s)
              /\ ~ (ChangePending /\ currentState = "Shutdown")
              /\ Grant(t, s)
              /\ UNCHANGED <<pc, want>>
           \/ /\ currentState = "Shutdown" /\ (Free(s) <=> ChangePending)
              /\ LockRefused("NOTACTIVATED")
              /\ UNCHANGED <<pc, want>>
           \/ \* wait without the lock until the pending change is through
              /\ ~ Free(s) /\ ChangePending
              /\ pc' = [pc EXCEPT ![t] = "acquirePending"]
              /\ want' = [want EXCEPT ![t] = s]
              /\ UNCHANGED <<cnt, held, ret>>
           \/ \* wait with the lock already counted
              /\ ~ Free(s) /\ ~ ChangePending /\ currentState # "Shutdown"
              /\ WaitCounted(t, s)
  /\ UNCHANGED <<running, currentState, initialState, desired, stateQueue, mainstates,
                 action, active, updateThread, woken, query>>

AcquirePendingWake(t) ==
  /\ pc[t] = "acquirePending"
  /\ t \in woken
  /\ \/ currentState = "Shutdown" /\ LockRefused("NOTACTIVATED")
     \/ currentState # "Shutdown" /\ Grant(t, want[t])
  /\ pc' = [pc EXCEPT ![t] = "idle"]
  /\ want' = [want EXCEPT ![t] = "Init"]
  /\ woken' = woken \ {t}
  /\ UNCHANGED <<running, currentState, initialState, desired, stateQueue, mainstates,
                 action, active, updateThread, query>>

AcquireCountedWake(t) ==
  /\ pc[t] = "acquireCounted"
  /\ t \in woken
  /\ \/ /\ currentState = "Shutdown"
        /\ cnt' = [cnt EXCEPT ![want[t]] = @ - 1]
        /\ ret' = "NOTACTIVATED"
        /\ UNCHANGED held
     \/ /\ currentState # "Shutdown"
        /\ held' = [held EXCEPT ![t] = @ \cup {want[t]}]
        /\ ret' = "OK"
        /\ UNCHANGED cnt
  /\ pc' = [pc EXCEPT ![t] = "idle"]
  /\ want' = [want EXCEPT ![t] = "Init"]
  /\ woken' = woken \ {t}
  /\ UNCHANGED <<running, currentState, initialState, desired, stateQueue, mainstates,
                 action, active, updateThread, query>>

TryAcquire(t, s) ==
  /\ MayLock(t, s)
  /\ \/ LockCallFails(s)
     \/ running /\ Defined(s) /\ Free(s) /\ Grant(t, s)
     \/ running /\ Defined(s) /\ ~ Free(s) /\ LockRefused("NOTACTIVATED")
  /\ UNCHANGED <<running, currentState, initialState, desired, stateQueue, mainstates,
                 action, active, updateThread, pc, want, woken, query>>

\* The counters after release(s): an inactive substate keeps its count.
Released(s) == IF active[s] /\ cnt[s] > 0 THEN [cnt EXCEPT ![s] = @ - 1] ELSE cnt

\* Mutant of Release: a pending change is not looked at.
ReleaseWithoutUpdate(t, s) ==
  /\ pc[t] = "idle"
  /\ s \in held[t]
  /\ running
  /\ cnt' = Released(s)
  /\ held' = [held EXCEPT ![t] = @ \ {s}]
  /\ ret' = "OK"
  /\ UNCHANGED <<running, currentState, initialState, desired, stateQueue, mainstates,
                 action, active, updateThread, pc, want, woken, query>>

\* release() goes on with a change that waited for this lock.
Release(t, s) ==
  /\ pc[t] = "idle"
  /\ s \in held[t]
  /\ running
  /\ cnt' = Released(s)
  /\ held' = [held EXCEPT ![t] = @ \ {s}]
  /\ UpdateState(desired, Released(s))
  /\ ret' = "OK"
  /\ UNCHANGED <<running, initialState, stateQueue, mainstates, updateThread, pc, want>>

\* A wait on a condition variable may end without a notification.
SpuriousWakeup(t) ==
  /\ SpuriousWakeups
  /\ pc[t] # "idle"
  /\ t \notin woken
  /\ woken' = woken \cup {t}
  /\ UNCHANGED <<running, currentState, initialState, desired, stateQueue, stateListVars,
                 updateThread, pc, want, held, query, ret>>

-----------------------------------------------------------------------------
Init ==
  /\ running = FALSE
  /\ currentState = "Init"
  /\ initialState = "Neutral"
  /\ desired = Settled("Init")
  /\ stateQueue = <<>>
  /\ mainstates = [s \in SubStates |->
                     CASE s = "init" -> {"Init"}
                       [] s = "neutral" -> {"Neutral"}
                       [] s = "fatalError" -> {"FatalError"}
                       [] s = "shutdown" -> {"Shutdown"}
                       [] OTHER -> {}]
  /\ cnt = [s \in SubStates |-> 0]
  /\ action = [s \in SubStates |-> "NONE"]
  /\ active = [s \in SubStates |-> s = "init"]
  /\ updateThread = "running"
  /\ pc = [t \in Threads |-> "idle"]
  /\ want = [t \in Threads |-> "Init"]
  /\ woken = {}
  /\ held = [t \in Threads |-> {}]
  /\ query = NoQuery
  /\ ret = "none"

LocalThread(t) ==
  \/ \E m \in LocalCommands : SetWaitState(t, m)
  \/ SetWaitStateInitial(t)
  \/ SetWaitStateReturn(t)
  \/ \E s \in LockNames : "acquire" \in LockCalls /\ Acquire(t, s)
  \/ AcquirePendingWake(t)
  \/ AcquireCountedWake(t)
  \/ \E s \in LockNames : "tryAcquire" \in LockCalls /\ TryAcquire(t, s)
  \/ \E s \in LockNames : Release(t, s)
  \/ SpuriousWakeup(t)

Next ==
  /\ updateThread # "joined"
  /\ \/ \E m \in MainNames, s \in SubNames : DefineStates(m, s)
     \/ \E m \in InitialNames : SetUpInitialState(m)
     \/ Activate
     \/ UpdateStateFromThread
     \/ \E cmd \in Commands, m \in RemoteStates : HandleQuery(cmd, m)
     \/ MethodReturn
     \/ \E t \in Threads : LocalThread(t)
     \/ Destroy

Spec == Init /\ [][Next]_vars

-----------------------------------------------------------------------------
(* Properties.                                                             *)

\* Type correctness: the lock counters, which release() and acquire() decrement, stay
\* natural numbers, and every request names a known state and owner.
TypeOK ==
  /\ running \in BOOLEAN
  /\ currentState \in MainStates
  /\ initialState \in MainStates
  /\ desired \in StateEntries
  /\ stateQueue \in Seq(StateEntries)
  /\ mainstates \in [SubStates -> SUBSET MainStates]
  /\ cnt \in [SubStates -> Nat]
  /\ action \in [SubStates -> {"NONE", "ACTIVATE", "DEACTIVATE"}]
  /\ active \in [SubStates -> BOOLEAN]
  /\ updateThread \in {"running", "halted", "joined"}
  /\ pc \in [Threads -> {"idle", "setWait", "setInitial", "acquirePending", "acquireCounted"}]
  /\ want \in [Threads -> MainStates \cup SubStates]
  /\ woken \in SUBSET Threads
  /\ held \in [Threads -> SUBSET SubStates]
  /\ query \in [cmd : StateCommands \cup {"none"}, state : MainStates, status : Status,
                list : SUBSET (MainStates \cup SubStates)]
  /\ ret \in Status

\* The threads that count on the lock of s: they hold it or wait with it counted.
Lockers(s) ==
  {t \in Threads : s \in held[t] \/ (pc[t] = "acquireCounted" /\ want[t] = s)}

\* Every lock handed out by acquire and tryAcquire, and every lock counted for a
\* waiting acquire, is still in the counter that postpones the state change.
LocksAreCounted == \A s \in SubStates : cnt[s] >= Cardinality(Lockers(s))

\* A state change never quits a substate while a thread holds it.
NoQuitWhileHeld ==
  [][\A t \in Threads, s \in SubStates :
       active[s] /\ ~ active'[s] => s \notin held[t] \/ s \notin held'[t]]_vars

\* A postponed request is blocked by a lock at this moment: whoever removes the last
\* lock performs the change, no release is missed (release() calls updateState()).
PendingIsBlocked == ChangePending => Locked(desired.state, cnt)

\* While a change is pending the action of every substate is the one for this change,
\* so acquire and tryAcquire decide on it and not on a leftover of an earlier change.
ActionsAreFresh ==
  ChangePending => \A s \in SubStates : action[s] = ActionFor(s, desired.state)

\* An active substate belongs to the current main state, over all sequences of
\* changes, Deactivated and Alive included.
ActiveBelongs == \A s \in SubStates : active[s] => currentState \in mainstates[s]

\* No step leads out of the main state Shutdown (StateSlave.cpp:725, "no successive
\* states"), whatever was queued or pending when it was reached.
ShutdownIsFinal == [][currentState = "Shutdown" => currentState' = "Shutdown"]_vars

\* A master that is told SMART_OK finds the slave in the state it asked for.
OkMeansReached ==
  [][query.cmd = "SET_STATE" /\ query.status = "none" /\ query'.status = "OK"
       => currentState' = Target(query.state)]_vars

\* The order of a master, as the abstract life-cycle sees it.
Order ==
  IF query.cmd = "SET_STATE" THEN [given |-> TRUE, state |-> query.state, status |-> query.status]
  ELSE [given |-> FALSE, state |-> "Init", status |-> "none"]

Life == INSTANCE Lifecycle
          WITH Deactivations <- DeactivateCommands, MayWait <- "acquire" \in LockCalls,
               main <- currentState, belongs <- mainstates, holds <- held, order <- Order,
               on <- {s \in SubStates : active[s]}

\* To the threads of the component and to its masters the slave is a Lifecycle: changes
\* quit and enter the right substates and none that is locked, and end in Shutdown; an
\* order is answered once, and with SMART_OK only in the state it asked for.
ImplementsLifecycle == Life!Spec

\* A thread that waits in acquire with its lock counted and is notified finds its
\* substate active when it gets the mutex back, unless the slave is shut down.
CountedWaiterFindsActive ==
  \A t \in woken :
    pc[t] = "acquireCounted" => active[want[t]] \/ currentState = "Shutdown"

\* setWaitState("Shutdown") returns only in the main state Shutdown.
ShutdownCallEndsInShutdown ==
  [][\A t \in Threads : WaitsForChange(t) /\ want[t] = "Shutdown" /\ pc'[t] = "idle"
       => currentState' = "Shutdown"]_vars

\* The request of o is in the queue or pending.
Outstanding(o) ==
  \/ \E i \in DOMAIN stateQueue : stateQueue[i].owner = o
  \/ ChangePending /\ desired.owner = o

\* The request of a master that has no answer yet is queued or pending: it did not
\* disappear when updateStateFromThread() overwrote desiredState.
NoMasterForgotten == query.cmd = "SET_STATE" /\ query.status = "none" => Outstanding("master")

-----------------------------------------------------------------------------
(* Fairness: the update thread polls for ever, the server thread polls for *)
(* its answer, a notified thread gets the mutex back, and a thread that    *)
(* holds a substate eventually releases it.                                *)

Fairness ==
  /\ WF_vars(UpdateStateFromThread)
  /\ WF_vars(MethodReturn)
  /\ \A t \in Threads :
       /\ WF_vars(SetWaitStateInitial(t))
       /\ WF_vars(SetWaitStateReturn(t))
       /\ WF_vars(AcquirePendingWake(t))
       /\ WF_vars(AcquireCountedWake(t))
       /\ WF_vars(\E s \in LockNames : Release(t, s))

FairSpec == Spec /\ Fairness

\* The server thread leaves every query: the master is answered and the server goes on.
QueryReturns == query # NoQuery ~> query = NoQuery

\* A blocking setWaitState of a local thread returns.
SetWaitStateReturns == \A t \in Threads : WaitsForChange(t) ~> ~ WaitsForChange(t)
=============================================================================
