-------------------------- MODULE StateSlaveProofs --------------------------
(***************************************************************************)
(* Theorems about StateSlave, for every set of threads, states, commands   *)
(* and every bound, with or without spurious wakeups unless a theorem says *)
(* so.                                                                     *)
(*                                                                         *)
(* Type correctness is not inductive alone: acquire takes a counted lock   *)
(* back after Shutdown, and only LocksAreCounted says that the counter is  *)
(* not zero then. LocksAreCounted in turn needs WaitersWant.               *)
(***************************************************************************)
EXTENDS StateSlave, FiniteSetTheorems, TLAPS

\* A thread waits in acquire for a substate that it does not hold.
WaitersWant ==
  \A t \in Threads : pc[t] \in {"acquirePending", "acquireCounted"} =>
                       want[t] \in SubStates /\ want[t] \notin held[t]

\* Nothing is requested and nobody waits before activate().
QuietBeforeActivation ==
  ~ running /\ updateThread # "joined" =>
    ~ ChangePending /\ stateQueue = <<>> /\ \A t \in Threads : pc[t] = "idle"

\* Shutdown is requested last: once it is being processed the update thread is halted.
ShutdownHalts ==
  /\ currentState = "Shutdown" => updateThread # "running" /\ ~ ChangePending
  /\ ChangePending /\ desired.state = "Shutdown" => updateThread # "running"

\* No substate belongs to a deactivation command.
CommandsAreNoStates == \A s \in SubStates : mainstates[s] \cap DeactivateCommands = {}

\* Three inductive invariants; the second and the third are inductive relative to the first.
CountInv == TypeOK /\ WaitersWant /\ LocksAreCounted
ChangeInv == QuietBeforeActivation /\ ShutdownHalts /\ PendingIsBlocked /\ ActionsAreFresh
ActiveInv == CommandsAreNoStates /\ ActiveBelongs
-----------------------------------------------------------------------------
(* Cardinalities of sets of threads.                                       *)

\* A set of threads has a cardinality, which is at least 1 if a thread is in it.
LEMMA ThreadSets ==
  ASSUME NEW S \in SUBSET Threads
  PROVE  /\ IsFiniteSet(S)
         /\ Cardinality(S) \in Nat
         /\ \A t \in S : Cardinality(S) >= 1
<1>1. IsFiniteSet(S)
  BY FS_Subset, ThreadsAssumption
<1>2. Cardinality(S) \in Nat
  BY <1>1, FS_CardinalityType
<1>3. ASSUME NEW t \in S PROVE Cardinality(S) >= 1
  <2>1. Cardinality(S) # 0
    BY <1>1, FS_EmptySet
  <2>2. QED
    BY <2>1, <1>2
<1>4. QED
  BY <1>1, <1>2, <1>3

\* Adding one thread adds at most one to the cardinality.
LEMMA ThreadSetsGrow ==
  ASSUME NEW S \in SUBSET Threads, NEW T \in SUBSET Threads, NEW t \in Threads,
         T \subseteq S \cup {t}
  PROVE  Cardinality(T) <= Cardinality(S) + 1
<1>1. IsFiniteSet(S) /\ Cardinality(S) \in Nat /\ Cardinality(T) \in Nat
  BY ThreadSets
<1>2. IsFiniteSet(S \cup {t}) /\ Cardinality(S \cup {t}) <= Cardinality(S) + 1
       /\ Cardinality(S \cup {t}) \in Nat
  BY <1>1, FS_AddElement
<1>3. Cardinality(T) <= Cardinality(S \cup {t})
  BY <1>2, FS_Subset
<1>4. QED
  BY <1>1, <1>2, <1>3

\* A subset is not larger; without one of its threads a set is smaller by one.
LEMMA ThreadSetsShrink ==
  ASSUME NEW S \in SUBSET Threads, NEW T \in SUBSET S
  PROVE  /\ Cardinality(T) <= Cardinality(S)
         /\ \A t \in S \ T : Cardinality(T) <= Cardinality(S) - 1
<1>1. IsFiniteSet(S) /\ Cardinality(S) \in Nat /\ Cardinality(T) \in Nat
  BY ThreadSets
<1>2. Cardinality(T) <= Cardinality(S)
  BY <1>1, FS_Subset
<1>3. ASSUME NEW t \in S \ T PROVE Cardinality(T) <= Cardinality(S) - 1
  <2>1. IsFiniteSet(S \ {t}) /\ Cardinality(S \ {t}) = Cardinality(S) - 1
    BY <1>1, FS_RemoveElement
  <2>2. T \in SUBSET (S \ {t})
    OBVIOUS
  <2>3. Cardinality(T) <= Cardinality(S \ {t})
    BY <2>1, <2>2, FS_Subset
  <2>4. QED
    BY <2>1, <2>3, <1>1
<1>4. QED
  BY <1>2, <1>3
-----------------------------------------------------------------------------
(* Type correctness.                                                       *)

\* Every outcome of updateState() leaves well-typed values.
LEMMA UpdateStateType ==
  ASSUME TypeOK, NEW d \in StateEntries, NEW c, UpdateState(d, c)
  PROVE  /\ currentState' \in MainStates
         /\ desired' \in StateEntries
         /\ action' \in [SubStates -> {"NONE", "ACTIVATE", "DEACTIVATE"}]
         /\ active' \in [SubStates -> BOOLEAN]
         /\ woken' \in SUBSET Threads
         /\ query' \in [cmd : StateCommands \cup {"none"}, state : MainStates,
                        status : Status, list : SUBSET (MainStates \cup SubStates)]
<1> USE DEF TypeOK
<1>1. \A st \in Status : AnswerMaster(d, st) =>
        query' \in [cmd : StateCommands \cup {"none"}, state : MainStates,
                    status : Status, list : SUBSET (MainStates \cup SubStates)]
  BY DEF AnswerMaster
<1>2. \A m \in MainStates : Settled(m) \in StateEntries
  BY DEF Settled, StateEntries, Owners
<1>3. d.state \in MainStates /\ Target(d.state) \in MainStates
  BY DEF StateEntries, Target, MainStates, LifecycleStates
<1>4. {"OK", "ERROR", "UNKNOWNSTATE"} \subseteq Status
  BY DEF Status
<1>5. \A s : ActionFor(s, d.state) \in {"NONE", "ACTIVATE", "DEACTIVATE"}
  BY DEF ActionFor
<1>6. CASE NothingPending(d)
  BY <1>6, <1>1, <1>2, <1>3, <1>4 DEF NothingPending
<1>7. CASE AlreadySet(d)
  BY <1>7, <1>1, <1>2, <1>3, <1>4 DEF AlreadySet
<1>8. CASE RefuseUnknown(d)
  BY <1>8, <1>1, <1>2, <1>3, <1>4 DEF RefuseUnknown
<1>9. CASE Postpone(d, c)
  BY <1>9, <1>5 DEF Postpone
<1>10. CASE Perform(d, c)
  <2>1. active' \in [SubStates -> BOOLEAN]
    BY <1>10, <1>5 DEF Perform, ActiveAfter
  <2>2. woken' \in SUBSET Threads
    BY <1>10 DEF Perform, Notified
  <2>3. QED
    BY <2>1, <2>2, <1>10, <1>1, <1>2, <1>3, <1>4, <1>5 DEF Perform
<1>11. QED
  BY <1>6, <1>7, <1>8, <1>9, <1>10 DEF UpdateState

\* Every answer, immediate or not, is well-typed.
LEMMA HandleQueryType ==
  ASSUME TypeOK, NEW cmd \in Commands, NEW m \in RemoteStates, HandleQuery(cmd, m)
  PROVE  TypeOK'
<1> USE DEF TypeOK
<1> DEFINE Queries == [cmd : StateCommands \cup {"none"}, state : MainStates,
                       status : Status, list : SUBSET (MainStates \cup SubStates)]
<1>1. m \in MainStates /\ "Init" \in MainStates /\ "Neutral" \in MainStates
  BY DEF MainStates, LifecycleStates
<1>2. Verdict(m) \in Status /\ "none" \in Status /\ "OK" \in Status
       /\ "NOTACTIVATED" \in Status /\ "UNKNOWNSTATE" \in Status
  BY DEF Verdict, Status
<1>3. "nonneutral" \in SubStates /\ SubStatesOf(m) \subseteq SubStates
  BY DEF SubStates, BuiltinSubStates, SubStatesOf
<1>4. Entry(m, "master") \in StateEntries
  BY <1>1 DEF Entry, StateEntries, Owners
<1>5. query' \in Queries /\ stateQueue' \in Seq(StateEntries)
  <2>1. CASE HndSetMainState(m)
    <3>1. query' \in Queries
      BY <2>1, <1>1, <1>2 DEF HndSetMainState, NoQuery, StateCommands
    <3>2. CASE UNCHANGED stateQueue
      BY <3>1, <3>2
    <3>3. CASE stateQueue' = <<Entry(m, "master")>> \o stateQueue
      BY <3>1, <3>3, <1>4
    <3>4. CASE stateQueue' = Append(stateQueue, Entry(m, "master"))
      BY <3>1, <3>4, <1>4
    <3>5. QED
      BY <2>1, <3>2, <3>3, <3>4 DEF HndSetMainState
  <2>2. CASE HndGetCurrentState /\ UNCHANGED stateQueue
    BY <2>2, <1>1, <1>2 DEF HndGetCurrentState, NoQuery, StateCommands
  <2>3. CASE HndGetMainStates /\ UNCHANGED stateQueue
    BY <2>3, <1>1, <1>2, <1>3 DEF HndGetMainStates, NoQuery, StateCommands
  <2>4. CASE HndGetSubStates(m) /\ UNCHANGED stateQueue
    BY <2>4, <1>1, <1>2, <1>3 DEF HndGetSubStates, NoQuery, StateCommands
  <2>5. CASE query' = [NoQuery EXCEPT !.cmd = "UNKNOWN"] /\ UNCHANGED stateQueue
    BY <2>5, <1>1, <1>2 DEF NoQuery, StateCommands
  <2>6. QED
    BY <2>1, <2>2, <2>3, <2>4, <2>5 DEF HandleQuery
<1>6. QED
  BY <1>5 DEF HandleQuery, stateListVars, threadVars

\* The steps of a local thread keep the types. The counter that acquire takes back after
\* Shutdown is not zero because the waiting thread is one of its lockers.
LEMMA LocalThreadType ==
  ASSUME CountInv, NEW t \in Threads, LocalThread(t)
  PROVE  TypeOK'
<1> USE DEF CountInv
<1>1. TypeOK
  OBVIOUS
<1> USE <1>1 DEF TypeOK
<1>2. {"none", "OK", "NOTACTIVATED", "NOTALLOWED", "UNKNOWNSTATE"} \subseteq Status
  BY DEF Status
<1>3. "Init" \in MainStates
  BY DEF MainStates, LifecycleStates
<1> DEFINE PCs == {"idle", "setWait", "setInitial", "acquirePending", "acquireCounted"}
<1>4. \A x \in PCs : [pc EXCEPT ![t] = x] \in [Threads -> PCs]
  OBVIOUS
<1>5. \A x \in MainStates \cup SubStates :
        [want EXCEPT ![t] = x] \in [Threads -> MainStates \cup SubStates]
  OBVIOUS
<1>6. \A s \in SubStates : [cnt EXCEPT ![s] = @ + 1] \in [SubStates -> Nat]
  OBVIOUS
<1>7. \A s \in SubStates : held[t] \cup {s} \in SUBSET SubStates
  OBVIOUS
<1>8. \A s \in SubStates : [held EXCEPT ![t] = @ \cup {s}] \in [Threads -> SUBSET SubStates]
  BY <1>7
<1>9. CASE \E m \in LocalCommands : SetWaitState(t, m)
  <2>1. PICK m \in LocalCommands : SetWaitState(t, m)
    BY <1>9
  <2>2. m \in MainStates
    BY DEF MainStates
  <2>3. LocalVerdict(m) \in Status
    BY DEF LocalVerdict, Status
  <2>4. Entry(m, t) \in StateEntries
    BY <2>2 DEF Entry, StateEntries, Owners
  <2>5. <<Entry(m, t)>> \o stateQueue \in Seq(StateEntries)
    BY <2>4
  <2>6. stateQueue' \in Seq(StateEntries)
    BY <2>1, <2>5 DEF SetWaitState
  <2>7. ret' \in Status
    BY <2>1, <2>3 DEF SetWaitState
  <2>8. pc' \in [Threads -> PCs]
    BY <2>1, <1>4 DEF SetWaitState
  <2>9. want' \in [Threads -> MainStates \cup SubStates]
    BY <2>1, <2>2, <1>5 DEF SetWaitState
  <2>10. QED
    BY <2>1, <2>6, <2>7, <2>8, <2>9 DEF SetWaitState, stateListVars
<1>10. CASE SetWaitStateInitial(t)
  <2>1. Entry(initialState, t) \in StateEntries
    BY DEF Entry, StateEntries, Owners
  <2>2. stateQueue' \in Seq(StateEntries)
    BY <1>10, <2>1 DEF SetWaitStateInitial
  <2>3. QED
    BY <1>10, <2>2 DEF SetWaitStateInitial, stateListVars
<1>11. CASE SetWaitStateReturn(t)
  <2>1. \A e \in StateEntries : Disowned(e, t) \in StateEntries
    BY DEF Disowned, StateEntries, Owners
  <2>2. [i \in DOMAIN stateQueue |-> Disowned(stateQueue[i], t)] \in Seq(StateEntries)
    BY <2>1
  <2>3. stateQueue' \in Seq(StateEntries) /\ desired' \in StateEntries
    BY <1>11, <2>1, <2>2 DEF SetWaitStateReturn
  <2>4. QED
    BY <1>11, <1>2, <1>3, <2>3 DEF SetWaitStateReturn, stateListVars
<1>12. CASE \E s \in LockNames : Acquire(t, s)
  <2>1. PICK s \in LockNames : Acquire(t, s)
    BY <1>12
  <2>2. s \in SubStates
    BY CommandsAssumption
  <2>3. cnt' \in [SubStates -> Nat]
    BY <2>1, <2>2, <1>6 DEF Acquire, LockCallFails, LockRefused, Grant, WaitCounted
  <2>4. held' \in [Threads -> SUBSET SubStates]
    <3>1. UNCHANGED held \/ held' = [held EXCEPT ![t] = @ \cup {s}]
      BY <2>1 DEF Acquire, LockCallFails, LockRefused, Grant, WaitCounted
    <3>2. QED
      BY <3>1, <2>2, <1>8
  <2>5. ret' \in Status
    BY <2>1, <1>2 DEF Acquire, LockCallFails, LockRefused, Grant, WaitCounted
  <2>6. pc' \in [Threads -> PCs]
    BY <2>1, <1>4 DEF Acquire, WaitCounted
  <2>7. want' \in [Threads -> MainStates \cup SubStates]
    BY <2>1, <2>2, <1>5 DEF Acquire, WaitCounted
  <2>8. QED
    BY <2>1, <2>3, <2>4, <2>5, <2>6, <2>7 DEF Acquire
<1>13. CASE AcquirePendingWake(t)
  <2>1. want[t] \in SubStates
    BY <1>13 DEF WaitersWant, AcquirePendingWake
  <2>2. /\ cnt' \in [SubStates -> Nat]
        /\ held' \in [Threads -> SUBSET SubStates]
    BY <1>13, <2>1, <1>6, <1>8 DEF AcquirePendingWake, LockRefused, Grant
  <2>3. ret' \in Status
    BY <1>13, <1>2 DEF AcquirePendingWake, LockRefused, Grant
  <2>4. QED
    BY <1>13, <1>3, <2>2, <2>3 DEF AcquirePendingWake
<1>14. CASE AcquireCountedWake(t)
  <2>1. want[t] \in SubStates
    BY <1>14 DEF WaitersWant, AcquireCountedWake
  <2>2. t \in Lockers(want[t]) /\ Lockers(want[t]) \in SUBSET Threads
    BY <1>14 DEF AcquireCountedWake, Lockers
  <2>3. Cardinality(Lockers(want[t])) >= 1 /\ Cardinality(Lockers(want[t])) \in Nat
    BY <2>2, ThreadSets
  <2>4. cnt[want[t]] \in Nat /\ cnt[want[t]] >= Cardinality(Lockers(want[t]))
    BY <2>1 DEF LocksAreCounted
  <2>5. cnt[want[t]] - 1 \in Nat
    BY <2>3, <2>4
  <2>6. cnt' \in [SubStates -> Nat]
    BY <1>14, <2>1, <2>5 DEF AcquireCountedWake
  <2>7. held' \in [Threads -> SUBSET SubStates]
    BY <1>14, <2>1, <1>8 DEF AcquireCountedWake
  <2>8. QED
    BY <1>14, <1>2, <1>3, <2>6, <2>7 DEF AcquireCountedWake
<1>15. CASE \E s \in LockNames : TryAcquire(t, s)
  <2>1. PICK s \in LockNames : TryAcquire(t, s)
    BY <1>15
  <2>2. s \in SubStates
    BY CommandsAssumption
  <2>3. /\ cnt' \in [SubStates -> Nat]
        /\ held' \in [Threads -> SUBSET SubStates]
    BY <2>1, <2>2, <1>6, <1>8 DEF TryAcquire, LockCallFails, LockRefused, Grant
  <2>4. ret' \in Status
    BY <2>1, <1>2 DEF TryAcquire, LockCallFails, LockRefused, Grant
  <2>5. QED
    BY <2>1, <2>3, <2>4 DEF TryAcquire
<1>16. CASE \E s \in LockNames : Release(t, s)
  <2>1. PICK s \in LockNames : Release(t, s)
    BY <1>16
  <2>2. s \in SubStates
    BY CommandsAssumption
  <2>3. Released(s) \in [SubStates -> Nat]
    BY <2>2 DEF Released
  <2>4. UpdateState(desired, Released(s))
    BY <2>1 DEF Release
  <2>5. QED
    BY <2>1, <2>2, <2>3, <2>4, <1>2, UpdateStateType DEF Release
<1>17. CASE SpuriousWakeup(t)
  BY <1>17 DEF SpuriousWakeup, stateListVars
<1>18. QED
  BY <1>9, <1>10, <1>11, <1>12, <1>13, <1>14, <1>15, <1>16, <1>17 DEF LocalThread

\* One step of the whole slave keeps the types.
LEMMA TypeStep ==
  ASSUME CountInv, [Next]_vars
  PROVE  TypeOK'
<1>1. TypeOK
  BY DEF CountInv
<1>2. CASE \E m \in MainNames, s \in SubNames : DefineStates(m, s)
  <2>1. PICK m \in MainNames, s \in SubNames : DefineStates(m, s)
    BY <1>2
  <2>2. m \in MainStates /\ s \in SubStates /\ "nonneutral" \in SubStates
    BY DEF MainStates, SubStates, BuiltinSubStates
  <2>3. mainstates' \in [SubStates -> SUBSET MainStates] /\ ret' \in Status
    BY <2>1, <2>2, <1>1 DEF DefineStates, TypeOK, Status
  <2>4. QED
    BY <2>1, <2>3, <1>1 DEF DefineStates, TypeOK, threadVars
<1>3. CASE \E m \in InitialNames : SetUpInitialState(m)
  BY <1>3, <1>1 DEF SetUpInitialState, TypeOK, MainStates, Status, stateListVars, threadVars
<1>4. CASE Activate
  BY <1>4, <1>1 DEF Activate, TypeOK, Status, stateListVars, threadVars
<1>5. CASE UpdateStateFromThread
  <2>1. Head(stateQueue) \in StateEntries /\ Tail(stateQueue) \in Seq(StateEntries)
    BY <1>5, <1>1 DEF UpdateStateFromThread, TypeOK
  <2>2. UpdateState(Head(stateQueue), cnt)
    BY <1>5 DEF UpdateStateFromThread
  <2>3. QED
    BY <1>1, <1>5, <2>1, <2>2, UpdateStateType DEF UpdateStateFromThread, TypeOK
<1>6. CASE \E cmd \in Commands, m \in RemoteStates : HandleQuery(cmd, m)
  BY <1>1, <1>6, HandleQueryType
<1>7. CASE MethodReturn
  BY <1>7, <1>1 DEF MethodReturn, TypeOK, NoQuery, Status, MainStates, LifecycleStates,
                    stateListVars, threadVars
<1>8. CASE \E t \in Threads : LocalThread(t)
  BY <1>8, LocalThreadType
<1>9. CASE Destroy
  BY <1>9, <1>1 DEF Destroy, TypeOK, stateListVars, threadVars
<1>10. CASE UNCHANGED vars
  BY <1>10, <1>1 DEF vars, TypeOK
<1>11. QED
  BY <1>2, <1>3, <1>4, <1>5, <1>6, <1>7, <1>8, <1>9, <1>10 DEF Next

-----------------------------------------------------------------------------
(* Locks.                                                                  *)

\* The steps that keep LocksAreCounted: the lockers of one substate s gain the thread t
\* together with its count, stay, or lose t, whose count may then go; the lockers of the
\* other substates do not grow and their counters do not shrink.
LEMMA CountStep ==
  ASSUME TypeOK, TypeOK', LocksAreCounted, NEW t \in Threads, NEW s \in SubStates,
         \A x \in SubStates \ {s} : Lockers(x)' \subseteq Lockers(x) /\ cnt'[x] >= cnt[x],
         \/ cnt'[s] = cnt[s] + 1 /\ Lockers(s)' \subseteq Lockers(s) \cup {t}
         \/ cnt'[s] = cnt[s] /\ Lockers(s)' \subseteq Lockers(s)
         \/ /\ cnt'[s] = cnt[s] - 1
            /\ t \in Lockers(s)
            /\ Lockers(s)' \subseteq Lockers(s) \ {t}
  PROVE  LocksAreCounted'
<1>1. \A x \in SubStates : /\ Lockers(x) \in SUBSET Threads
                           /\ Lockers(x)' \in SUBSET Threads
  BY DEF Lockers
<1>2. \A x \in SubStates : /\ Cardinality(Lockers(x)) \in Nat
                           /\ Cardinality(Lockers(x)') \in Nat
  BY <1>1, ThreadSets
<1>3. \A x \in SubStates : cnt[x] \in Nat /\ cnt'[x] \in Nat
                           /\ cnt[x] >= Cardinality(Lockers(x))
  BY DEF TypeOK, LocksAreCounted
<1>4. ASSUME NEW x \in SubStates \ {s} PROVE cnt'[x] >= Cardinality(Lockers(x)')
  <2>1. Cardinality(Lockers(x)') <= Cardinality(Lockers(x))
    BY <1>1, ThreadSetsShrink
  <2>2. cnt'[x] >= cnt[x]
    OBVIOUS
  <2>3. QED
    BY <2>1, <2>2, <1>2, <1>3
<1>5. cnt'[s] >= Cardinality(Lockers(s)')
  <2>1. CASE cnt'[s] = cnt[s] + 1 /\ Lockers(s)' \subseteq Lockers(s) \cup {t}
    <3>1. Cardinality(Lockers(s)') <= Cardinality(Lockers(s)) + 1
      BY <2>1, <1>1, ThreadSetsGrow
    <3>2. QED
      BY <3>1, <2>1, <1>2, <1>3
  <2>2. CASE cnt'[s] = cnt[s] /\ Lockers(s)' \subseteq Lockers(s)
    <3>1. Cardinality(Lockers(s)') <= Cardinality(Lockers(s))
      BY <2>2, <1>1, ThreadSetsShrink
    <3>2. QED
      BY <3>1, <2>2, <1>2, <1>3
  <2>3. CASE /\ cnt'[s] = cnt[s] - 1
             /\ t \in Lockers(s)
             /\ Lockers(s)' \subseteq Lockers(s) \ {t}
    <3>1. Lockers(s)' \in SUBSET Lockers(s) /\ t \in Lockers(s) \ Lockers(s)'
      BY <2>3
    <3>2. Cardinality(Lockers(s)') <= Cardinality(Lockers(s)) - 1
      BY <3>1, <1>1, ThreadSetsShrink
    <3>3. QED
      BY <3>2, <2>3, <1>2, <1>3
  <2>4. QED
    BY <2>1, <2>2, <2>3
<1>6. QED
  BY <1>4, <1>5 DEF LocksAreCounted

\* A step that leaves the counters, the held substates and the counted waits alone.
LEMMA CountUntouched ==
  ASSUME LocksAreCounted, UNCHANGED <<cnt, held>>,
         \A x \in Threads, s \in SubStates :
           (pc'[x] = "acquireCounted" /\ want'[x] = s)
             => (pc[x] = "acquireCounted" /\ want[x] = s),
         \A x \in Threads, s \in SubStates :
           (pc[x] = "acquireCounted" /\ want[x] = s)
             => (pc'[x] = "acquireCounted" /\ want'[x] = s)
  PROVE  LocksAreCounted'
<1>1. \A s \in SubStates : Lockers(s)' = Lockers(s)
  BY DEF Lockers
<1>2. QED
  BY <1>1 DEF LocksAreCounted

\* The steps of a local thread keep the locks counted.
LEMMA LocalThreadCount ==
  ASSUME CountInv, TypeOK', NEW t \in Threads, LocalThread(t)
  PROVE  LocksAreCounted'
<1>1. TypeOK /\ WaitersWant /\ LocksAreCounted
  BY DEF CountInv
<1>2. pc \in [Threads -> {"idle", "setWait", "setInitial", "acquirePending", "acquireCounted"}]
      /\ DOMAIN want = Threads /\ DOMAIN held = Threads /\ DOMAIN cnt = SubStates
  BY <1>1 DEF TypeOK
<1>3. CASE \E m \in LocalCommands : SetWaitState(t, m)
  BY <1>1, <1>2, <1>3, CountUntouched DEF SetWaitState, stateListVars
<1>4. CASE SetWaitStateInitial(t)
  BY <1>1, <1>2, <1>4, CountUntouched DEF SetWaitStateInitial, stateListVars
<1>5. CASE SetWaitStateReturn(t)
  BY <1>1, <1>2, <1>5, CountUntouched DEF SetWaitStateReturn, stateListVars
<1>6. CASE \E s \in LockNames : Acquire(t, s)
  <2>1. PICK s \in LockNames : Acquire(t, s)
    BY <1>6
  <2>2. s \in SubStates /\ pc[t] = "idle"
    BY <2>1, CommandsAssumption DEF Acquire, MayLock
  <2>3. CASE UNCHANGED <<cnt, held>>
    <3>1. pc' = pc \/ pc' = [pc EXCEPT ![t] = "acquirePending"] \/ WaitCounted(t, s)
      BY <2>1 DEF Acquire
    <3>2. ~ WaitCounted(t, s)
      BY <2>2, <2>3, <1>1 DEF WaitCounted, TypeOK
    <3>3. want' = want \/ want' = [want EXCEPT ![t] = s]
      BY <2>1 DEF Acquire, WaitCounted
    <3>4. \A x \in Threads : pc'[x] = "acquireCounted" <=> pc[x] = "acquireCounted"
      BY <3>1, <3>2, <2>2, <1>2
    <3>5. \A x \in Threads : pc[x] = "acquireCounted" => want'[x] = want[x]
      BY <3>3, <2>2, <1>2
    <3>6. QED
      BY <3>4, <3>5, <2>3, <1>1, CountUntouched
  <2>4. CASE Grant(t, s) /\ UNCHANGED <<pc, want>>
    <3>1. \A x \in SubStates \ {s} : Lockers(x)' \subseteq Lockers(x) /\ cnt'[x] = cnt[x]
      BY <2>2, <2>4, <1>2 DEF Grant, Lockers
    <3>2. cnt'[s] = cnt[s] + 1 /\ Lockers(s)' \subseteq Lockers(s) \cup {t}
      BY <2>2, <2>4, <1>2 DEF Grant, Lockers
    <3>3. \A x \in SubStates \ {s} : cnt'[x] >= cnt[x]
      BY <3>1, <1>1 DEF TypeOK
    <3>4. QED
      BY <3>1, <3>2, <3>3, <2>2, <1>1, CountStep
  <2>5. CASE WaitCounted(t, s)
    <3>1. \A x \in SubStates \ {s} : Lockers(x)' \subseteq Lockers(x) /\ cnt'[x] = cnt[x]
      BY <2>2, <2>5, <1>2 DEF WaitCounted, Lockers
    <3>2. cnt'[s] = cnt[s] + 1 /\ Lockers(s)' \subseteq Lockers(s) \cup {t}
      BY <2>2, <2>5, <1>2 DEF WaitCounted, Lockers
    <3>3. \A x \in SubStates \ {s} : cnt'[x] >= cnt[x]
      BY <3>1, <1>1 DEF TypeOK
    <3>4. QED
      BY <3>1, <3>2, <3>3, <2>2, <1>1, CountStep
  <2>6. QED
    BY <2>1, <2>3, <2>4, <2>5 DEF Acquire, LockCallFails, LockRefused
<1>7. CASE AcquirePendingWake(t)
  <2>1. PICK s \in SubStates : s = want[t]
    BY <1>1, <1>7 DEF WaitersWant, AcquirePendingWake
  <2>2. pc[t] = "acquirePending" /\ pc' = [pc EXCEPT ![t] = "idle"]
        /\ want' = [want EXCEPT ![t] = "Init"]
    BY <1>7 DEF AcquirePendingWake
  <2>3. CASE UNCHANGED <<cnt, held>>
    BY <2>2, <2>3, <1>1, <1>2, CountUntouched
  <2>4. CASE Grant(t, s)
    <3>1. \A x \in SubStates \ {s} : Lockers(x)' \subseteq Lockers(x) /\ cnt'[x] = cnt[x]
      BY <2>2, <2>4, <1>2 DEF Grant, Lockers
    <3>2. cnt'[s] = cnt[s] + 1 /\ Lockers(s)' \subseteq Lockers(s) \cup {t}
      BY <2>2, <2>4, <1>2 DEF Grant, Lockers
    <3>3. \A x \in SubStates \ {s} : cnt'[x] >= cnt[x]
      BY <3>1, <1>1 DEF TypeOK
    <3>4. QED
      BY <3>1, <3>2, <3>3, <1>1, CountStep
  <2>5. QED
    BY <1>7, <2>1, <2>3, <2>4 DEF AcquirePendingWake, LockRefused
<1>8. CASE AcquireCountedWake(t)
  <2>1. PICK s \in SubStates : s = want[t]
    BY <1>1, <1>8 DEF WaitersWant, AcquireCountedWake
  <2>2. pc[t] = "acquireCounted" /\ pc' = [pc EXCEPT ![t] = "idle"]
        /\ want' = [want EXCEPT ![t] = "Init"] /\ s \notin held[t]
    BY <1>1, <1>8, <2>1 DEF AcquireCountedWake, WaitersWant
  <2>3. t \in Lockers(s)
    BY <2>1, <2>2 DEF Lockers
  <2>4. CASE cnt' = [cnt EXCEPT ![s] = @ - 1] /\ UNCHANGED held
    <3>1. \A x \in SubStates \ {s} : Lockers(x)' \subseteq Lockers(x) /\ cnt'[x] = cnt[x]
      BY <2>1, <2>2, <2>4, <1>2 DEF Lockers
    <3>2. cnt'[s] = cnt[s] - 1 /\ Lockers(s)' \subseteq Lockers(s) \ {t}
      BY <2>1, <2>2, <2>4, <1>2 DEF Lockers
    <3>3. \A x \in SubStates \ {s} : cnt'[x] >= cnt[x]
      BY <3>1, <1>1 DEF TypeOK
    <3>4. QED
      BY <3>1, <3>2, <3>3, <2>3, <1>1, CountStep
  <2>5. CASE held' = [held EXCEPT ![t] = @ \cup {s}] /\ UNCHANGED cnt
    <3>1. \A x \in SubStates : Lockers(x)' \subseteq Lockers(x) /\ cnt'[x] = cnt[x]
      BY <2>1, <2>2, <2>5, <1>2 DEF Lockers
    <3>2. \A x \in SubStates \ {s} : cnt'[x] >= cnt[x]
      BY <3>1, <1>1 DEF TypeOK
    <3>3. QED
      BY <3>1, <3>2, <1>1, CountStep
  <2>6. QED
    BY <1>8, <2>1, <2>4, <2>5 DEF AcquireCountedWake
<1>9. CASE \E s \in LockNames : TryAcquire(t, s)
  <2>1. PICK s \in LockNames : TryAcquire(t, s)
    BY <1>9
  <2>2. s \in SubStates /\ UNCHANGED <<pc, want>>
    BY <2>1, CommandsAssumption DEF TryAcquire
  <2>3. CASE UNCHANGED <<cnt, held>>
    BY <2>2, <2>3, <1>1, CountUntouched
  <2>4. CASE Grant(t, s)
    <3>1. \A x \in SubStates \ {s} : Lockers(x)' \subseteq Lockers(x) /\ cnt'[x] = cnt[x]
      BY <2>2, <2>4, <1>2 DEF Grant, Lockers
    <3>2. cnt'[s] = cnt[s] + 1 /\ Lockers(s)' \subseteq Lockers(s) \cup {t}
      BY <2>2, <2>4, <1>2 DEF Grant, Lockers
    <3>3. \A x \in SubStates \ {s} : cnt'[x] >= cnt[x]
      BY <3>1, <1>1 DEF TypeOK
    <3>4. QED
      BY <3>1, <3>2, <3>3, <2>2, <1>1, CountStep
  <2>5. QED
    BY <2>1, <2>3, <2>4 DEF TryAcquire, LockCallFails, LockRefused
<1>10. CASE \E s \in LockNames : Release(t, s)
  <2>1. PICK s \in LockNames : Release(t, s)
    BY <1>10
  <2>2. /\ s \in SubStates /\ UNCHANGED <<pc, want>>
        /\ pc[t] = "idle" /\ s \in held[t]
        /\ held' = [held EXCEPT ![t] = @ \ {s}]
    BY <2>1, CommandsAssumption DEF Release
  <2>3. cnt' = cnt \/ cnt' = [cnt EXCEPT ![s] = @ - 1]
    BY <2>1 DEF Release, Released
  <2>4. \A x \in SubStates \ {s} : Lockers(x)' \subseteq Lockers(x) /\ cnt'[x] = cnt[x]
    BY <2>2, <2>3, <1>2 DEF Lockers
  <2>5. t \in Lockers(s) /\ Lockers(s)' \subseteq Lockers(s) \ {t}
    BY <2>2, <1>2 DEF Lockers
  <2>6. cnt'[s] = cnt[s] \/ cnt'[s] = cnt[s] - 1
    BY <2>2, <2>3, <1>2
  <2>7. \A x \in SubStates \ {s} : cnt'[x] >= cnt[x]
    BY <2>4, <1>1 DEF TypeOK
  <2>8. Lockers(s)' \subseteq Lockers(s)
    BY <2>5
  <2>9. QED
    BY <2>2, <2>4, <2>5, <2>6, <2>7, <2>8, <1>1, CountStep
<1>11. CASE SpuriousWakeup(t)
  BY <1>1, <1>11, CountUntouched DEF SpuriousWakeup, stateListVars
<1>12. QED
  BY <1>3, <1>4, <1>5, <1>6, <1>7, <1>8, <1>9, <1>10, <1>11 DEF LocalThread

\* What a thread waits for stays outside of what it holds.
LEMMA WaitersWantStep ==
  ASSUME CountInv, [Next]_vars
  PROVE  WaitersWant'
<1>1. TypeOK /\ WaitersWant
  BY DEF CountInv
<1>2. /\ pc \in [Threads -> {"idle", "setWait", "setInitial", "acquirePending",
                             "acquireCounted"}]
      /\ DOMAIN want = Threads /\ DOMAIN held = Threads
  BY <1>1 DEF TypeOK
<1>3. CASE UNCHANGED <<pc, want, held>>
  BY <1>1, <1>3 DEF WaitersWant
<1>4. ASSUME NEW t \in Threads, LocalThread(t) PROVE WaitersWant'
  <2>1. CASE \E m \in LocalCommands : SetWaitState(t, m)
    BY <2>1, <1>1, <1>2 DEF SetWaitState, WaitersWant
  <2>2. CASE SetWaitStateInitial(t)
    BY <2>2, <1>1, <1>2 DEF SetWaitStateInitial, WaitersWant
  <2>3. CASE SetWaitStateReturn(t)
    BY <2>3, <1>1, <1>2 DEF SetWaitStateReturn, WaitersWant
  <2>4. CASE \E s \in LockNames : Acquire(t, s)
    <3>1. PICK s \in LockNames : Acquire(t, s)
      BY <2>4
    <3>2. s \in SubStates /\ pc[t] = "idle" /\ s \notin held[t]
      BY <3>1, CommandsAssumption DEF Acquire, MayLock
    <3>3. CASE UNCHANGED <<pc, want>> /\ (UNCHANGED held \/ held' = [held EXCEPT ![t] = @ \cup {s}])
      BY <3>2, <3>3, <1>1, <1>2 DEF WaitersWant
    <3>4. CASE /\ pc' = [pc EXCEPT ![t] = "acquirePending"]
               /\ want' = [want EXCEPT ![t] = s]
               /\ UNCHANGED held
      BY <3>2, <3>4, <1>1, <1>2 DEF WaitersWant
    <3>5. CASE WaitCounted(t, s)
      BY <3>2, <3>5, <1>1, <1>2 DEF WaitersWant, WaitCounted
    <3>6. QED
      BY <3>1, <3>3, <3>4, <3>5 DEF Acquire, LockCallFails, LockRefused, Grant
  <2>5. CASE AcquirePendingWake(t)
    BY <2>5, <1>1, <1>2 DEF AcquirePendingWake, LockRefused, Grant, WaitersWant
  <2>6. CASE AcquireCountedWake(t)
    BY <2>6, <1>1, <1>2 DEF AcquireCountedWake, WaitersWant
  <2>7. CASE \E s \in LockNames : TryAcquire(t, s)
    BY <2>7, <1>1, <1>2 DEF TryAcquire, MayLock, LockCallFails, LockRefused, Grant, WaitersWant
  <2>8. CASE \E s \in LockNames : Release(t, s)
    BY <2>8, <1>1, <1>2 DEF Release, WaitersWant
  <2>9. CASE SpuriousWakeup(t)
    BY <2>9, <1>3 DEF SpuriousWakeup
  <2>10. QED
    BY <1>4, <2>1, <2>2, <2>3, <2>4, <2>5, <2>6, <2>7, <2>8, <2>9 DEF LocalThread
<1>5. QED
  BY <1>3, <1>4
  DEF Next, DefineStates, SetUpInitialState, Activate, UpdateStateFromThread, HandleQuery,
      MethodReturn, Destroy, threadVars, vars

\* Every step keeps the locks counted.
LEMMA LocksStep ==
  ASSUME CountInv, TypeOK', [Next]_vars
  PROVE  LocksAreCounted'
<1>1. CASE \E t \in Threads : LocalThread(t)
  BY <1>1, LocalThreadCount
<1>2. CASE UNCHANGED <<cnt, held, pc, want>>
  BY <1>2, CountUntouched DEF CountInv
<1>3. QED
  BY <1>1, <1>2
  DEF Next, DefineStates, SetUpInitialState, Activate, UpdateStateFromThread, HandleQuery,
      MethodReturn, Destroy, threadVars, stateListVars, vars

\* Initially nobody holds or waits for anything.
LEMMA CountInit == Init => CountInv
<1> SUFFICES ASSUME Init PROVE CountInv
  OBVIOUS
<1>1. TypeOK
  <2>1. mainstates \in [SubStates -> SUBSET MainStates]
    BY DEF Init, MainStates, LifecycleStates
  <2>2. desired \in StateEntries
    BY DEF Init, Settled, StateEntries, Owners, MainStates, LifecycleStates
  <2>3. query \in [cmd : StateCommands \cup {"none"}, state : MainStates, status : Status,
                   list : SUBSET (MainStates \cup SubStates)]
    BY DEF Init, NoQuery, Status, MainStates, LifecycleStates
  <2>4. "Init" \in MainStates /\ "Neutral" \in MainStates /\ "none" \in Status
    BY DEF MainStates, LifecycleStates, Status
  <2>5. stateQueue \in Seq(StateEntries)
    BY DEF Init
  <2>6. active \in [SubStates -> BOOLEAN] /\ cnt \in [SubStates -> Nat]
    BY DEF Init
  <2>7. action \in [SubStates -> {"NONE", "ACTIVATE", "DEACTIVATE"}]
    BY DEF Init
  <2>8. /\ held \in [Threads -> SUBSET SubStates]
        /\ want \in [Threads -> MainStates \cup SubStates]
    BY <2>4 DEF Init
  <2>9. QED
    BY <2>1, <2>2, <2>3, <2>4, <2>5, <2>6, <2>7, <2>8 DEF Init, TypeOK
<1>2. WaitersWant
  BY DEF Init, WaitersWant
<1>3. ASSUME NEW s \in SubStates PROVE Lockers(s) = {}
  <2>1. ASSUME NEW t \in Threads PROVE held[t] = {} /\ pc[t] = "idle"
    BY DEF Init
  <2>2. QED
    BY <2>1 DEF Lockers
<1>4. LocksAreCounted
  <2>1. \A s \in SubStates : cnt[s] = 0
    BY DEF Init
  <2>2. \A s \in SubStates : Cardinality(Lockers(s)) = 0
    BY <1>3, FS_EmptySet
  <2>3. QED
    BY <2>1, <2>2 DEF LocksAreCounted
<1>5. QED
  BY <1>1, <1>2, <1>4 DEF CountInv

\* The inductive invariant of the locks.
THEOREM CountInvariant == Spec => []CountInv
<1>1. CountInv /\ [Next]_vars => CountInv'
  BY TypeStep, WaitersWantStep, LocksStep DEF CountInv
<1>2. QED
  BY CountInit, <1>1, PTL DEF Spec

\* Every variable of the slave keeps its type; in particular no lock counter ever
\* becomes negative.
THEOREM TypeCorrect == Spec => []TypeOK
<1>1. CountInv => TypeOK
  BY DEF CountInv
<1>2. QED
  BY <1>1, CountInvariant, PTL

\* Every lock that a thread holds or waits for with its count is in the counter that
\* postpones state changes.
THEOREM LocksCounted == Spec => []LocksAreCounted
<1>1. CountInv => LocksAreCounted
  BY DEF CountInv
<1>2. QED
  BY <1>1, CountInvariant, PTL

\* A substate that updateState() quits has no count.
LEMMA QuitIsUnlocked ==
  ASSUME TypeOK, NEW d, NEW c, UpdateState(d, c), NEW s \in SubStates,
         active[s], ~ active'[s]
  PROVE  c[s] = 0
<1>1. Perform(d, c)
  BY DEF UpdateState, NothingPending, AlreadySet, RefuseUnknown, Postpone
<1>2. active' = ActiveAfter(d.state) /\ ~ Locked(d.state, c)
  BY <1>1 DEF Perform
<1>3. ActionFor(s, d.state) = "DEACTIVATE"
  BY <1>2 DEF ActiveAfter, ActionFor
<1>4. QED
  BY <1>2, <1>3 DEF Locked

\* A step that quits a substate leaves nobody with a lock on it.
LEMMA QuitStep ==
  ASSUME CountInv, CountInv', [Next]_vars, NEW t \in Threads, NEW s \in SubStates,
         active[s], ~ active'[s]
  PROVE  s \notin held'[t]
<1>1. TypeOK /\ TypeOK' /\ LocksAreCounted'
  BY DEF CountInv
<1>2. cnt'[s] = 0
  <2>1. CASE UpdateStateFromThread
    BY <2>1, <1>1, QuitIsUnlocked DEF UpdateStateFromThread
  <2>2. CASE \E x \in Threads, y \in LockNames : Release(x, y)
    BY <2>2, <1>1, QuitIsUnlocked DEF Release
  <2>3. CASE UNCHANGED active
    BY <2>3
  <2>4. QED
    BY <2>1, <2>2, <2>3
    DEF Next, DefineStates, SetUpInitialState, Activate, HandleQuery, MethodReturn,
        Destroy, LocalThread, SetWaitState, SetWaitStateInitial, SetWaitStateReturn,
        Acquire, AcquirePendingWake, AcquireCountedWake, TryAcquire, SpuriousWakeup,
        stateListVars, vars
<1>3. Lockers(s)' \in SUBSET Threads
  BY DEF Lockers
<1>4. Cardinality(Lockers(s)') \in Nat /\ Cardinality(Lockers(s)') <= 0
  BY <1>1, <1>2, <1>3, ThreadSets DEF LocksAreCounted
<1>5. t \notin Lockers(s)'
  BY <1>3, <1>4, ThreadSets
<1>6. QED
  BY <1>5 DEF Lockers

\* No state change quits a substate while a thread holds it, whatever the other threads
\* acquire and release.
THEOREM NoQuitWhileHeldHolds == Spec => NoQuitWhileHeld
<1> DEFINE A == \A t \in Threads, s \in SubStates :
                  active[s] /\ ~ active'[s] => s \notin held[t] \/ s \notin held'[t]
<1>1. CountInv /\ CountInv' /\ [Next]_vars => [A]_vars
  BY QuitStep
<1>2. QED
  BY <1>1, CountInvariant, PTL DEF Spec, NoQuitWhileHeld
-----------------------------------------------------------------------------
(* Pending changes and Shutdown.                                           *)

\* updateState() leaves a request pending only by postponing it.
LEMMA UpdateStateOutcome ==
  ASSUME TypeOK, NEW d \in StateEntries, NEW c, UpdateState(d, c)
  PROVE  \/ ~ ChangePending' /\ UNCHANGED currentState
         \/ /\ ~ ChangePending'
            /\ d.action = "CHANGE_STATE"
            /\ currentState' = Target(d.state)
         \/ Postpone(d, c)
<1>1. \A m : Settled(m).action # "CHANGE_STATE"
  BY DEF Settled
<1>2. QED
  BY <1>1 DEF UpdateState, NothingPending, AlreadySet, RefuseUnknown, Perform, ChangePending

\* After a call of updateState() with the counters of the next state a pending request
\* is blocked and the actions are its actions.
LEMMA UpdateStatePending ==
  ASSUME TypeOK, NEW d \in StateEntries, UpdateState(d, cnt'), UNCHANGED mainstates
  PROVE  PendingIsBlocked' /\ ActionsAreFresh'
<1>1. CASE ~ ChangePending'
  BY <1>1 DEF PendingIsBlocked, ActionsAreFresh
<1>2. CASE Postpone(d, cnt')
  <2>1. UNCHANGED currentState /\ desired' = d /\ Locked(d.state, cnt')
        /\ action' = [s \in SubStates |-> ActionFor(s, d.state)]
    BY <1>2 DEF Postpone
  <2>2. Locked(desired.state, cnt)'
    BY <2>1 DEF Locked, ActionFor
  <2>3. (\A s \in SubStates : action[s] = ActionFor(s, desired.state))'
    BY <2>1 DEF ActionFor
  <2>4. QED
    BY <2>2, <2>3 DEF PendingIsBlocked, ActionsAreFresh
<1>3. QED
  BY <1>1, <1>2, UpdateStateOutcome

\* A step that does not touch the request or the states, and takes no last lock away.
LEMMA PendingUntouched ==
  ASSUME PendingIsBlocked, ActionsAreFresh,
         UNCHANGED <<currentState, mainstates, action>>,
         desired'.action = desired.action, desired'.state = desired.state,
         \A s \in SubStates : cnt[s] # 0 => cnt'[s] # 0
  PROVE  PendingIsBlocked' /\ ActionsAreFresh'
<1>1. Locked(desired.state, cnt) => Locked(desired.state, cnt)'
  BY DEF Locked, ActionFor
<1>2. (\A s \in SubStates : action[s] = ActionFor(s, desired.state))
        => (\A s \in SubStates : action[s] = ActionFor(s, desired.state))'
  BY DEF ActionFor
<1>3. QED
  BY <1>1, <1>2 DEF PendingIsBlocked, ActionsAreFresh, ChangePending

\* The steps of a local thread other than release keep the pending request blocked.
LEMMA LocalThreadPending ==
  ASSUME CountInv, ChangeInv, NEW t \in Threads, LocalThread(t),
         ~ \E s \in LockNames : Release(t, s)
  PROVE  PendingIsBlocked' /\ ActionsAreFresh'
<1>1. cnt \in [SubStates -> Nat] /\ desired \in StateEntries /\ WaitersWant
  BY DEF CountInv, TypeOK
<1>2. PendingIsBlocked /\ ActionsAreFresh
  BY DEF ChangeInv
<1>3. UNCHANGED <<currentState, mainstates, action>>
  BY DEF LocalThread, SetWaitState, SetWaitStateInitial, SetWaitStateReturn, Acquire,
         AcquirePendingWake, AcquireCountedWake, TryAcquire, SpuriousWakeup, stateListVars
<1>4. desired'.action = desired.action /\ desired'.state = desired.state
  <2>1. CASE SetWaitStateReturn(t)
    BY <2>1, <1>1 DEF SetWaitStateReturn, Disowned, StateEntries
  <2>2. CASE UNCHANGED desired
    BY <2>2
  <2>3. QED
    BY <2>1, <2>2 DEF LocalThread, SetWaitState, SetWaitStateInitial, Acquire,
       AcquirePendingWake, AcquireCountedWake, TryAcquire, SpuriousWakeup
<1>5. ASSUME NEW s \in SubStates, cnt' = [cnt EXCEPT ![s] = @ + 1]
      PROVE  \A x \in SubStates : cnt[x] # 0 => cnt'[x] # 0
  BY <1>1, <1>5
<1>6. CASE UNCHANGED cnt
  BY <1>2, <1>3, <1>4, <1>6, PendingUntouched
<1>7. CASE \E s \in SubStates : cnt' = [cnt EXCEPT ![s] = @ + 1]
  BY <1>2, <1>3, <1>4, <1>5, <1>7, PendingUntouched
<1>8. CASE currentState = "Shutdown"
  <2>1. ~ ChangePending'
    BY <1>4, <1>8 DEF ChangeInv, ShutdownHalts, ChangePending
  <2>2. QED
    BY <2>1 DEF PendingIsBlocked, ActionsAreFresh
<1>9. QED
  <2>1. CASE \E s \in LockNames : Acquire(t, s)
    BY <2>1, <1>6, <1>7, CommandsAssumption
    DEF Acquire, LockCallFails, LockRefused, Grant, WaitCounted
  <2>2. CASE AcquirePendingWake(t)
    <3>1. want[t] \in SubStates
      BY <2>2, <1>1 DEF WaitersWant, AcquirePendingWake
    <3>2. QED
      BY <2>2, <3>1, <1>6, <1>7 DEF AcquirePendingWake, LockRefused, Grant
  <2>3. CASE AcquireCountedWake(t)
    BY <2>3, <1>6, <1>8 DEF AcquireCountedWake
  <2>4. CASE \E s \in LockNames : TryAcquire(t, s)
    BY <2>4, <1>6, <1>7, CommandsAssumption
    DEF TryAcquire, LockCallFails, LockRefused, Grant
  <2>5. QED
    BY <1>6, <2>1, <2>2, <2>3, <2>4
    DEF LocalThread, SetWaitState, SetWaitStateInitial, SetWaitStateReturn, SpuriousWakeup,
        stateListVars

\* A request is left pending only while a lock blocks it, and its actions stay current.
LEMMA PendingStep ==
  ASSUME CountInv, ChangeInv, TypeOK', [Next]_vars
  PROVE  PendingIsBlocked' /\ ActionsAreFresh'
<1>1. TypeOK /\ PendingIsBlocked /\ ActionsAreFresh
  BY DEF CountInv, ChangeInv
<1>2. CASE UNCHANGED <<currentState, mainstates, action, desired, cnt>>
  BY <1>1, <1>2, PendingUntouched
<1>3. CASE updateThread # "joined" /\ \E m \in MainNames, s \in SubNames : DefineStates(m, s)
  <2>1. CASE running
    BY <2>1, <1>2, <1>3 DEF DefineStates
  <2>2. CASE ~ running
    <3>1. ~ ChangePending'
      BY <2>2, <1>3 DEF DefineStates, ChangeInv, QuietBeforeActivation, ChangePending
    <3>2. QED
      BY <3>1 DEF PendingIsBlocked, ActionsAreFresh
  <2>3. QED
    BY <2>1, <2>2
<1>4. CASE UpdateStateFromThread
  <2>1. Head(stateQueue) \in StateEntries
    BY <1>1, <1>4 DEF UpdateStateFromThread, TypeOK
  <2>2. UpdateState(Head(stateQueue), cnt') /\ UNCHANGED mainstates
    BY <1>4 DEF UpdateStateFromThread
  <2>3. QED
    BY <1>1, <2>1, <2>2, UpdateStatePending
<1>5. ASSUME NEW t \in Threads, LocalThread(t) PROVE PendingIsBlocked' /\ ActionsAreFresh'
  <2>1. CASE \E s \in LockNames : Release(t, s)
    <3>1. UpdateState(desired, cnt') /\ UNCHANGED mainstates
      BY <2>1 DEF Release
    <3>2. desired \in StateEntries
      BY <1>1 DEF TypeOK
    <3>3. QED
      BY <1>1, <3>1, <3>2, UpdateStatePending
  <2>2. CASE ~ \E s \in LockNames : Release(t, s)
    BY <1>5, <2>2, LocalThreadPending
  <2>3. QED
    BY <2>1, <2>2
<1>6. QED
  BY <1>2, <1>3, <1>4, <1>5
  DEF Next, SetUpInitialState, Activate, HandleQuery, MethodReturn, Destroy, stateListVars,
      vars

\* Shutdown halts the update thread before it is entered and nothing stays pending.
LEMMA ShutdownHaltsStep ==
  ASSUME CountInv, ChangeInv, [Next]_vars
  PROVE  ShutdownHalts'
<1>1. TypeOK /\ ShutdownHalts
  BY DEF CountInv, ChangeInv
<1>2. \A m : Target(m) = "Shutdown" => m = "Shutdown"
  BY DEF Target
<1>3. CASE UNCHANGED <<currentState, desired>> /\ (updateThread' = updateThread \/ updateThread' = "joined")
  BY <1>1, <1>3 DEF ShutdownHalts, ChangePending
<1>4. CASE UpdateStateFromThread
  <2> DEFINE d == Head(stateQueue)
  <2>1. d \in StateEntries
    BY <1>1, <1>4 DEF UpdateStateFromThread, TypeOK
  <2>2. UpdateState(d, cnt) /\ currentState # "Shutdown"
    BY <1>1, <1>4 DEF UpdateStateFromThread, ShutdownHalts
  <2>3. d.state = "Shutdown" => updateThread' # "running"
    BY <1>4 DEF UpdateStateFromThread
  <2>4. QED
    BY <1>1, <1>2, <2>1, <2>2, <2>3, UpdateStateOutcome
    DEF ShutdownHalts, Postpone, ChangePending
<1>5. CASE \E t \in Threads, s \in LockNames : Release(t, s)
  <2>1. PICK t \in Threads, s \in LockNames : Release(t, s)
    BY <1>5
  <2>2. UpdateState(desired, Released(s)) /\ UNCHANGED updateThread
    BY <2>1 DEF Release
  <2>3. desired \in StateEntries
    BY <1>1 DEF TypeOK
  <2>4. QED
    BY <1>1, <1>2, <2>2, <2>3, UpdateStateOutcome DEF ShutdownHalts, Postpone, ChangePending
<1>6. CASE \E t \in Threads : SetWaitStateReturn(t)
  BY <1>1, <1>6
  DEF SetWaitStateReturn, Disowned, ShutdownHalts, ChangePending, TypeOK, StateEntries
<1>7. QED
  BY <1>3, <1>4, <1>5, <1>6
  DEF Next, DefineStates, SetUpInitialState, Activate, HandleQuery, MethodReturn, Destroy,
      LocalThread, SetWaitState, SetWaitStateInitial, Acquire, AcquirePendingWake,
      AcquireCountedWake, TryAcquire, SpuriousWakeup, vars

\* Before activate() every call is refused.
LEMMA QuietStep ==
  ASSUME CountInv, ChangeInv, [Next]_vars
  PROVE  QuietBeforeActivation'
<1>1. TypeOK /\ QuietBeforeActivation
  BY DEF CountInv, ChangeInv
<1>2. CASE UNCHANGED <<running, desired, stateQueue, updateThread, pc>>
  BY <1>1, <1>2 DEF QuietBeforeActivation, ChangePending
<1>3. CASE running' \/ updateThread' = "joined"
  BY <1>3 DEF QuietBeforeActivation
<1>4. CASE ~ running /\ updateThread # "joined" /\ UNCHANGED running
  <2>1. stateQueue = <<>> /\ (\A t \in Threads : pc[t] = "idle") /\ ~ ChangePending
    BY <1>1, <1>4 DEF QuietBeforeActivation
  <2>2. ASSUME NEW m PROVE Verdict(m) # "none" /\ LocalVerdict(m) # "none"
    BY <1>4 DEF Verdict, LocalVerdict
  <2>3. ~ UpdateStateFromThread
    BY <2>1 DEF UpdateStateFromThread
  <2>4. ASSUME NEW cmd, NEW m, HandleQuery(cmd, m)
        PROVE  UNCHANGED <<running, desired, stateQueue, updateThread, pc>>
    BY <2>2, <2>4 DEF HandleQuery, HndSetMainState, threadVars
  <2>5. ASSUME NEW t \in Threads, LocalThread(t)
        PROVE  UNCHANGED <<running, desired, stateQueue, updateThread, pc>>
    BY <2>1, <2>2, <2>5, <1>4
    DEF LocalThread, SetWaitState, SetWaitStateInitial, SetWaitStateReturn, Acquire,
        LockCallFails, AcquirePendingWake, AcquireCountedWake, TryAcquire, Release,
        SpuriousWakeup
  <2>6. QED
    BY <1>2, <1>3, <2>3, <2>4, <2>5
    DEF Next, DefineStates, SetUpInitialState, Activate, MethodReturn, Destroy, threadVars,
        vars
<1>5. ASSUME NEW t \in Threads, LocalThread(t) PROVE UNCHANGED <<running, updateThread>>
  BY <1>5
  DEF LocalThread, SetWaitState, SetWaitStateInitial, SetWaitStateReturn, Acquire,
      AcquirePendingWake, AcquireCountedWake, TryAcquire, Release, SpuriousWakeup
<1>6. ASSUME NEW cmd, NEW m, HandleQuery(cmd, m) PROVE UNCHANGED <<running, updateThread>>
  BY <1>6 DEF HandleQuery
<1>7. running \in BOOLEAN
  BY <1>1 DEF TypeOK
<1>8. QED
  BY <1>2, <1>3, <1>4, <1>5, <1>6, <1>7
  DEF Next, DefineStates, SetUpInitialState, Activate, UpdateStateFromThread,
      MethodReturn, Destroy, threadVars, vars

\* The inductive invariant of pending changes.
THEOREM ChangeInvariant == Spec => []ChangeInv
<1>1. Init => ChangeInv
  BY DEF Init, ChangeInv, QuietBeforeActivation, ShutdownHalts, PendingIsBlocked,
         ActionsAreFresh, ChangePending, Settled
<1>2. CountInv /\ CountInv' /\ ChangeInv /\ [Next]_vars => ChangeInv'
  BY PendingStep, ShutdownHaltsStep, QuietStep DEF ChangeInv, CountInv
<1>3. QED
  BY <1>1, <1>2, CountInvariant, PTL DEF Spec

\* A postponed request is always blocked by a lock: no release is missed.
THEOREM PendingBlocked == Spec => []PendingIsBlocked
<1>1. ChangeInv => PendingIsBlocked
  BY DEF ChangeInv
<1>2. QED
  BY <1>1, ChangeInvariant, PTL

\* While a change is pending, acquire and tryAcquire read the actions of this change.
THEOREM ActionsFresh == Spec => []ActionsAreFresh
<1>1. ChangeInv => ActionsAreFresh
  BY DEF ChangeInv
<1>2. QED
  BY <1>1, ChangeInvariant, PTL

\* No step leaves Shutdown.
LEMMA ShutdownStep ==
  ASSUME CountInv, ChangeInv, [Next]_vars, currentState = "Shutdown"
  PROVE  currentState' = "Shutdown"
<1>1. updateThread # "running" /\ ~ ChangePending
  BY DEF ChangeInv, ShutdownHalts
<1>2. CASE \E t \in Threads, s \in LockNames : Release(t, s)
  BY <1>1, <1>2
  DEF Release, UpdateState, NothingPending, AlreadySet, RefuseUnknown, Postpone, Perform,
      ChangePending
<1>3. QED
  BY <1>1, <1>2
  DEF Next, DefineStates, SetUpInitialState, Activate, UpdateStateFromThread, HandleQuery,
      MethodReturn, Destroy, LocalThread, SetWaitState, SetWaitStateInitial,
      SetWaitStateReturn, Acquire, AcquirePendingWake, AcquireCountedWake, TryAcquire,
      SpuriousWakeup, vars

\* Nothing leads out of Shutdown: the update thread is halted and nothing is pending that
\* a release could still perform.
THEOREM ShutdownFinal == Spec => ShutdownIsFinal
<1>1. CountInv /\ ChangeInv /\ [Next]_vars
        => [currentState = "Shutdown" => currentState' = "Shutdown"]_vars
  BY ShutdownStep
<1>2. QED
  BY <1>1, CountInvariant, ChangeInvariant, PTL DEF Spec, ShutdownIsFinal
-----------------------------------------------------------------------------
(* Active substates.                                                       *)

\* A performed change leaves active what belongs to the main state it ends in.
LEMMA UpdateStateActive ==
  ASSUME ActiveInv, NEW d, NEW c, UpdateState(d, c), UNCHANGED mainstates
  PROVE  ActiveBelongs'
<1>1. CASE UNCHANGED <<currentState, active>>
  BY <1>1 DEF ActiveInv, ActiveBelongs
<1>2. CASE Perform(d, c)
  <2>1. active' = ActiveAfter(d.state) /\ currentState' = Target(d.state)
    BY <1>2 DEF Perform
  <2>2. SUFFICES ASSUME NEW s \in SubStates, active'[s]
                 PROVE  Target(d.state) \in mainstates[s]
    BY <2>1 DEF ActiveBelongs
  <2>3. d.state \in mainstates[s]
    BY <2>1, <2>2 DEF ActiveAfter, ActionFor, ActiveInv, ActiveBelongs
  <2>4. Target(d.state) = d.state
    BY <2>3 DEF Target, ActiveInv, CommandsAreNoStates
  <2>5. QED
    BY <2>3, <2>4
<1>3. QED
  BY <1>1, <1>2 DEF UpdateState, NothingPending, AlreadySet, RefuseUnknown, Postpone

\* defineStates() adds main states, and never a deactivation command.
LEMMA DefineStatesActive ==
  ASSUME TypeOK, ActiveInv, NEW m, NEW x, DefineStates(m, x)
  PROVE  ActiveInv'
<1>1. UNCHANGED <<currentState, active>>
  BY DEF DefineStates
<1>2. ASSUME NEW s \in SubStates
      PROVE  /\ mainstates[s] \subseteq mainstates'[s]
             /\ mainstates'[s] \cap DeactivateCommands = {}
  <2>1. CASE mainstates' = mainstates
    BY <2>1 DEF ActiveInv, CommandsAreNoStates
  <2>2. CASE mainstates' # mainstates
    <3>1. m \notin ReservedMain /\ x # "nonneutral"
      BY <2>2 DEF DefineStates, ReservedSub
    <3>2. mainstates' = [mainstates EXCEPT !["nonneutral"] = @ \cup {m}, ![x] = @ \cup {m}]
      BY <2>2 DEF DefineStates
    <3>3. mainstates'[s] \in {mainstates[s], mainstates[s] \cup {m}}
      BY <3>1, <3>2 DEF TypeOK
    <3>4. m \notin DeactivateCommands
      BY <3>1 DEF ReservedMain
    <3>5. QED
      BY <3>3, <3>4 DEF ActiveInv, CommandsAreNoStates
  <2>3. QED
    BY <2>1, <2>2
<1>3. QED
  BY <1>1, <1>2 DEF ActiveInv, CommandsAreNoStates, ActiveBelongs

\* The third invariant is inductive.
LEMMA ActiveInvariant == Spec => []ActiveInv
<1>1. Init => ActiveInv
  <2> SUFFICES ASSUME Init PROVE ActiveInv
    OBVIOUS
  <2>1. ASSUME NEW s \in SubStates
        PROVE  mainstates[s] \in {{"Init"}, {"Neutral"}, {"FatalError"}, {"Shutdown"}, {}}
    BY DEF Init
  <2>2. CommandsAreNoStates
    BY <2>1 DEF CommandsAreNoStates, DeactivateCommands
  <2>3. ActiveBelongs
    BY DEF Init, ActiveBelongs
  <2>4. QED
    BY <2>2, <2>3 DEF ActiveInv
<1>2. TypeOK /\ ActiveInv /\ [Next]_vars => ActiveInv'
  <2> SUFFICES ASSUME TypeOK, ActiveInv, [Next]_vars PROVE ActiveInv'
    OBVIOUS
  <2>1. CASE \E m \in MainNames, s \in SubNames : DefineStates(m, s)
    BY <2>1, DefineStatesActive
  <2>2. CASE UNCHANGED <<currentState, mainstates, active>>
    BY <2>2 DEF ActiveInv, ActiveBelongs, CommandsAreNoStates
  <2>3. CASE UpdateStateFromThread
    <3>1. UNCHANGED mainstates /\ UpdateState(Head(stateQueue), cnt)
      BY <2>3 DEF UpdateStateFromThread
    <3>2. QED
      BY <3>1, UpdateStateActive DEF ActiveInv, CommandsAreNoStates
  <2>4. CASE \E t \in Threads, s \in LockNames : Release(t, s)
    <3>1. PICK t \in Threads, s \in LockNames : Release(t, s)
      BY <2>4
    <3>2. UNCHANGED mainstates /\ UpdateState(desired, Released(s))
      BY <3>1 DEF Release
    <3>3. QED
      BY <3>2, UpdateStateActive DEF ActiveInv, CommandsAreNoStates
  <2>5. QED
    BY <2>1, <2>2, <2>3, <2>4
    DEF Next, SetUpInitialState, Activate, HandleQuery, MethodReturn, Destroy, LocalThread,
        SetWaitState, SetWaitStateInitial, SetWaitStateReturn, Acquire, AcquirePendingWake,
        AcquireCountedWake, TryAcquire, SpuriousWakeup, stateListVars, vars
<1>3. QED
  BY <1>1, <1>2, TypeCorrect, PTL DEF Spec

\* An active substate belongs to the current main state, over all sequences of changes.
THEOREM ActiveBelong == Spec => []ActiveBelongs
<1>1. ActiveInv => ActiveBelongs
  BY DEF ActiveInv
<1>2. QED
  BY <1>1, ActiveInvariant, PTL

-----------------------------------------------------------------------------
(* Requests and the callers that wait for them.                            *)

\* A request of a master is the one its query asks for and waits for; a request of a
\* local thread is the one the thread waits for in setWaitState (that waits for Alive
\* and then for the initial state in one call).
RequestFits(e) ==
  /\ e.owner = "master" =>
       query.cmd = "SET_STATE" /\ query.status = "none" /\ e.state = query.state
  /\ e.owner \in Threads =>
       /\ WaitsForChange(e.owner)
       /\ want[e.owner] # "Alive" => e.state = want[e.owner]

RequestsFit ==
  RequestFits(desired) /\ \A i \in 1 .. Len(stateQueue) : RequestFits(stateQueue[i])

\* There is one request of a master at most: a query is answered only once.
OneMasterRequest ==
  /\ \A i, j \in 1 .. Len(stateQueue) :
       stateQueue[i].owner = "master" /\ stateQueue[j].owner = "master" => i = j
  /\ desired.owner = "master" =>
       \A i \in 1 .. Len(stateQueue) : stateQueue[i].owner # "master"

\* The deactivation commands are no states to be in.
NeverDeactivated == currentState \notin DeactivateCommands

\* The wait for the initial state belongs to the call for Alive.
InitialIsAlive == \A t \in Threads : pc[t] = "setInitial" => want[t] = "Alive"

RequestInv == RequestsFit /\ OneMasterRequest /\ NeverDeactivated /\ InitialIsAlive

\* What a notified thread finds, if waits do not end without a notification.
WokenForReason ==
  \A t \in woken :
    /\ pc[t] # "idle"
    /\ pc[t] = "setWait" /\ want[t] = "Shutdown" => currentState = "Shutdown"
WakeInv == WokenForReason /\ CountedWaiterFindsActive

\* A request goes on to fit while its caller waits.
LEMMA FitsKept ==
  ASSUME NEW e, RequestFits(e), e.owner = "master" => UNCHANGED query,
         e.owner \in Threads /\ WaitsForChange(e.owner) =>
           WaitsForChange(e.owner)' /\ want'[e.owner] = want[e.owner]
  PROVE  RequestFits(e)'
<1>1. e.owner = "master" =>
        query'.cmd = "SET_STATE" /\ query'.status = "none" /\ e.state = query'.state
  BY DEF RequestFits
<1>2. e.owner \in Threads =>
        /\ WaitsForChange(e.owner)'
        /\ want'[e.owner] # "Alive" => e.state = want'[e.owner]
  BY DEF RequestFits
<1> QED BY <1>1, <1>2 DEF RequestFits

\* updateState() answers the request it was given, and no other.
LEMMA UpdateStateFits ==
  ASSUME TypeOK, NEW d \in StateEntries, NEW c, RequestFits(d), UpdateState(d, c),
         UNCHANGED <<pc, want>>
  PROVE  /\ RequestFits(desired)'
         /\ d.owner # "master" => UNCHANGED query
         /\ desired'.owner = "master" => d.owner = "master" /\ UNCHANGED query
<1>1. \A m : Settled(m).owner = "nobody"
  BY DEF Settled
<1>2. CASE Postpone(d, c)
  <2>1. desired' = d /\ UNCHANGED query
    BY <1>2 DEF Postpone
  <2>2. RequestFits(d)'
    BY <2>1, FitsKept DEF WaitsForChange
  <2> QED BY <2>1, <2>2 DEF RequestFits, WaitsForChange
<1>3. CASE ~ Postpone(d, c)
  <2>1. /\ \E m : desired' = Settled(m)
        /\ \E status : AnswerMaster(d, status)
    BY <1>3 DEF UpdateState, NothingPending, AlreadySet, RefuseUnknown, Perform
  <2>2. desired'.owner = "nobody"
    BY <1>1, <2>1
  <2>3. d.owner # "master" => UNCHANGED query
    BY <2>1 DEF AnswerMaster
  <2> QED BY <2>2, <2>3, ThreadsAssumption DEF RequestFits
<1> QED BY <1>2, <1>3

\* Steps that only leave alone or lengthen the queue by one request that fits.
LEMMA RequestsSame ==
  ASSUME RequestInv, UNCHANGED <<desired, stateQueue>>,
         UNCHANGED query \/ query.cmd # "SET_STATE" \/ query.status # "none",
         \A x \in Threads : WaitsForChange(x) => WaitsForChange(x)' /\ want'[x] = want[x]
  PROVE  RequestsFit' /\ OneMasterRequest'
<1>1. ASSUME NEW e, RequestFits(e) PROVE RequestFits(e)'
  <2>1. e.owner = "master" => UNCHANGED query
    BY <1>1 DEF RequestFits
  <2> QED BY <1>1, <2>1, FitsKept
<1>2. RequestFits(desired)'
  <2>1. PICK e : e = desired
    OBVIOUS
  <2>2. RequestFits(e)'
    BY <1>1, <2>1 DEF RequestInv, RequestsFit
  <2> QED BY <2>1, <2>2 DEF RequestFits
<1>3. ASSUME NEW i \in 1 .. Len(stateQueue) PROVE RequestFits(stateQueue[i])'
  <2>1. PICK e : e = stateQueue[i]
    OBVIOUS
  <2>2. RequestFits(e)'
    BY <1>1, <2>1 DEF RequestInv, RequestsFit
  <2> QED BY <2>1, <2>2 DEF RequestFits
<1>4. OneMasterRequest'
  BY DEF RequestInv, OneMasterRequest
<1> QED BY <1>2, <1>3, <1>4 DEF RequestsFit

\* A new request n, in front or at the end.
LEMMA RequestAdded ==
  ASSUME TypeOK, RequestInv, NEW n \in StateEntries, RequestFits(n)', UNCHANGED desired,
         stateQueue' = <<n>> \o stateQueue \/ stateQueue' = Append(stateQueue, n),
         UNCHANGED query \/ query.cmd # "SET_STATE",
         n.owner = "master" => query.cmd # "SET_STATE",
         \A x \in Threads : WaitsForChange(x) => WaitsForChange(x)' /\ want'[x] = want[x]
  PROVE  RequestsFit' /\ OneMasterRequest'
<1>1. ASSUME NEW e, RequestFits(e) PROVE RequestFits(e)'
  <2>1. e.owner = "master" => UNCHANGED query
    BY <1>1 DEF RequestFits
  <2> QED BY <1>1, <2>1, FitsKept
<1>2. RequestFits(desired)'
  <2>1. PICK e : e = desired
    OBVIOUS
  <2>2. RequestFits(e)'
    BY <1>1, <2>1 DEF RequestInv, RequestsFit
  <2> QED BY <2>1, <2>2 DEF RequestFits
<1>3. Len(stateQueue) \in Nat /\ stateQueue \in Seq(StateEntries)
  BY DEF TypeOK
<1>4. ASSUME NEW i \in 1 .. Len(stateQueue')
      PROVE  \/ stateQueue'[i] = n
             \/ \E j \in 1 .. Len(stateQueue) : stateQueue'[i] = stateQueue[j]
  <2>1. CASE stateQueue' = Append(stateQueue, n)
    BY <1>3, <2>1
  <2>2. CASE stateQueue' = <<n>> \o stateQueue
    <3>1. i = 1 \/ i - 1 \in 1 .. Len(stateQueue)
      BY <1>3, <2>2
    <3>2. i = 1 => stateQueue'[i] = n
      BY <1>3, <2>2
    <3>3. i # 1 => stateQueue'[i] = stateQueue[i - 1]
      BY <1>3, <2>2
    <3> QED BY <3>1, <3>2, <3>3
  <2> QED BY <2>1, <2>2
<1>5. ASSUME NEW i \in 1 .. Len(stateQueue') PROVE RequestFits(stateQueue[i])'
  <2>1. PICK e : e = stateQueue'[i]
    OBVIOUS
  <2>2. e = n \/ RequestFits(e)
    BY <1>4, <2>1 DEF RequestInv, RequestsFit
  <2>3. RequestFits(e)'
    BY <1>1, <2>2
  <2> QED BY <2>1, <2>3 DEF RequestFits
<1>6. CASE n.owner = "master"
  <2>1. desired.owner # "master" /\ \A j \in 1 .. Len(stateQueue) : stateQueue[j].owner # "master"
    BY <1>6 DEF RequestInv, RequestsFit, RequestFits
  <2>2. \A i, j \in 1 .. Len(stateQueue') :
          stateQueue'[i].owner = "master" /\ stateQueue'[j].owner = "master" => i = j
    <3>1. CASE stateQueue' = Append(stateQueue, n)
      BY <1>3, <2>1, <3>1
    <3>2. CASE stateQueue' = <<n>> \o stateQueue
      <4>1. \A i \in 1 .. Len(stateQueue') : i # 1 => stateQueue'[i].owner # "master"
        <5> TAKE i \in 1 .. Len(stateQueue')
        <5>1. i # 1 => i - 1 \in 1 .. Len(stateQueue) /\ stateQueue'[i] = stateQueue[i - 1]
          BY <1>3, <3>2
        <5> QED BY <2>1, <5>1
      <4> QED BY <4>1
    <3> QED BY <3>1, <3>2
  <2> QED BY <1>2, <1>5, <2>1, <2>2 DEF RequestsFit, OneMasterRequest
<1>7. CASE n.owner # "master"
  <2>1. \A i, j \in 1 .. Len(stateQueue') :
          stateQueue'[i].owner = "master" /\ stateQueue'[j].owner = "master" => i = j
    <3>1. CASE stateQueue' = Append(stateQueue, n)
      BY <1>3, <1>7, <3>1 DEF RequestInv, OneMasterRequest
    <3>2. CASE stateQueue' = <<n>> \o stateQueue
      <4>1. \A i \in 1 .. Len(stateQueue') : stateQueue'[i].owner = "master" =>
              i - 1 \in 1 .. Len(stateQueue) /\ stateQueue[i - 1].owner = "master"
        <5> TAKE i \in 1 .. Len(stateQueue')
        <5>1. i # 1 => i - 1 \in 1 .. Len(stateQueue) /\ stateQueue'[i] = stateQueue[i - 1]
          BY <1>3, <3>2
        <5>2. i = 1 => stateQueue'[i] = n
          BY <1>3, <3>2
        <5> QED BY <1>7, <5>1, <5>2
      <4>2. \A i, j \in 1 .. Len(stateQueue') :
              stateQueue'[i].owner = "master" /\ stateQueue'[j].owner = "master" => i - 1 = j - 1
        BY <4>1 DEF RequestInv, OneMasterRequest
      <4> QED BY <4>2
    <3> QED BY <3>1, <3>2
  <2>2. desired'.owner = "master" => \A i \in 1 .. Len(stateQueue') : stateQueue'[i].owner # "master"
    BY <1>4, <1>7 DEF RequestInv, OneMasterRequest
  <2> QED BY <1>2, <1>5, <2>1, <2>2 DEF RequestsFit, OneMasterRequest
<1> QED BY <1>6, <1>7

\* The update thread takes the next request, or release() the pending one.
LEMMA UpdateFits ==
  ASSUME TypeOK, RequestInv, UNCHANGED <<pc, want>>,
         \/ /\ stateQueue # <<>> /\ stateQueue' = Tail(stateQueue)
            /\ UpdateState(Head(stateQueue), cnt)
         \/ stateQueue' = stateQueue /\ \E c : UpdateState(desired, c)
  PROVE  RequestInv'
<1>0. /\ RequestsFit /\ OneMasterRequest /\ NeverDeactivated
      /\ Len(stateQueue) \in Nat /\ stateQueue \in Seq(StateEntries) /\ desired \in StateEntries
  BY DEF RequestInv, TypeOK
<1>1. PICK d, c :
        /\ d \in StateEntries /\ UpdateState(d, c) /\ RequestFits(d)
        /\ \/ d = Head(stateQueue) /\ stateQueue # <<>> /\ stateQueue' = Tail(stateQueue)
           \/ d = desired /\ stateQueue' = stateQueue
  BY <1>0 DEF RequestsFit
<1>2. /\ RequestFits(desired)'
      /\ d.owner # "master" => UNCHANGED query
      /\ desired'.owner = "master" => d.owner = "master" /\ UNCHANGED query
  BY <1>1, UpdateStateFits
<1>3. PICK k \in {0, 1} :
        /\ Len(stateQueue') = Len(stateQueue) - k
        /\ \A i \in 1 .. Len(stateQueue') :
             i + k \in 1 .. Len(stateQueue) /\ stateQueue'[i] = stateQueue[i + k]
        /\ d.owner = "master" => \A i \in 1 .. Len(stateQueue') : stateQueue'[i].owner # "master"
  <2>1. CASE d = desired /\ stateQueue' = stateQueue
    <3>1. \A i \in 1 .. Len(stateQueue) : i + 0 = i
      BY <1>0
    <3> QED BY <1>0, <2>1, <3>1 DEF OneMasterRequest
  <2>2. CASE d = Head(stateQueue) /\ stateQueue # <<>> /\ stateQueue' = Tail(stateQueue)
    <3>1. /\ Len(stateQueue') = Len(stateQueue) - 1 /\ 1 \in 1 .. Len(stateQueue)
          /\ d = stateQueue[1]
          /\ \A i \in 1 .. Len(stateQueue') :
               i + 1 \in 1 .. Len(stateQueue) /\ i + 1 # 1 /\ stateQueue'[i] = stateQueue[i + 1]
      BY <1>0, <2>2
    <3> QED BY <3>1, <1>0 DEF OneMasterRequest
  <2> QED BY <1>1, <2>1, <2>2
<1>4. ASSUME NEW i \in 1 .. Len(stateQueue') PROVE RequestFits(stateQueue[i])'
  <2>1. PICK e : e = stateQueue'[i]
    OBVIOUS
  <2>2. RequestFits(e) /\ (e.owner = "master" => UNCHANGED query)
    BY <1>0, <1>2, <1>3, <2>1 DEF RequestsFit
  <2>3. RequestFits(e)'
    BY <2>2, FitsKept DEF WaitsForChange
  <2> QED BY <2>1, <2>3 DEF RequestFits
<1>5. OneMasterRequest'
  <2>1. \A i, j \in 1 .. Len(stateQueue') :
          stateQueue'[i].owner = "master" /\ stateQueue'[j].owner = "master" => i = j
    <3>1. \A i, j \in 1 .. Len(stateQueue') :
            stateQueue'[i].owner = "master" /\ stateQueue'[j].owner = "master" => i + k = j + k
      BY <1>0, <1>3 DEF OneMasterRequest
    <3> QED BY <3>1
  <2> QED BY <1>2, <1>3, <2>1 DEF OneMasterRequest
<1>6. NeverDeactivated' /\ InitialIsAlive'
  <2>1. currentState' \in {currentState, Target(d.state)}
    BY <1>1 DEF UpdateState, NothingPending, AlreadySet, RefuseUnknown, Postpone, Perform
  <2>2. Target(d.state) \notin DeactivateCommands
    BY DEF Target, DeactivateCommands
  <2> QED BY <1>0, <2>1, <2>2 DEF NeverDeactivated, RequestInv, InitialIsAlive
<1> QED BY <1>2, <1>4, <1>5, <1>6 DEF RequestInv, RequestsFit

\* A query comes when none is in the server thread, and leaves when it is answered: there
\* is no request of a master then.
LEMMA QueryFits ==
  ASSUME TypeOK, RequestInv,
         MethodReturn \/ \E cmd \in Commands, m \in RemoteStates : HandleQuery(cmd, m)
  PROVE  RequestInv'
<1>1. UNCHANGED <<currentState, desired, pc, want>>
  BY DEF MethodReturn, HandleQuery, threadVars
<1>2. NeverDeactivated' /\ InitialIsAlive'
  BY <1>1 DEF RequestInv, NeverDeactivated, InitialIsAlive
<1>3. \A x \in Threads : WaitsForChange(x) => WaitsForChange(x)' /\ want'[x] = want[x]
  BY <1>1 DEF WaitsForChange
<1>4. CASE MethodReturn
  <2>1. query.status # "none" /\ UNCHANGED stateQueue
    BY <1>4 DEF MethodReturn
  <2> QED BY <1>1, <1>2, <1>3, <2>1, RequestsSame DEF RequestInv
<1>5. ASSUME NEW cmd \in Commands, NEW m \in RemoteStates, HandleQuery(cmd, m)
      PROVE  RequestInv'
  <2>1. query.cmd # "SET_STATE"
    BY <1>5 DEF HandleQuery, NoQuery
  <2>2. CASE UNCHANGED stateQueue
    BY <1>1, <1>2, <1>3, <2>1, <2>2, RequestsSame DEF RequestInv
  <2>3. CASE ~ UNCHANGED stateQueue
    <3>1. HndSetMainState(m) /\ Verdict(m) = "none"
      BY <1>5, <2>3 DEF HandleQuery, HndSetMainState
    <3>2. PICK n : n = Entry(m, "master")
      OBVIOUS
    <3>3. n \in StateEntries /\ n.owner = "master" /\ n.state = m
      BY <3>2 DEF Entry, StateEntries, Owners, MainStates
    <3>4. stateQueue' = <<n>> \o stateQueue \/ stateQueue' = Append(stateQueue, n)
      BY <3>1, <3>2 DEF HndSetMainState
    <3>5. query'.cmd = "SET_STATE" /\ query'.status = "none" /\ query'.state = m
      BY <3>1 DEF HndSetMainState, NoQuery
    <3>6. RequestFits(n)'
      BY <3>3, <3>5, ThreadsAssumption DEF RequestFits
    <3> QED BY <1>1, <1>2, <1>3, <2>1, <3>3, <3>4, <3>6, RequestAdded DEF RequestInv
  <2> QED BY <2>2, <2>3
<1> QED BY <1>4, <1>5

\* The steps of setWaitState().
LEMMA SetWaitStateFits ==
  ASSUME TypeOK, RequestInv, NEW t \in Threads,
         \/ \E m \in LocalCommands : SetWaitState(t, m)
         \/ SetWaitStateInitial(t)
         \/ SetWaitStateReturn(t)
  PROVE  RequestInv'
<1>0. /\ pc \in [Threads -> {"idle", "setWait", "setInitial", "acquirePending", "acquireCounted"}]
      /\ DOMAIN want = Threads
  BY DEF TypeOK
<1>1. ASSUME NEW m \in LocalCommands, SetWaitState(t, m) PROVE RequestInv'
  <2>1. pc[t] = "idle" /\ UNCHANGED <<currentState, desired, query>>
    BY <1>1 DEF SetWaitState
  <2>2. CASE UNCHANGED <<stateQueue, pc, want>>
    <3>1. \A x \in Threads : WaitsForChange(x) => WaitsForChange(x)' /\ want'[x] = want[x]
      BY <2>2 DEF WaitsForChange
    <3> QED BY <2>1, <2>2, <3>1, RequestsSame DEF RequestInv, NeverDeactivated, InitialIsAlive
  <2>3. CASE ~ UNCHANGED <<stateQueue, pc, want>>
    <3>1. PICK n : n = Entry(m, t)
      OBVIOUS
    <3>2. /\ stateQueue' = <<n>> \o stateQueue
          /\ pc' = [pc EXCEPT ![t] = "setWait"]
          /\ want' = [want EXCEPT ![t] = m]
      BY <1>1, <2>3, <3>1 DEF SetWaitState
    <3>3. n \in StateEntries /\ n.owner = t /\ n.state = m /\ n.owner # "master"
      BY <3>1, ThreadsAssumption DEF Entry, StateEntries, Owners, MainStates
    <3>4. \A x \in Threads : WaitsForChange(x) => WaitsForChange(x)' /\ want'[x] = want[x]
      BY <1>0, <2>1, <3>2 DEF WaitsForChange
    <3>5. pc'[t] = "setWait" /\ want'[t] = m
      BY <1>0, <3>2
    <3>6. RequestFits(n)'
      BY <3>3, <3>5 DEF RequestFits, WaitsForChange
    <3>7. RequestsFit' /\ OneMasterRequest'
      BY <2>1, <3>2, <3>3, <3>4, <3>6, RequestAdded
    <3>8. InitialIsAlive'
      BY <1>0, <3>2 DEF RequestInv, InitialIsAlive
    <3> QED BY <2>1, <3>7, <3>8 DEF RequestInv, NeverDeactivated
  <2> QED BY <2>2, <2>3
<1>2. CASE SetWaitStateInitial(t)
  <2>1. PICK n : n = Entry(initialState, t)
    OBVIOUS
  <2>2. /\ pc[t] = "setWait" /\ want[t] = "Alive"
        /\ stateQueue' = Append(stateQueue, n)
        /\ pc' = [pc EXCEPT ![t] = "setInitial"]
        /\ UNCHANGED <<want, currentState, desired, query>>
    BY <1>2, <2>1 DEF SetWaitStateInitial
  <2>3. n \in StateEntries /\ n.owner = t /\ n.owner # "master"
    BY <2>1, ThreadsAssumption DEF TypeOK, Entry, StateEntries, Owners
  <2>4. \A x \in Threads : WaitsForChange(x) => WaitsForChange(x)' /\ want'[x] = want[x]
    BY <1>0, <2>2 DEF WaitsForChange
  <2>5. RequestFits(n)'
    BY <1>0, <2>2, <2>3 DEF RequestFits, WaitsForChange
  <2>6. RequestsFit' /\ OneMasterRequest'
    BY <2>2, <2>3, <2>4, <2>5, RequestAdded
  <2>7. InitialIsAlive'
    BY <1>0, <2>2 DEF RequestInv, InitialIsAlive
  <2> QED BY <2>2, <2>6, <2>7 DEF RequestInv, NeverDeactivated
<1>3. CASE SetWaitStateReturn(t)
  <2>1. /\ pc' = [pc EXCEPT ![t] = "idle"] /\ want' = [want EXCEPT ![t] = "Init"]
        /\ desired' = Disowned(desired, t)
        /\ stateQueue' = [i \in DOMAIN stateQueue |-> Disowned(stateQueue[i], t)]
        /\ UNCHANGED <<currentState, query>>
    BY <1>3 DEF SetWaitStateReturn
  <2>2. \A e \in StateEntries :
          \/ e.owner # t /\ Disowned(e, t) = e
          \/ Disowned(e, t).owner = "nobody" /\ e.owner = t
    BY DEF Disowned, StateEntries
  <2>3. ASSUME NEW e \in StateEntries, RequestFits(e)
        PROVE  \A f : f = Disowned(e, t) => RequestFits(f)'
    <3>1. CASE e.owner # t
      <4>1. e.owner \in Threads /\ WaitsForChange(e.owner) =>
              WaitsForChange(e.owner)' /\ want'[e.owner] = want[e.owner]
        BY <1>0, <2>1, <3>1 DEF WaitsForChange
      <4>2. RequestFits(e)'
        BY <2>1, <2>3, <4>1, FitsKept
      <4> QED BY <2>2, <3>1, <4>2
    <3>2. CASE e.owner = t
      BY <2>2, <3>2, ThreadsAssumption DEF RequestFits
    <3> QED BY <3>1, <3>2
  <2>4. /\ desired \in StateEntries /\ stateQueue \in Seq(StateEntries)
        /\ DOMAIN stateQueue = 1 .. Len(stateQueue) /\ Len(stateQueue) \in Nat
    BY DEF TypeOK
  <2>5. /\ stateQueue' \in Seq(StateEntries) /\ Len(stateQueue') = Len(stateQueue)
        /\ \A i \in 1 .. Len(stateQueue) :
             stateQueue[i] \in StateEntries /\ stateQueue'[i] = Disowned(stateQueue[i], t)
    <3>1. \A e \in StateEntries : Disowned(e, t) \in StateEntries
      BY DEF Disowned, StateEntries, Owners
    <3> QED BY <2>1, <2>4, <3>1
  <2>6. RequestFits(desired)'
    <3>1. PICK f : f = Disowned(desired, t)
      OBVIOUS
    <3>2. RequestFits(f)'
      BY <2>3, <2>4, <3>1 DEF RequestInv, RequestsFit
    <3> QED BY <2>1, <3>1, <3>2 DEF RequestFits
  <2>7. ASSUME NEW i \in 1 .. Len(stateQueue') PROVE RequestFits(stateQueue[i])'
    <3>1. PICK f : f = Disowned(stateQueue[i], t)
      OBVIOUS
    <3>2. RequestFits(stateQueue[i]) /\ stateQueue[i] \in StateEntries
      BY <2>5 DEF RequestInv, RequestsFit
    <3>3. PICK e \in StateEntries : e = stateQueue[i]
      BY <3>2
    <3>4. RequestFits(f)'
      BY <2>3, <3>1, <3>2, <3>3
    <3> QED BY <2>5, <3>1, <3>4 DEF RequestFits
  <2>8. /\ desired'.owner = "master" => desired.owner = "master"
        /\ \A i \in 1 .. Len(stateQueue) :
             stateQueue'[i].owner = "master" => stateQueue[i].owner = "master"
    BY <2>1, <2>2, <2>4, <2>5
  <2>9. OneMasterRequest'
    BY <2>5, <2>8 DEF RequestInv, OneMasterRequest
  <2>10. InitialIsAlive'
    BY <1>0, <2>1 DEF RequestInv, InitialIsAlive
  <2> QED BY <2>1, <2>6, <2>7, <2>9, <2>10 DEF RequestInv, RequestsFit, NeverDeactivated
<1> QED BY <1>1, <1>2, <1>3

\* The calls on locks leave all requests and their callers alone.
LEMMA LockCallsFit ==
  ASSUME TypeOK, RequestInv, NEW t \in Threads,
         \/ \E s \in LockNames : Acquire(t, s)
         \/ AcquirePendingWake(t)
         \/ AcquireCountedWake(t)
         \/ \E s \in LockNames : TryAcquire(t, s)
         \/ SpuriousWakeup(t)
  PROVE  RequestInv'
<1>1. UNCHANGED <<currentState, desired, stateQueue, query>>
  BY DEF Acquire, AcquirePendingWake, AcquireCountedWake, TryAcquire, SpuriousWakeup
<1>2. /\ pc \in [Threads -> {"idle", "setWait", "setInitial", "acquirePending", "acquireCounted"}]
      /\ DOMAIN want = Threads
  BY DEF TypeOK
<1>3. \/ UNCHANGED <<pc, want>>
      \/ /\ pc[t] \in {"idle", "acquirePending", "acquireCounted"}
         /\ \E x \in {"idle", "acquirePending", "acquireCounted"} : pc' = [pc EXCEPT ![t] = x]
         /\ \E x : want' = [want EXCEPT ![t] = x]
  <2>1. CASE \E s \in LockNames : Acquire(t, s)
    BY <2>1 DEF Acquire, MayLock, WaitCounted
  <2>2. CASE ~ \E s \in LockNames : Acquire(t, s)
    BY <2>2 DEF AcquirePendingWake, AcquireCountedWake, TryAcquire, SpuriousWakeup
  <2> QED BY <2>1, <2>2
<1>4. \A x \in Threads : /\ WaitsForChange(x) => WaitsForChange(x)' /\ want'[x] = want[x]
                         /\ pc'[x] = "setInitial" => pc[x] = "setInitial" /\ want'[x] = want[x]
  BY <1>2, <1>3 DEF WaitsForChange
<1>5. RequestsFit' /\ OneMasterRequest'
  BY <1>1, <1>4, RequestsSame
<1> QED BY <1>1, <1>4, <1>5 DEF RequestInv, NeverDeactivated, InitialIsAlive

\* No step leaves a request that fits nobody.
LEMMA RequestStep ==
  ASSUME TypeOK, RequestInv, [Next]_vars PROVE RequestInv'
<1>1. CASE UNCHANGED <<currentState, desired, stateQueue, query, pc, want>>
  <2>1. \A x \in Threads : WaitsForChange(x) => WaitsForChange(x)' /\ want'[x] = want[x]
    BY <1>1 DEF WaitsForChange
  <2>2. RequestsFit' /\ OneMasterRequest'
    BY <1>1, <2>1, RequestsSame
  <2> QED BY <1>1, <2>2 DEF RequestInv, NeverDeactivated, InitialIsAlive
<1>2. CASE UpdateStateFromThread
  BY <1>2, UpdateFits DEF UpdateStateFromThread
<1>3. ASSUME NEW t \in Threads, NEW s \in LockNames, Release(t, s) PROVE RequestInv'
  <2>1. UNCHANGED <<pc, want, stateQueue>> /\ UpdateState(desired, Released(s))
    BY <1>3 DEF Release
  <2> QED BY <2>1, UpdateFits
<1>4. CASE MethodReturn \/ \E cmd \in Commands, m \in RemoteStates : HandleQuery(cmd, m)
  BY <1>4, QueryFits
<1>5. ASSUME NEW t \in Threads, LocalThread(t) PROVE RequestInv'
  BY <1>3, <1>5, SetWaitStateFits, LockCallsFit DEF LocalThread
<1> QED
  BY <1>1, <1>2, <1>4, <1>5
  DEF Next, DefineStates, SetUpInitialState, Activate, Destroy, threadVars, vars

\* The inductive invariant of the requests.
THEOREM RequestInvariant == Spec => []RequestInv
<1>1. Init => RequestInv
  BY ThreadsAssumption
  DEF Init, RequestInv, RequestsFit, RequestFits, OneMasterRequest, NeverDeactivated,
      InitialIsAlive, Settled, DeactivateCommands
<1>2. TypeOK /\ RequestInv /\ [Next]_vars => RequestInv'
  BY RequestStep
<1> QED BY <1>1, <1>2, TypeCorrect, PTL DEF Spec

\* A master that is told SMART_OK finds the slave in the state it asked for: the answer is
\* given for its own request, at the moment the change is done, and not for another one
\* that overtook it in the queue or replaced it while it was pending.
THEOREM OkIsReached == Spec => OkMeansReached
<1>1. TypeOK /\ RequestInv /\ [Next]_vars
        => [query.cmd = "SET_STATE" /\ query.status = "none" /\ query'.status = "OK"
              => currentState' = Target(query.state)]_vars
  <2> SUFFICES ASSUME TypeOK, RequestInv, [Next]_vars,
                      query.cmd = "SET_STATE", query.status = "none", query'.status = "OK"
               PROVE  currentState' = Target(query.state)
    OBVIOUS
  <2>1. ASSUME NEW d, NEW c, UpdateState(d, c), RequestFits(d)
        PROVE  currentState' = Target(query.state)
    <3>1. d.owner = "master"
      BY <2>1 DEF UpdateState, NothingPending, AlreadySet, RefuseUnknown, Postpone, Perform,
                  AnswerMaster
    <3>2. d.state = query.state
      BY <2>1, <3>1 DEF RequestFits
    <3>3. CASE NothingPending(d)
      BY <3>1, <3>3 DEF NothingPending, AnswerMaster, TypeOK
    <3>4. CASE AlreadySet(d)
      BY <3>2, <3>4 DEF AlreadySet, Target, RequestInv, NeverDeactivated
    <3>5. CASE RefuseUnknown(d)
      BY <3>1, <3>5 DEF RefuseUnknown, AnswerMaster, TypeOK
    <3>6. CASE Postpone(d, c)
      BY <3>6 DEF Postpone
    <3>7. CASE Perform(d, c)
      BY <3>2, <3>7 DEF Perform
    <3> QED BY <2>1, <3>3, <3>4, <3>5, <3>6, <3>7 DEF UpdateState
  <2>2. CASE UpdateStateFromThread
    <3>1. UpdateState(Head(stateQueue), cnt) /\ 1 \in 1 .. Len(stateQueue)
          /\ Head(stateQueue) = stateQueue[1]
      BY <2>2 DEF UpdateStateFromThread, TypeOK
    <3>2. RequestFits(Head(stateQueue))
      BY <3>1 DEF RequestInv, RequestsFit
    <3> QED BY <2>1, <3>1, <3>2
  <2>3. CASE \E t \in Threads, s \in LockNames : Release(t, s)
    BY <2>1, <2>3 DEF Release, RequestInv, RequestsFit
  <2>4. CASE \E cmd \in Commands, m \in RemoteStates : HandleQuery(cmd, m)
    BY <2>4 DEF HandleQuery, NoQuery
  <2>5. CASE MethodReturn
    BY <2>5 DEF MethodReturn
  <2>6. query' # query
    OBVIOUS
  <2> QED
    BY <2>2, <2>3, <2>4, <2>5, <2>6
    DEF Next, DefineStates, SetUpInitialState, Activate, Destroy, LocalThread, SetWaitState,
        SetWaitStateInitial, SetWaitStateReturn, Acquire, AcquirePendingWake,
        AcquireCountedWake, TryAcquire, SpuriousWakeup, vars
<1> QED BY <1>1, TypeCorrect, RequestInvariant, PTL DEF Spec, OkMeansReached

-----------------------------------------------------------------------------
(* What a notified thread finds when it gets the mutex back.               *)

\* updateState() keeps the substate of a counted waiter active: the lock is counted. It
\* notifies a counted waiter when its substate becomes active or the slave is shut down,
\* and a caller of setWaitState when its own request is done.
LEMMA UpdateWakes ==
  ASSUME CountInv, CountInv', RequestInv, WakeInv, UNCHANGED <<pc, want>>,
         currentState = "Shutdown" => currentState' = "Shutdown",
         NEW d \in StateEntries, RequestFits(d), UpdateState(d, cnt')
  PROVE  WakeInv'
<1>0. TypeOK /\ TypeOK' /\ LocksAreCounted' /\ WaitersWant
  BY DEF CountInv
<1> SUFFICES ASSUME NEW t \in woken'
             PROVE  /\ pc[t] # "idle"
                    /\ pc[t] = "setWait" /\ want[t] = "Shutdown" => currentState' = "Shutdown"
                    /\ pc[t] = "acquireCounted" => active'[want[t]] \/ currentState' = "Shutdown"
  BY DEF WakeInv, WokenForReason, CountedWaiterFindsActive
<1>1. t \in Threads
  BY <1>0 DEF TypeOK
<1>2. CASE t \in woken
  <2>1. ASSUME pc[t] = "acquireCounted", active[want[t]] PROVE active'[want[t]]
    <3>1. PICK s \in SubStates : s = want[t]
      BY <1>0, <1>1, <2>1 DEF WaitersWant
    <3>2. t \in Lockers(s)' /\ Lockers(s)' \in SUBSET Threads
      BY <1>1, <2>1, <3>1 DEF Lockers
    <3>3. Cardinality(Lockers(s)') >= 1 /\ Cardinality(Lockers(s)') \in Nat
      BY <3>2, ThreadSets
    <3>4. cnt'[s] \in Nat /\ cnt'[s] >= Cardinality(Lockers(s)')
      BY <1>0 DEF LocksAreCounted, TypeOK
    <3>5. cnt'[s] # 0
      BY <3>3, <3>4
    <3> QED BY <1>0, <2>1, <3>1, <3>5, QuitIsUnlocked
  <2> QED BY <1>2, <2>1 DEF WakeInv, WokenForReason, CountedWaiterFindsActive
<1>3. CASE t \notin woken
  <2>1. Perform(d, cnt') /\ t \in Notified(d)
    BY <1>3 DEF UpdateState, NothingPending, AlreadySet, RefuseUnknown, Postpone, Perform
  <2>2. active' = ActiveAfter(d.state) /\ currentState' = Target(d.state)
    BY <2>1 DEF Perform
  <2>3. d.state = "Shutdown" => currentState' = "Shutdown"
    BY <2>2 DEF Target, DeactivateCommands
  <2>4. CASE t = d.owner /\ WaitsForChange(t)
    BY <1>1, <2>3, <2>4 DEF RequestFits, WaitsForChange
  <2>5. ASSUME NEW s \in SubStates, WaitsForSubState(t, s),
               ActiveAfter(d.state)[s] \/ d.state = "Shutdown"
        PROVE  /\ pc[t] \in {"acquirePending", "acquireCounted"}
               /\ active'[want[t]] \/ currentState' = "Shutdown"
    BY <2>2, <2>3, <2>5 DEF WaitsForSubState
  <2> QED BY <2>1, <2>4, <2>5 DEF Notified, WaitsForChange
<1> QED BY <1>2, <1>3

\* The other steps notify nobody, and a thread that goes on is no longer a notified one.
LEMMA OthersWake ==
  ASSUME TypeOK, WakeInv, ~ SpuriousWakeups, NEW t \in Threads, LocalThread(t),
         ~ \E s \in LockNames : Release(t, s)
  PROVE  WakeInv'
<1>1. UNCHANGED <<currentState, active>>
  BY DEF LocalThread, SetWaitState, SetWaitStateInitial, SetWaitStateReturn, Acquire,
         AcquirePendingWake, AcquireCountedWake, TryAcquire, SpuriousWakeup, stateListVars
<1>2. /\ pc \in [Threads -> {"idle", "setWait", "setInitial", "acquirePending", "acquireCounted"}]
      /\ DOMAIN want = Threads /\ woken \subseteq Threads
  BY DEF TypeOK
<1>3. \/ UNCHANGED <<pc, want, woken>>
      \/ /\ t \notin woken'
         /\ woken' \subseteq woken
         /\ pc' = pc \/ \E x : pc' = [pc EXCEPT ![t] = x]
         /\ want' = want \/ \E x : want' = [want EXCEPT ![t] = x]
  <2>0. pc[t] = "idle" => t \notin woken
    BY DEF WakeInv, WokenForReason
  <2>1. CASE \E m \in LocalCommands : SetWaitState(t, m)
    BY <2>0, <2>1 DEF SetWaitState
  <2>2. CASE \E s \in LockNames : Acquire(t, s)
    BY <2>0, <2>2 DEF Acquire, MayLock, WaitCounted
  <2>3. CASE SetWaitStateInitial(t) \/ SetWaitStateReturn(t)
    BY <2>3 DEF SetWaitStateInitial, SetWaitStateReturn
  <2>4. CASE AcquirePendingWake(t) \/ AcquireCountedWake(t)
    BY <2>4 DEF AcquirePendingWake, AcquireCountedWake
  <2>5. CASE \E s \in LockNames : TryAcquire(t, s)
    BY <2>5 DEF TryAcquire
  <2>6. ~ SpuriousWakeup(t)
    BY DEF SpuriousWakeup
  <2> QED BY <2>1, <2>2, <2>3, <2>4, <2>5, <2>6 DEF LocalThread
<1>4. \A x \in woken' : x \in woken /\ pc'[x] = pc[x] /\ want'[x] = want[x]
  BY <1>2, <1>3
<1> QED BY <1>1, <1>4 DEF WakeInv, WokenForReason, CountedWaiterFindsActive

\* No step notifies a thread without a reason, or takes the reason away.
LEMMA WakeStep ==
  ASSUME ~ SpuriousWakeups, CountInv, CountInv', ChangeInv, RequestInv, WakeInv, [Next]_vars
  PROVE  WakeInv'
<1>0. TypeOK /\ (currentState = "Shutdown" => currentState' = "Shutdown")
  BY ShutdownStep DEF CountInv
<1>1. CASE UpdateStateFromThread
  <2>1. /\ UpdateState(Head(stateQueue), cnt') /\ UNCHANGED <<pc, want>>
        /\ Head(stateQueue) \in StateEntries
        /\ 1 \in 1 .. Len(stateQueue) /\ Head(stateQueue) = stateQueue[1]
    BY <1>0, <1>1 DEF UpdateStateFromThread, TypeOK
  <2>2. RequestFits(Head(stateQueue))
    BY <2>1 DEF RequestInv, RequestsFit
  <2> QED BY <1>0, <2>1, <2>2, UpdateWakes
<1>2. ASSUME NEW t \in Threads, NEW s \in LockNames, Release(t, s) PROVE WakeInv'
  <2>1. UpdateState(desired, cnt') /\ UNCHANGED <<pc, want>> /\ desired \in StateEntries
    BY <1>0, <1>2 DEF Release, TypeOK
  <2>2. RequestFits(desired)
    BY DEF RequestInv, RequestsFit
  <2> QED BY <1>0, <2>1, <2>2, UpdateWakes
<1>3. ASSUME NEW t \in Threads, LocalThread(t) PROVE WakeInv'
  BY <1>0, <1>2, <1>3, OthersWake
<1>4. CASE UNCHANGED <<currentState, active, pc, want, woken>>
  BY <1>4 DEF WakeInv, WokenForReason, CountedWaiterFindsActive
<1> QED
  BY <1>1, <1>3, <1>4
  DEF Next, DefineStates, SetUpInitialState, Activate, HandleQuery, MethodReturn, Destroy,
      threadVars, stateListVars, vars

\* The inductive invariant of the notified threads.
LEMMA WakeInvariant ==
  ASSUME ~ SpuriousWakeups PROVE Spec => []WakeInv
<1>1. Init => WakeInv
  BY DEF Init, WakeInv, WokenForReason, CountedWaiterFindsActive
<1>2. CountInv /\ CountInv' /\ ChangeInv /\ RequestInv /\ WakeInv /\ [Next]_vars => WakeInv'
  BY WakeStep
<1> QED BY <1>1, <1>2, CountInvariant, ChangeInvariant, RequestInvariant, PTL DEF Spec

\* If waits end only by notifications, a thread that waits in acquire() with its lock
\* counted finds its substate active when it gets the mutex back, however late that is:
\* its count keeps every change from quitting the substate again.
THEOREM CountedWaiterServed ==
  ASSUME ~ SpuriousWakeups PROVE Spec => []CountedWaiterFindsActive
<1>1. WakeInv => CountedWaiterFindsActive
  BY DEF WakeInv
<1> QED BY <1>1, WakeInvariant, PTL

\* If waits end only by notifications, setWaitState("Shutdown") returns in the main state
\* Shutdown, even if other requests overtake its own or replace it while it is pending.
THEOREM ShutdownReached ==
  ASSUME ~ SpuriousWakeups PROVE Spec => ShutdownCallEndsInShutdown
<1>1. CountInv /\ ChangeInv /\ RequestInv /\ WakeInv /\ [Next]_vars
        => [\A t \in Threads : WaitsForChange(t) /\ want[t] = "Shutdown" /\ pc'[t] = "idle"
              => currentState' = "Shutdown"]_vars
  <2> SUFFICES ASSUME CountInv, ChangeInv, RequestInv, WakeInv, [Next]_vars, NEW t \in Threads,
                      WaitsForChange(t), want[t] = "Shutdown", pc'[t] = "idle"
               PROVE  currentState = "Shutdown"
    BY ShutdownStep
  <2>1. pc[t] = "setWait"
    BY DEF WaitsForChange, RequestInv, InitialIsAlive
  <2>2. DOMAIN pc = Threads
    BY DEF CountInv, TypeOK
  <2>3. t \in woken
    <3>1. CASE SetWaitStateReturn(t)
      BY <3>1 DEF SetWaitStateReturn
    <3>2. ASSUME NEW x \in Threads, LocalThread(x), x # t PROVE FALSE
      <4>1. pc' = pc \/ \E y : pc' = [pc EXCEPT ![x] = y]
        BY <3>2 DEF LocalThread, SetWaitState, SetWaitStateInitial, SetWaitStateReturn, Acquire,
          WaitCounted, AcquirePendingWake, AcquireCountedWake, TryAcquire, Release, SpuriousWakeup
      <4> QED BY <2>1, <2>2, <3>2, <4>1
    <3>3. CASE LocalThread(t)
      BY <2>1, <2>2, <3>1, <3>3
      DEF LocalThread, SetWaitState, SetWaitStateInitial, Acquire, MayLock, AcquirePendingWake,
        AcquireCountedWake, TryAcquire, Release, SpuriousWakeup
    <3>4. pc' # pc
      BY <2>1
    <3> QED
      BY <3>2, <3>3, <3>4
      DEF Next, DefineStates, SetUpInitialState, Activate, UpdateStateFromThread, HandleQuery,
        MethodReturn, Destroy, threadVars, vars
  <2> QED BY <2>1, <2>3 DEF WakeInv, WokenForReason
<1> QED
  BY <1>1, CountInvariant, ChangeInvariant, RequestInvariant, WakeInvariant, PTL
  DEF Spec, ShutdownCallEndsInShutdown
-----------------------------------------------------------------------------
(* Components that lock with tryAcquire() only.  acquire() can return      *)
(* SMART_OK for a substate that was quit again, and release() of an        *)
(* inactive substate keeps its count; without it neither happens.          *)

NobodyAcquires == \A t \in Threads : pc[t] \notin {"acquirePending", "acquireCounted"}

Holders(s) == {t \in Threads : s \in held[t]}

\* A substate that a thread has locked is active ("available", StateSlave.hpp:254).
HeldIsActive == \A t \in Threads : \A s \in held[t] : active[s]

\* A counter is the number of the threads that hold its substate: none is left behind.
CountsAreHolders == \A s \in SubStates : cnt[s] = Cardinality(Holders(s))

\* The inductive invariant.
TriedInv == NobodyAcquires /\ HeldIsActive /\ CountsAreHolders

\* A postponed change waits for a thread that holds a substate it quits.
PostponedByHolder ==
  ChangePending =>
    \E t \in Threads : \E s \in held[t] : ActionFor(s, desired.state) = "DEACTIVATE"

\* One more or one less thread is one more or one less in the cardinality.
LEMMA ThreadSetsByOne ==
  ASSUME NEW S \in SUBSET Threads, NEW t \in Threads
  PROVE  /\ t \notin S => Cardinality(S \cup {t}) = Cardinality(S) + 1
         /\ t \in S => Cardinality(S \ {t}) = Cardinality(S) - 1
<1>1. IsFiniteSet(S)
  BY ThreadSets
<1> QED BY <1>1, FS_AddElement, FS_RemoveElement

\* tryAcquire() hands out active substates only and counts them.
LEMMA TryAcquireTried ==
  ASSUME TypeOK, TriedInv, NEW t \in Threads, NEW s \in LockNames, TryAcquire(t, s)
  PROVE  TriedInv'
<1>1. s \in SubStates /\ s \notin held[t] /\ UNCHANGED <<pc, active>>
      /\ DOMAIN held = Threads /\ DOMAIN cnt = SubStates
  BY CommandsAssumption DEF TryAcquire, MayLock, TypeOK
<1>2. NobodyAcquires'
  BY <1>1 DEF TriedInv, NobodyAcquires
<1>3. CASE UNCHANGED <<cnt, held>>
  <2>1. \A x \in SubStates : Holders(x)' = Holders(x)
    BY <1>3 DEF Holders
  <2> QED BY <1>1, <1>2, <1>3, <2>1 DEF TriedInv, HeldIsActive, CountsAreHolders
<1>4. CASE Free(s) /\ Grant(t, s)
  <2>1. cnt' = [cnt EXCEPT ![s] = @ + 1] /\ held' = [held EXCEPT ![t] = @ \cup {s}] /\ active[s]
    BY <1>4 DEF Free, Grant
  <2>2. HeldIsActive'
    BY <1>1, <2>1 DEF TriedInv, HeldIsActive
  <2>3. \A x \in SubStates \ {s} : Holders(x)' = Holders(x) /\ cnt'[x] = cnt[x]
    BY <1>1, <2>1 DEF Holders
  <2>4. Holders(s)' = Holders(s) \cup {t} /\ t \notin Holders(s) /\ cnt'[s] = cnt[s] + 1
    BY <1>1, <2>1 DEF Holders
  <2>5. Holders(s) \in SUBSET Threads
    BY DEF Holders
  <2>6. Cardinality(Holders(s)') = Cardinality(Holders(s)) + 1
    BY <2>4, <2>5, ThreadSetsByOne
  <2>7. CountsAreHolders'
    BY <1>1, <2>3, <2>4, <2>6 DEF TriedInv, CountsAreHolders
  <2> QED BY <1>2, <2>2, <2>7 DEF TriedInv
<1> QED BY <1>3, <1>4 DEF TryAcquire, LockCallFails, LockRefused

\* release() finds the substate active and counts its lock down.
LEMMA ReleaseTried ==
  ASSUME CountInv, CountInv', TriedInv, NEW t \in Threads, NEW s \in LockNames, Release(t, s),
         [Next]_vars
  PROVE  TriedInv'
<1>1. TypeOK /\ s \in SubStates /\ s \in held[t] /\ pc' = pc
      /\ DOMAIN held = Threads /\ DOMAIN cnt = SubStates
      /\ held' = [held EXCEPT ![t] = @ \ {s}] /\ cnt' = Released(s)
  BY CommandsAssumption DEF Release, CountInv, TypeOK
<1>2. Holders(s) \in SUBSET Threads /\ t \in Holders(s)
  BY <1>1 DEF Holders
<1>3. cnt' = [cnt EXCEPT ![s] = @ - 1]
  <2>1. active[s] /\ cnt[s] = Cardinality(Holders(s))
    BY <1>1 DEF TriedInv, HeldIsActive, CountsAreHolders
  <2>2. Cardinality(Holders(s)) \in Nat /\ Cardinality(Holders(s)) >= 1
    BY <1>2, ThreadSets
  <2> QED BY <1>1, <2>1, <2>2 DEF Released
<1>4. \A x \in SubStates \ {s} : Holders(x)' = Holders(x) /\ cnt'[x] = cnt[x]
  BY <1>1, <1>3 DEF Holders
<1>5. Holders(s)' = Holders(s) \ {t} /\ cnt'[s] = cnt[s] - 1
  BY <1>1, <1>3 DEF Holders
<1>6. Cardinality(Holders(s)') = Cardinality(Holders(s)) - 1
  BY <1>2, <1>5, ThreadSetsByOne
<1>7. CountsAreHolders'
  BY <1>1, <1>4, <1>5, <1>6 DEF TriedInv, CountsAreHolders
<1>8. HeldIsActive'
  <2> SUFFICES ASSUME NEW x \in Threads, NEW y \in held'[x] PROVE active'[y]
    BY DEF HeldIsActive
  <2>1. y \in held[x] /\ y \in SubStates
    BY <1>1 DEF TypeOK
  <2>2. active[y]
    BY <2>1 DEF TriedInv, HeldIsActive
  <2> QED BY <2>1, <2>2, QuitStep
<1> QED BY <1>1, <1>7, <1>8 DEF TriedInv, NobodyAcquires

\* Every other step hands out no lock, and quits no substate that is held.
LEMMA TriedStep ==
  ASSUME "acquire" \notin LockCalls, CountInv, CountInv', TriedInv, [Next]_vars
  PROVE  TriedInv'
<1>0. TypeOK /\ DOMAIN pc = Threads
  BY DEF CountInv, TypeOK
<1>1. CASE /\ UNCHANGED <<cnt, held>>
           /\ \A x \in Threads : pc'[x] \in {pc[x], "idle", "setWait", "setInitial"}
  <2>1. \A x \in SubStates : Holders(x)' = Holders(x)
    BY <1>1 DEF Holders
  <2>2. HeldIsActive'
    <3> SUFFICES ASSUME NEW x \in Threads, NEW y \in held[x], held' = held PROVE active'[y]
      BY <1>1 DEF HeldIsActive
    <3>1. active[y] /\ y \in SubStates
      BY <1>0 DEF TriedInv, HeldIsActive, TypeOK
    <3> QED BY <3>1, QuitStep
  <2> QED BY <1>1, <2>1, <2>2 DEF TriedInv, NobodyAcquires, CountsAreHolders
<1>2. ASSUME NEW t \in Threads, LocalThread(t) PROVE TriedInv'
  <2>1. CASE \E s \in LockNames : TryAcquire(t, s)
    BY <1>0, <2>1, TryAcquireTried
  <2>2. CASE \E s \in LockNames : Release(t, s)
    BY <2>2, ReleaseTried
  <2>3. CASE \/ \E m \in LocalCommands : SetWaitState(t, m)
             \/ SetWaitStateInitial(t)
             \/ SetWaitStateReturn(t)
             \/ SpuriousWakeup(t)
    <3>1. UNCHANGED <<cnt, held>> /\ (pc' = pc \/ \E y \in {"idle", "setWait", "setInitial"} :
                                                    pc' = [pc EXCEPT ![t] = y])
      BY <2>3 DEF SetWaitState, SetWaitStateInitial, SetWaitStateReturn, SpuriousWakeup,
        stateListVars
    <3> QED BY <1>0, <1>1, <3>1
  <2>4. ~ AcquirePendingWake(t) /\ ~ AcquireCountedWake(t)
    BY DEF TriedInv, NobodyAcquires, AcquirePendingWake, AcquireCountedWake
  <2> QED BY <1>2, <2>1, <2>2, <2>3, <2>4 DEF LocalThread
<1>3. CASE UNCHANGED <<cnt, held, pc>>
  BY <1>1, <1>3
<1> QED
  BY <1>2, <1>3
  DEF Next, DefineStates, SetUpInitialState, Activate, UpdateStateFromThread, HandleQuery,
    MethodReturn, Destroy, stateListVars, threadVars, vars

\* The inductive invariant of the components that use tryAcquire() only.
LEMMA TriedInvariant ==
  ASSUME "acquire" \notin LockCalls PROVE Spec => []TriedInv
<1>1. Init => TriedInv
  <2> SUFFICES ASSUME Init PROVE TriedInv
    OBVIOUS
  <2>1. \A s \in SubStates : cnt[s] = 0 /\ Holders(s) = {}
    BY DEF Init, Holders
  <2> QED BY <2>1, FS_EmptySet DEF Init, TriedInv, NobodyAcquires, HeldIsActive, CountsAreHolders
<1>2. CountInv /\ CountInv' /\ TriedInv /\ [Next]_vars => TriedInv'
  BY TriedStep
<1> QED BY <1>1, <1>2, CountInvariant, PTL DEF Spec

\* What is locked by tryAcquire() only is active for as long as it is held: of the two ways
\* to lock a substate, it is acquire() that breaks HeldIsActive.
THEOREM TriedIsActive ==
  ASSUME "acquire" \notin LockCalls PROVE Spec => []HeldIsActive
<1>1. TriedInv => HeldIsActive
  BY DEF TriedInv
<1> QED BY <1>1, TriedInvariant, PTL

\* With tryAcquire() only, every postponed change waits for a thread that does hold a
\* substate it quits: no count without a holder keeps a change from being performed.
THEOREM PostponedByHolders ==
  ASSUME "acquire" \notin LockCalls PROVE Spec => []PostponedByHolder
<1>1. TypeOK /\ ChangeInv /\ TriedInv => PostponedByHolder
  <2> SUFFICES ASSUME TypeOK, ChangeInv, TriedInv, ChangePending
               PROVE  \E t \in Threads : \E s \in held[t] :
                        ActionFor(s, desired.state) = "DEACTIVATE"
    BY DEF PostponedByHolder
  <2>1. PICK s \in SubStates : ActionFor(s, desired.state) = "DEACTIVATE" /\ cnt[s] # 0
    BY DEF ChangeInv, PendingIsBlocked, Locked
  <2>2. Cardinality(Holders(s)) # 0
    BY <2>1 DEF TriedInv, CountsAreHolders
  <2>3. Holders(s) # {}
    BY <2>2, FS_EmptySet
  <2> QED BY <2>1, <2>3 DEF Holders
<1> QED BY <1>1, TypeCorrect, ChangeInvariant, TriedInvariant, PTL
-----------------------------------------------------------------------------
(* The abstract life-cycle.                                                *)

\* Nothing changes the main state before activate().
BornInInit == ~ running /\ updateThread # "joined" => currentState = "Init"

LEMMA BornInvariant == Spec => []BornInInit
<1>1. Init => BornInInit
  BY DEF Init, BornInInit
<1>2. ChangeInv /\ BornInInit /\ [Next]_vars => BornInInit'
  <2> SUFFICES ASSUME ChangeInv, BornInInit, [Next]_vars, ~ running', updateThread' # "joined"
               PROVE  currentState' = "Init"
    BY DEF BornInInit
  <2>1. CASE UpdateStateFromThread
    BY <2>1 DEF UpdateStateFromThread, ChangeInv, QuietBeforeActivation
  <2>2. CASE \E t \in Threads, s \in LockNames : Release(t, s)
    BY <2>2 DEF Release
  <2>3. CASE Activate \/ Destroy
    BY <2>3 DEF Activate, Destroy
  <2>4. CASE UNCHANGED <<running, updateThread, currentState>>
    BY <2>4 DEF BornInInit
  <2> QED
    BY <2>1, <2>2, <2>3, <2>4
    DEF Next, DefineStates, SetUpInitialState, HandleQuery, MethodReturn, LocalThread,
      SetWaitState, SetWaitStateInitial, SetWaitStateReturn, Acquire, AcquirePendingWake,
      AcquireCountedWake, TryAcquire, SpuriousWakeup, vars
<1> QED BY <1>1, <1>2, ChangeInvariant, PTL DEF Spec

\* A performed change enters and quits the substates it should.
LEMMA PerformChanges ==
  ASSUME TypeOK, ActiveInv, NEW d \in StateEntries, NEW c, Perform(d, c)
  PROVE  \/ {s \in SubStates : active'[s]} =
              {s \in SubStates : /\ currentState' \in mainstates[s]
                                 /\ currentState \in mainstates[s] => s \in {x \in SubStates : active[x]}}
         \/ currentState' = "Neutral" /\ {s \in SubStates : active'[s]} = {}
<1> DEFINE m == d.state
<1>1. active' = ActiveAfter(m) /\ currentState' = Target(m)
  BY DEF Perform
<1>2. \A s \in SubStates : active[s] => currentState \in mainstates[s]
  BY DEF ActiveInv, ActiveBelongs
<1>3. CASE m \in DeactivateCommands
  <2>1. currentState' = "Neutral"
    BY <1>1, <1>3 DEF Target
  <2>2. \A s \in SubStates : m \notin mainstates[s]
    BY <1>3 DEF ActiveInv, CommandsAreNoStates
  <2>3. \A s \in SubStates : ~ active'[s]
    BY <1>1, <1>2, <2>2 DEF ActiveAfter, ActionFor
  <2> QED BY <2>1, <2>3
<1>4. CASE m \notin DeactivateCommands
  <2>1. currentState' = m
    BY <1>1, <1>4 DEF Target
  <2>2. ASSUME NEW s \in SubStates
        PROVE  active'[s] <=> m \in mainstates[s] /\ (currentState \in mainstates[s] => active[s])
    <3>1. active'[s] = CASE ActionFor(s, m) = "DEACTIVATE" -> FALSE
                         [] ActionFor(s, m) = "ACTIVATE" -> TRUE
                         [] OTHER -> active[s]
      BY <1>1 DEF ActiveAfter
    <3> QED BY <1>2, <3>1 DEF ActionFor
  <2>3. {s \in SubStates : active'[s]} =
          {s \in SubStates : m \in mainstates[s] /\ (currentState \in mainstates[s] => active[s])}
    BY <2>2
  <2>4. {s \in SubStates : active'[s]} =
          {s \in SubStates : /\ currentState' \in mainstates[s]
                             /\ currentState \in mainstates[s] => s \in {x \in SubStates : active[x]}}
    BY <2>1, <2>3
  <2> QED BY <2>4
<1> QED BY <1>3, <1>4

\* updateState() answers the order of the master whose request it was given, and with
\* SMART_OK only in the state the master asked for.
LEMMA UpdateAnswers ==
  ASSUME TypeOK, TypeOK', RequestInv, NEW d \in StateEntries, NEW c, UpdateState(d, c),
         RequestFits(d)
  PROVE  Life!Answer
<1>1. CASE query' = query
  <2>1. Order' = Order
    BY <1>1 DEF Order
  <2> QED BY <2>1 DEF Life!Answer
<1>2. CASE query' # query
  <2>1. PICK status : /\ AnswerMaster(d, status)
                      /\ status \in {"OK", "ERROR", "UNKNOWNSTATE"}
                      /\ status = "OK" => \/ currentState' = currentState /\ d.state = currentState
                                          \/ currentState' = Target(d.state)
    BY <1>2 DEF UpdateState, NothingPending, AlreadySet, RefuseUnknown, Postpone, Perform
  <2>2. d.owner = "master" /\ query' = [query EXCEPT !.status = status]
    BY <1>2, <2>1 DEF AnswerMaster
  <2>3. query.cmd = "SET_STATE" /\ query.status = "none" /\ d.state = query.state
    BY <2>2 DEF RequestFits
  <2>4. query'.cmd = "SET_STATE" /\ query'.state = query.state /\ query'.status = status
    BY <2>2, <2>3 DEF TypeOK
  <2>5. Order = [given |-> TRUE, state |-> query.state, status |-> "none"]
    BY <2>3 DEF Order
  <2>6. Order' = [given |-> TRUE, state |-> query.state, status |-> status]
    BY <2>4 DEF Order
  <2>7. query.state \in MainStates
    BY DEF TypeOK
  <2>8. status = "OK" => currentState' = Target(query.state)
    BY <2>1, <2>3 DEF RequestInv, NeverDeactivated, Target
  <2>9. Order.given /\ Order.status = "none" /\ Order.state = query.state
    <3>1. PICK o : o = Order
      OBVIOUS
    <3>2. o = [given |-> TRUE, state |-> query.state, status |-> "none"]
      BY ONLY <2>5, <3>1
    <3>3. o.given /\ o.status = "none" /\ o.state = query.state
      BY ONLY <3>2
    <3> QED BY ONLY <3>1, <3>3
  <2>10. status \in Status \ {"none"}
    BY <2>1 DEF Status
  <2>11. status = "OK" => currentState' = IF Order.state \in DeactivateCommands THEN "Neutral"
                                          ELSE Order.state
    BY <2>8, <2>9 DEF Target
  <2> QED BY ONLY <2>6, <2>9, <2>10, <2>11 DEF Life!Answer, Life!Given
<1> QED BY <1>1, <1>2

\* updateState() changes the main state as the life-cycle does, or leaves it alone.
LEMMA UpdateChanges ==
  ASSUME CountInv, CountInv', ActiveInv, [Next]_vars, NEW d \in StateEntries, NEW c,
         UpdateState(d, c), currentState = "Shutdown" => d.action # "CHANGE_STATE"
  PROVE  Life!Stay \/ Life!Change
<1>1. TypeOK /\ TypeOK'
  BY DEF CountInv
<1>2. CASE Perform(d, c)
  <2>1. currentState # "Shutdown"
    BY <1>2 DEF Perform
  <2>2. currentState' \in MainStates
    BY <1>1 DEF TypeOK
  <2>3. \A s \in {x \in SubStates : active[x]} \ {x \in SubStates : active'[x]} :
          \A t \in Threads : s \notin held'[t]
    BY QuitStep
  <2> QED BY <1>1, <1>2, <2>1, <2>2, <2>3, PerformChanges DEF Life!Change
<1>3. CASE UNCHANGED <<currentState, active>>
  BY <1>3 DEF Life!Stay
<1> QED BY <1>2, <1>3 DEF UpdateState, NothingPending, AlreadySet, RefuseUnknown, Postpone

\* What the refinement needs to know of a state.
LifeInv == /\ CountInv /\ ChangeInv /\ ActiveInv /\ RequestInv /\ BornInInit
           /\ "acquire" \in LockCalls \/ NobodyAcquires

\* A query of a master is an order, all other queries leave the order alone.
LEMMA LifeQueries ==
  ASSUME LifeInv, UNCHANGED <<currentState, mainstates, active, held>>,
         \/ \E cmd \in Commands, m \in RemoteStates : HandleQuery(cmd, m)
         \/ MethodReturn
  PROVE  Life!Next \/ UNCHANGED Life!vars
<1>1. UNCHANGED Order => UNCHANGED Life!vars
  BY DEF Life!vars
<1>2. CASE MethodReturn
  <2>1. query.status # "none" /\ query' = NoQuery
    BY <1>2 DEF MethodReturn
  <2>2. Order' = Life!NoOrder
    BY <2>1 DEF Order, NoQuery, Life!NoOrder
  <2>3. CASE query.cmd = "SET_STATE"
    <3>1. PICK o : o = Order
      OBVIOUS
    <3>2. o = [given |-> TRUE, state |-> query.state, status |-> query.status]
      BY <2>3, <3>1 DEF Order
    <3>3. o.status = query.status
      BY ONLY <3>2
    <3>4. Life!Forget
      BY <2>1, <2>2, <3>1, <3>3 DEF Life!Forget
    <3> QED BY <3>4 DEF Life!Next
  <2>4. CASE query.cmd # "SET_STATE"
    <3>1. Order = Life!NoOrder
      BY <2>4 DEF Order, Life!NoOrder
    <3> QED BY <1>1, <2>2, <3>1
  <2> QED BY <2>3, <2>4
<1>3. ASSUME NEW cmd \in Commands, NEW m \in RemoteStates, HandleQuery(cmd, m)
      PROVE  Life!Next \/ UNCHANGED Life!vars
  <2>1. query = NoQuery
    BY <1>3 DEF HandleQuery
  <2>2. Order = Life!NoOrder
    BY <2>1 DEF Order, NoQuery, Life!NoOrder
  <2>3. CASE HndSetMainState(m)
    <3>1. PICK q : q = query'
      OBVIOUS
    <3>2. q = [NoQuery EXCEPT !.cmd = "SET_STATE", !.state = m, !.status = Verdict(m)]
      BY <2>3, <3>1 DEF HndSetMainState
    <3>3. q.cmd = "SET_STATE" /\ q.state = m /\ q.status = Verdict(m)
      BY ONLY <3>2 DEF NoQuery
    <3>4. Order' = Life!Given(m, Verdict(m))
      BY <3>1, <3>3 DEF Order, Life!Given
    <3>5. Verdict(m) \in Status \ {"OK"}
      BY DEF Verdict, Status
    <3>6. m \in MainStates
      BY DEF MainStates
    <3>7. ~ Order.given
      BY <2>2 DEF Life!NoOrder
    <3>8. Life!Command(m)
      BY <3>4, <3>5, <3>7 DEF Life!Command
    <3> QED BY <3>6, <3>8 DEF Life!Next
  <2>4. CASE ~ HndSetMainState(m)
    <3>1. query'.cmd # "SET_STATE"
      BY <1>3, <2>4 DEF HandleQuery, HndGetCurrentState, HndGetMainStates, HndGetSubStates, NoQuery
    <3>2. Order' = Life!NoOrder
      BY <3>1 DEF Order, Life!NoOrder
    <3> QED BY <1>1, <2>2, <3>2
  <2> QED BY <2>3, <2>4
<1> QED BY <1>2, <1>3

\* defineStates() adds to what substates belong to, and only before activate().
LEMMA LifeDefines ==
  ASSUME LifeInv, TypeOK', updateThread # "joined", NEW m, NEW s, DefineStates(m, s)
  PROVE  Life!Next \/ UNCHANGED Life!vars
<1>1. UNCHANGED <<currentState, active, held, query>>
  BY DEF DefineStates, threadVars
<1>2. UNCHANGED Order
  BY <1>1 DEF Order
<1>3. CASE mainstates' = mainstates
  BY <1>1, <1>2, <1>3 DEF Life!vars
<1>4. CASE mainstates' # mainstates
  <2>1. ~ running /\ m \notin ReservedMain /\ s \notin ReservedSub
    BY <1>4 DEF DefineStates
  <2>2. currentState = "Init"
    BY <2>1 DEF LifeInv, BornInInit
  <2>3. s # "nonneutral"
        /\ mainstates' = [mainstates EXCEPT !["nonneutral"] = @ \cup {m}, ![s] = @ \cup {m}]
    BY <1>4, <2>1 DEF DefineStates, ReservedSub
  <2>4. \A x \in SubStates : mainstates[x] \subseteq mainstates'[x]
    BY <2>3 DEF LifeInv, CountInv, TypeOK
  <2>5. mainstates' \in [SubStates -> SUBSET MainStates]
    BY DEF TypeOK
  <2>6. Life!Define
    BY <1>1, <1>2, <2>2, <2>4, <2>5 DEF Life!Define
  <2> QED BY <2>6 DEF Life!Next
<1> QED BY <1>3, <1>4

\* acquire() and tryAcquire() hand out one lock or none, tryAcquire() an active one only.
LEMMA LifeLocks ==
  ASSUME LifeInv, NEW t \in Threads,
         \/ \E s \in LockNames : "acquire" \in LockCalls /\ Acquire(t, s)
         \/ \E s \in LockNames : TryAcquire(t, s)
         \/ AcquirePendingWake(t)
         \/ AcquireCountedWake(t)
  PROVE  Life!Next \/ UNCHANGED Life!vars
<1>1. UNCHANGED <<currentState, mainstates, active, query>>
  BY DEF Acquire, TryAcquire, AcquirePendingWake, AcquireCountedWake
<1>2. UNCHANGED Order
  BY <1>1 DEF Order
<1>3. CASE held' = held
  BY <1>1, <1>2, <1>3 DEF Life!vars
<1>4. ASSUME NEW s \in SubStates, s \notin held[t], active[s] \/ "acquire" \in LockCalls,
             held' = [held EXCEPT ![t] = @ \cup {s}]
      PROVE  Life!Next
  <2>1. Life!Lock(t, s)
    BY <1>1, <1>2, <1>4 DEF Life!Lock
  <2> QED BY <2>1 DEF Life!Next
<1>5. ASSUME NEW s \in LockNames, "acquire" \in LockCalls, Acquire(t, s), held' # held
      PROVE  Life!Next
  <2>1. s \in SubStates /\ s \notin held[t] /\ held' = [held EXCEPT ![t] = @ \cup {s}]
    BY <1>5, CommandsAssumption DEF Acquire, MayLock, LockCallFails, LockRefused, Grant, WaitCounted
  <2> QED BY <1>4, <1>5, <2>1
<1>6. ASSUME NEW s \in LockNames, TryAcquire(t, s), held' # held
      PROVE  Life!Next
  <2>1. s \in SubStates /\ s \notin held[t] /\ held' = [held EXCEPT ![t] = @ \cup {s}] /\ active[s]
    BY <1>6, CommandsAssumption DEF TryAcquire, MayLock, LockCallFails, LockRefused, Grant, Free
  <2> QED BY <1>4, <2>1
<1>7. ASSUME AcquirePendingWake(t) \/ AcquireCountedWake(t), held' # held
      PROVE  Life!Next
  <2>1. pc[t] \in {"acquirePending", "acquireCounted"}
        /\ held' = [held EXCEPT ![t] = @ \cup {want[t]}]
    BY <1>7 DEF AcquirePendingWake, AcquireCountedWake, LockRefused, Grant
  <2>2. want[t] \in SubStates /\ want[t] \notin held[t] /\ "acquire" \in LockCalls
    BY <2>1 DEF LifeInv, CountInv, WaitersWant, NobodyAcquires
  <2> QED BY <1>4, <2>1, <2>2
<1> QED BY <1>3, <1>5, <1>6, <1>7

\* Every step of the slave is a step of the life-cycle or invisible to it.
LEMMA LifeStep ==
  ASSUME LifeInv, CountInv', [Next]_vars
  PROVE  [Life!Next]_(Life!vars)
<1>0. CountInv /\ ActiveInv /\ RequestInv /\ TypeOK /\ TypeOK'
  BY DEF LifeInv, CountInv
<1>1. ASSUME NEW t \in Threads, NEW s \in LockNames, Release(t, s) PROVE Life!Next
  <2>1. /\ s \in SubStates /\ s \in held[t] /\ held' = [held EXCEPT ![t] = @ \ {s}]
        /\ UpdateState(desired, Released(s)) /\ UNCHANGED mainstates
    BY <1>1, CommandsAssumption DEF Release
  <2>2. desired \in StateEntries /\ RequestFits(desired)
    BY <1>0 DEF TypeOK, RequestInv, RequestsFit
  <2>3. currentState = "Shutdown" => desired.action # "CHANGE_STATE"
    BY DEF LifeInv, ChangeInv, ShutdownHalts, ChangePending
  <2>4. Life!Answer
    BY <1>0, <2>1, <2>2, UpdateAnswers
  <2>5. Life!Stay \/ Life!Change
    BY <1>0, <2>1, <2>2, <2>3, UpdateChanges
  <2>6. Life!Unlock(t, s)
    BY <2>1, <2>4, <2>5 DEF Life!Unlock
  <2> QED BY <2>1, <2>6 DEF Life!Next
<1>2. CASE UpdateStateFromThread
  <2>1. /\ UpdateState(Head(stateQueue), cnt) /\ UNCHANGED <<mainstates, held>>
        /\ 1 \in 1 .. Len(stateQueue) /\ Head(stateQueue) = stateQueue[1]
        /\ updateThread = "running"
    BY <1>0, <1>2 DEF UpdateStateFromThread, TypeOK
  <2>2. Head(stateQueue) \in StateEntries /\ RequestFits(Head(stateQueue))
    BY <1>0, <2>1 DEF TypeOK, RequestInv, RequestsFit
  <2>3. currentState # "Shutdown"
    BY <2>1 DEF LifeInv, ChangeInv, ShutdownHalts
  <2>4. Life!Answer
    BY <1>0, <2>1, <2>2, UpdateAnswers
  <2>5. Life!Stay \/ Life!Change
    BY <1>0, <2>1, <2>2, <2>3, UpdateChanges
  <2>6. Life!Proceed
    BY <2>1, <2>4, <2>5 DEF Life!Proceed
  <2> QED BY <2>6 DEF Life!Next
<1>3. CASE (\E cmd \in Commands, m \in RemoteStates : HandleQuery(cmd, m)) \/ MethodReturn
  <2>1. UNCHANGED <<currentState, mainstates, active, held>>
    BY <1>3 DEF HandleQuery, MethodReturn, stateListVars, threadVars
  <2> QED BY <1>3, <2>1, LifeQueries
<1>4. CASE updateThread # "joined" /\ \E m \in MainNames, s \in SubNames : DefineStates(m, s)
  BY <1>0, <1>4, LifeDefines
<1>5. ASSUME NEW t \in Threads,
             \/ \E s \in LockNames : "acquire" \in LockCalls /\ Acquire(t, s)
             \/ \E s \in LockNames : "tryAcquire" \in LockCalls /\ TryAcquire(t, s)
             \/ AcquirePendingWake(t)
             \/ AcquireCountedWake(t)
      PROVE  Life!Next \/ UNCHANGED Life!vars
  BY <1>5, LifeLocks
<1>6. CASE UNCHANGED <<currentState, mainstates, active, held, query>>
  BY <1>6 DEF Life!vars, Order
<1> QED
  BY <1>1, <1>2, <1>3, <1>4, <1>5, <1>6
  DEF Next, SetUpInitialState, Activate, Destroy, LocalThread, SetWaitState,
    SetWaitStateInitial, SetWaitStateReturn, SpuriousWakeup, stateListVars, threadVars, vars

\* ImplementsLifecycle for any threads, states and bounds, with or without acquire() and
\* spurious wakeups: queue, counters and postponed changes keep what the life-cycle promises.
THEOREM SlaveImplementsLifecycle == Spec => ImplementsLifecycle
<1>1. Init => Life!Init
  <2> SUFFICES ASSUME Init PROVE Life!Init
    OBVIOUS
  <2>1. /\ currentState = "Init" /\ held = [t \in Threads |-> {}] /\ query = NoQuery
        /\ active = [s \in SubStates |-> s = "init"]
        /\ mainstates = [s \in SubStates |->
                           CASE s = "init" -> {"Init"}
                             [] s = "neutral" -> {"Neutral"}
                             [] s = "fatalError" -> {"FatalError"}
                             [] s = "shutdown" -> {"Shutdown"}
                             [] OTHER -> {}]
    BY DEF Init
  <2>2. Order = Life!NoOrder
    BY <2>1 DEF Order, NoQuery, Life!NoOrder
  <2>3. mainstates \in [SubStates -> SUBSET MainStates]
    BY CountInit DEF CountInv, TypeOK
  <2>4. {s \in SubStates : active[s]} = {s \in SubStates : "Init" \in mainstates[s]}
    BY <2>1
  <2> QED BY <2>1, <2>2, <2>3, <2>4 DEF Life!Init
<1>2. LifeInv /\ CountInv' /\ [Next]_vars => [Life!Next]_(Life!vars)
  BY LifeStep
<1>3. CASE "acquire" \in LockCalls
  <2>1. CountInv /\ ChangeInv /\ ActiveInv /\ RequestInv /\ BornInInit => LifeInv
    BY <1>3 DEF LifeInv
  <2> QED
    BY <1>1, <1>2, <2>1, CountInvariant, ChangeInvariant, ActiveInvariant, RequestInvariant,
       BornInvariant, PTL
    DEF Spec, ImplementsLifecycle, Life!Spec
<1>4. CASE "acquire" \notin LockCalls
  <2>1. CountInv /\ ChangeInv /\ ActiveInv /\ RequestInv /\ BornInInit /\ TriedInv => LifeInv
    BY DEF LifeInv, TriedInv
  <2>2. Spec => []TriedInv
    BY <1>4, TriedInvariant
  <2> QED
    BY <1>1, <1>2, <2>1, <2>2, CountInvariant, ChangeInvariant, ActiveInvariant,
       RequestInvariant, BornInvariant, PTL
    DEF Spec, ImplementsLifecycle, Life!Spec
<1> QED BY <1>3, <1>4
=============================================================================
