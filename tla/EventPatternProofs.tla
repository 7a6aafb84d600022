------------------------- MODULE EventPatternProofs --------------------------
(***************************************************************************)
(* Theorems about EventPattern, for any number of activations, puts and    *)
(* any queue size: put() tests every activation, the shared flag is not    *)
(* lost, a lone activation follows its test, and the pattern implements    *)
(* EventChannel.                                                           *)
(***************************************************************************)
EXTENDS EventPattern, TLAPS

\* The iterator of put() moves forward, or put() returns.
LEMMA AdvanceForward ==
  ASSUME TypeOK, NEW c \in 0 .. MaxActivations, NEW r \in BOOLEAN, Advance(c, r)
  PROVE  \/ phase' = "idle" /\ cursor' = 0
         \/ phase' = "testing" /\ cursor' \in infos /\ c < cursor' /\ cursor' # 0
  BY DEF Advance, Later, TypeOK, Ids

\* Without a race it goes to the next entry, and returns after the last one.
LEMMA AdvanceNext ==
  ASSUME TypeOK, NEW c \in 0 .. MaxActivations, Advance(c, FALSE)
  PROVE  \/ phase' = "idle" /\ \A b \in infos : b <= c
         \/ phase' = "testing" /\ \A b \in infos : b < cursor' => b <= c
  <1>1. CASE Later(c) = {}
    BY <1>1, EventAssumption DEF Advance, Later, TypeOK, Ids
  <1>2. CASE Later(c) # {}
    BY <1>2, EventAssumption DEF Advance, Later, TypeOK, Ids
  <1> QED BY <1>1, <1>2

\* A queue that took a notification ends with it and otherwise holds, in the same order,
\* what it held before.
LEMMA EnqueueElements ==
  ASSUME EventAssumption, NEW a \in Ids, NEW n \in Notification,
         queue \in [Ids -> Seq(Notification)]
  PROVE  /\ Enqueue(a, n) \in Seq(Notification)
         /\ Len(Enqueue(a, n)) > 0
         /\ Enqueue(a, n)[Len(Enqueue(a, n))] = n
         /\ \E k \in {0, 1} : \A i \in 1 .. Len(Enqueue(a, n)) - 1 :
              i + k \in 1 .. Len(queue[a]) /\ Enqueue(a, n)[i] = queue[a][i + k]
  <1> DEFINE q == queue[a]
  <1>0. q \in Seq(Notification)
    OBVIOUS
  <1>1. CASE Len(q) < QueueSize
    <2>1. Enqueue(a, n) = Append(q, n)
      BY <1>1 DEF Enqueue
    <2> HIDE DEF q
    <2>2. /\ Append(q, n) \in Seq(Notification)
          /\ Len(Append(q, n)) = Len(q) + 1
          /\ Append(q, n)[Len(q) + 1] = n
          /\ \A i \in 1 .. Len(q) : Append(q, n)[i] = q[i]
      BY <1>0
    <2>3. \A i \in 1 .. Len(Append(q, n)) - 1 :
            i + 0 \in 1 .. Len(q) /\ Append(q, n)[i] = q[i + 0]
      BY <1>0, <2>2
    <2> QED BY <1>0, <2>1, <2>2, <2>3 DEF q
  <1>2. CASE ~ (Len(q) < QueueSize)
    <2>1. Enqueue(a, n) = Append(Tail(q), n)
      BY <1>2 DEF Enqueue
    <2> HIDE DEF q
    <2>2. Len(q) > 0 /\ q # <<>>
      BY <1>0, <1>2, EventAssumption DEF EventAssumption
    <2> DEFINE t == Tail(q)
    <2>3. /\ t \in Seq(Notification)
          /\ Len(t) = Len(q) - 1
          /\ \A i \in 1 .. Len(t) : t[i] = q[i + 1]
      BY <1>0, <2>2
    <2> HIDE DEF t
    <2>4. /\ Append(t, n) \in Seq(Notification)
          /\ Len(Append(t, n)) = Len(t) + 1
          /\ Append(t, n)[Len(t) + 1] = n
          /\ \A i \in 1 .. Len(t) : Append(t, n)[i] = t[i]
      BY <2>3
    <2>5. \A i \in 1 .. Len(Append(t, n)) - 1 :
            i + 1 \in 1 .. Len(q) /\ Append(t, n)[i] = q[i + 1]
      BY <1>0, <2>3, <2>4
    <2> QED BY <1>0, <2>1, <2>3, <2>4, <2>5 DEF q, t
  <1> QED BY <1>1, <1>2

-----------------------------------------------------------------------------
(* Type correctness.                                                       *)

\* put() is counted before it does anything.
PutCounted == phase # "idle" => puts > 0

\* One step keeps the types.
LEMMA TypeStep ==
  ASSUME EventAssumption, TypeOK, PutCounted, [Next]_vars
  PROVE  TypeOK' /\ PutCounted'
  <1> USE EventAssumption DEF EventAssumption
  <1>0. \A a \in Ids : Reading(a) \in Notification
    BY DEF TypeOK, Reading, Notification
  <1>1. CASE Put
    <2>1. \/ phase' = "idle" /\ cursor' = 0
          \/ phase' = "testing" /\ cursor' \in infos /\ cursor' # 0
      <3>1. Advance(0, FALSE)
        BY <1>1, Zenon DEF Put
      <3>2. 0 \in 0 .. MaxActivations
        OBVIOUS
      <3> QED BY <3>1, <3>2, AdvanceForward, Zenon
    <2>2. raced' \in BOOLEAN /\ thrown' \in BOOLEAN
      BY <1>1, Zenon DEF Put
    <2>3. /\ puts < MaxPuts /\ puts' = puts + 1 /\ atStart' = infos
          /\ UNCHANGED <<infos, node, readable, disabled, fired, tested, clientVars, uaVars>>
      BY <1>1, Zenon DEF Put, nodeVars
    <2>4. puts' \in 0 .. MaxPuts /\ puts' > 0
      BY <2>3 DEF TypeOK
    <2>5. /\ phase' \in {"idle", "testing"}
          /\ cursor' \in {0} \cup infos
          /\ phase' # "idle" => cursor' # 0
      BY <2>1
    <2> QED BY <2>2, <2>3, <2>4, <2>5 DEF TypeOK, PutCounted, clientVars, uaVars
  <1>2. CASE TestEvent
    <2>1. cursor \in infos /\ cursor \in Ids /\ cursor \in 0 .. MaxActivations
      BY <1>2 DEF TestEvent, TypeOK, Ids
    <2>2. CASE TestSucceeds
      <3>1. puts \in 1 .. MaxPuts
        BY <1>2 DEF TestEvent, TypeOK, PutCounted
      <3> QED BY <1>2, <2>1, <2>2, <3>1
              DEF TestEvent, TestSucceeds, TypeOK, PutCounted, nodeVars, clientVars, uaVars
    <2>3. CASE TestFails /\ UNCHANGED fired
      <3>1. \/ phase' = "idle" /\ cursor' = 0
            \/ phase' = "testing" /\ cursor' \in infos /\ cursor' # 0
            \/ phase' = "disabling" /\ cursor' = cursor
        <4>1. CASE Advance(cursor, raced)
          <5>1. raced \in BOOLEAN
            BY DEF TypeOK
          <5> QED BY <2>1, <4>1, <5>1, AdvanceForward, Zenon
        <4> QED BY <2>3, <4>1 DEF TestFails
      <3> QED BY <1>2, <2>1, <2>3, <3>1
              DEF TestEvent, TypeOK, PutCounted, nodeVars, clientVars, uaVars, Ids
    <2> QED BY <1>2, <2>2, <2>3 DEF TestEvent
  <1>3. CASE Enable
    BY <1>3 DEF Enable, TypeOK, PutCounted, clientVars, uaVars
  <1>4. CASE Update
    <2>1. \/ phase' = "idle" /\ cursor' = 0
          \/ phase' = "testing" /\ cursor' \in infos /\ cursor' # 0
      <3>1. Advance(cursor, raced) /\ cursor \in 0 .. MaxActivations /\ raced \in BOOLEAN
        BY <1>4 DEF Update, TypeOK, Ids
      <3> QED BY <3>1, AdvanceForward, Zenon
    <2>2. cursor \in Ids
      BY <1>4 DEF Update, TypeOK
    <2> QED BY <1>4, <2>1, <2>2 DEF Update, TypeOK, PutCounted, clientVars, uaVars, Ids
  <1>5. CASE Disable
    <2>1. \/ phase' = "idle" /\ cursor' = 0
          \/ phase' = "testing" /\ cursor' \in infos /\ cursor' # 0
      <3>1. Advance(cursor, raced) /\ cursor \in 0 .. MaxActivations /\ raced \in BOOLEAN
        BY <1>5 DEF Disable, TypeOK, Ids
      <3> QED BY <3>1, AdvanceForward, Zenon
    <2>2. cursor \in Ids
      BY <1>5 DEF Disable, TypeOK
    <2> QED BY <1>5, <2>1, <2>2 DEF Disable, TypeOK, PutCounted, clientVars, uaVars, Ids
  <1>6. CASE PutThrows
    BY <1>6 DEF PutThrows, TypeOK, PutCounted, nodeVars, clientVars, uaVars
  <1>7. CASE Connect \/ Disconnect
    BY <1>7 DEF Connect, Disconnect, TypeOK, PutCounted, nodeVars, putVars, uaVars
  <1>8. ASSUME NEW a \in Ids, ActivationStep(a) PROVE TypeOK' /\ PutCounted'
    <2>1. CASE Activate(a)
      <3>1. raced' \in BOOLEAN
        BY <2>1, Zenon DEF Activate, ActivateCallback, TypeOK
      <3>2. /\ infos' = infos \cup {a}
            /\ node' = [node EXCEPT ![a] = 0]
            /\ readable' = [readable EXCEPT ![a] = FALSE]
            /\ client' = [client EXCEPT ![a] = "called"]
            /\ UNCHANGED <<putVars, connected, uaVars>>
        BY <2>1, Zenon DEF Activate, ActivateCallback
      <3> QED BY <3>1, <3>2 DEF TypeOK, PutCounted, putVars, uaVars
    <2>2. CASE ActivateFails(a) \/ SubscribeFails(a) \/ Deactivate(a)
      BY <2>2 DEF ActivateFails, SubscribeFails, Deactivate, TypeOK, PutCounted, nodeVars, putVars, uaVars
    <2>3. CASE Subscribe(a)
      <3>1. <<Reading(a)>> \in Seq(Notification)
        BY <1>0
      <3> QED BY <1>0, <2>3, <3>1 DEF Subscribe, TypeOK, PutCounted, nodeVars, putVars
    <2>4. CASE ReleaseId(a)
      <3>1. << >> \in Seq(Notification)
        OBVIOUS
      <3> QED BY <2>4, <3>1 DEF ReleaseId, TypeOK, PutCounted, nodeVars, putVars
    <2> QED BY <1>8, <2>1, <2>2, <2>3, <2>4 DEF ActivationStep
  <1>9. ASSUME NEW a \in Ids, Sample(a) PROVE TypeOK' /\ PutCounted'
    <2>1. queue \in [Ids -> Seq(Notification)]
      BY DEF TypeOK
    <2>2. Enqueue(a, Reading(a)) \in Seq(Notification)
      BY <1>0, <2>1, EnqueueElements
    <2> QED BY <1>0, <1>9, <2>2 DEF Sample, TypeOK, PutCounted, nodeVars, putVars, clientVars
  <1>10. ASSUME NEW a \in Ids, ValueChanged(a) PROVE TypeOK' /\ PutCounted'
    <2>1. queue[a] \in Seq(Notification) /\ queue[a] # <<>>
      BY <1>10 DEF ValueChanged, TypeOK
    <2>2. Tail(queue[a]) \in Seq(Notification) /\ Head(queue[a]) \in Notification
      BY <2>1
    <2>3. Head(queue[a]).value \in -1 .. MaxPuts
      BY <2>2 DEF Notification
    <2> QED BY <1>10, <2>2, <2>3 DEF ValueChanged, TypeOK, PutCounted, nodeVars, putVars, clientVars
  <1>11. CASE UNCHANGED vars
    BY <1>11 DEF vars, TypeOK, PutCounted, nodeVars, putVars, clientVars, uaVars
  <1> QED BY <1>1, <1>2, <1>3, <1>4, <1>5, <1>6, <1>7, <1>8, <1>9, <1>10, <1>11
          DEF Next, PutStep

\* The types and the count of the puts are kept.
LEMMA TypeCounted == Spec => [](TypeOK /\ PutCounted)
  <1>1. Init => TypeOK /\ PutCounted
    <2> SUFFICES ASSUME Init PROVE TypeOK /\ PutCounted
      OBVIOUS
    <2>1. [value |-> 0, good |-> FALSE] \in Notification
      BY EventAssumption DEF EventAssumption, Notification
    <2>2. sampled = [a \in Ids |-> [value |-> 0, good |-> FALSE]]
      BY DEF Init, Reading
    <2>3. sampled \in [Ids -> Notification] /\ queue \in [Ids -> Seq(Notification)]
      <3>1. << >> \in Seq(Notification)
        OBVIOUS
      <3> QED BY <2>1, <2>2, <3>1 DEF Init
    <2>4. /\ readable \in [Ids -> BOOLEAN]
          /\ {disabled, raced, thrown, connected} \subseteq BOOLEAN
      BY Zenon DEF Init
    <2>5. /\ node \in [Ids -> 0 .. MaxPuts] /\ tested \in [Ids -> 0 .. MaxPuts]
          /\ fired \in [Ids -> SUBSET (1 .. MaxPuts)]
          /\ last \in [Ids -> -1 .. MaxPuts] /\ puts \in 0 .. MaxPuts
      BY EventAssumption DEF EventAssumption, Init
    <2>6. client \in [Ids -> {"none", "called", "active", "invalid"}]
      BY DEF Init
    <2> QED BY <2>3, <2>4, <2>5, <2>6, Zenon DEF Init, TypeOK, PutCounted
  <1>2. TypeOK /\ PutCounted /\ [Next]_vars => (TypeOK /\ PutCounted)'
    BY TypeStep, EventAssumption
  <1> QED BY <1>1, <1>2, PTL DEF Spec

\* Type correctness of the event pattern (TypeOK), for any number of activations and puts:
\* the iterator of put() is never past the end of m_EventInfos.
THEOREM TypeCorrect == Spec => []TypeOK
  BY TypeCounted, PTL

-----------------------------------------------------------------------------
(* The server.                                                             *)

\* The test of the present put() is recorded only for the activations it has come to.
FiredSoFar ==
  /\ \A a \in Ids : \A m \in fired[a] : m <= puts
  /\ phase \in {"testing", "disabling"} => \A b \in Ids : cursor <= b => puts \notin fired[b]
  /\ phase \in {"enabling", "updating"} =>
       puts \in fired[cursor] /\ \A b \in Ids : cursor < b => puts \notin fired[b]

\* Without a race everything before the iterator has been tested.
TestedSoFar ==
  phase # "idle" /\ ~ raced =>
    \A a \in atStart : a < cursor \/ (a = cursor /\ phase # "testing") => tested[a] = puts

\* The branches put() is in agree with m_disabled.
FlagFollows ==
  /\ phase = "enabling" => disabled
  /\ phase \in {"updating", "disabling"} => ~ disabled

\* For a lone activation the flag tells the truth.
LoneFlag == \A a \in Ids : infos = {a} => (readable[a] <=> ~ disabled)

\* A race leaves an activation that put() did not begin with.
RacedInserts == raced => infos # atStart

ServerInv ==
  /\ FiredSoFar
  /\ TestedSoFar /\ EveryActivationTested
  /\ FlagFollows /\ EnabledSomewhere /\ LoneFlag /\ RacedInserts
  /\ LoneActivationFollowsTest

\* What Advance does to the invariants that speak of the iterator; the activation at the
\* iterator has been tested and dealt with.
LEMMA AdvanceKeeps ==
  ASSUME EventAssumption, TypeOK, ServerInv, phase # "idle",
         Advance(cursor, raced), UNCHANGED <<infos, puts, fired, raced, atStart>>,
         NEW t \in [Ids -> 0 .. MaxPuts], tested' = t,
         ~ raced /\ cursor \in atStart => t[cursor] = puts,
         \A b \in Ids : b # cursor => t[b] = tested[b]
  PROVE  FiredSoFar' /\ TestedSoFar' /\ EveryActivationTested'
  <1> USE EventAssumption DEF EventAssumption
  <1>0. cursor \in infos /\ cursor \in Ids /\ cursor \in 0 .. MaxActivations /\ raced \in BOOLEAN
    BY DEF TypeOK, Ids
  <1>1. \/ phase' = "idle" /\ cursor' = 0
        \/ phase' = "testing" /\ cursor' \in infos /\ cursor < cursor' /\ cursor' # 0
    BY <1>0, AdvanceForward, Zenon
  <1>2. \A a \in atStart : a <= cursor /\ ~ raced => t[a] = puts
    <2>1. ~ raced => \A a \in atStart : a < cursor => tested[a] = puts
      BY Zenon DEF ServerInv, TestedSoFar
    <2>2. \A a \in atStart : a \in Ids /\ a \in Int /\ cursor \in Int
      BY <1>0 DEF TypeOK, Ids
    <2> QED BY <2>1, <2>2
  <1>3. FiredSoFar'
    <2>1. \A b \in Ids : cursor < b => puts \notin fired[b]
      <3>1. FiredSoFar
        BY Zenon DEF ServerInv
      <3>2. phase \in {"testing", "disabling", "enabling", "updating"}
        BY DEF TypeOK
      <3> QED BY <1>0, <3>1, <3>2 DEF FiredSoFar, Ids
    <2>2. \A a \in Ids : \A m \in fired[a] : m <= puts
      BY Zenon DEF ServerInv, FiredSoFar
    <2>3. \A b \in Ids : phase' = "testing" /\ cursor' <= b => cursor < b
      <3>1. infos \subseteq Int /\ Ids \subseteq Int /\ cursor \in Int
        BY <1>0 DEF TypeOK, Ids
      <3>2. phase' = "testing" => cursor' \in Int /\ cursor < cursor'
        BY <1>1, <3>1
      <3>3. ASSUME NEW b \in Ids, phase' = "testing", cursor' <= b PROVE cursor < b
        <4>1. b \in Int /\ cursor' \in Int /\ cursor < cursor'
          BY <3>1, <3>2, <3>3
        <4> QED BY <3>1, <3>3, <4>1
      <3> QED BY <3>3
    <2> QED BY <1>1, <2>1, <2>2, <2>3 DEF FiredSoFar
  <1>4. ASSUME ~ raced
        PROVE \/ phase' = "idle" /\ \A b \in infos : b <= cursor
              \/ phase' = "testing" /\ \A b \in infos : b < cursor' => b <= cursor
    <2>1. Advance(cursor, FALSE)
      BY <1>0, <1>4, Zenon DEF Advance
    <2> QED BY <1>0, <2>1, AdvanceNext, Zenon
  <1>5. TestedSoFar'
    BY <1>0, <1>1, <1>2, <1>4 DEF TestedSoFar, TypeOK
  <1>6. EveryActivationTested'
    BY <1>0, <1>1, <1>2, <1>4 DEF EveryActivationTested, TypeOK
  <1> QED BY <1>3, <1>5, <1>6

\* One step keeps the invariant of the server.
LEMMA ServerStep ==
  ASSUME EventAssumption, TypeOK, PutCounted, TypeOK', ServerInv, [Next]_vars
  PROVE  ServerInv'
  <1> USE EventAssumption DEF EventAssumption
  <1>a. /\ FiredSoFar /\ TestedSoFar /\ EveryActivationTested /\ FlagFollows
        /\ EnabledSomewhere /\ LoneFlag /\ RacedInserts /\ LoneActivationFollowsTest
    BY Zenon DEF ServerInv
  <1>b. /\ Ids \subseteq Int /\ infos \subseteq Ids /\ atStart \subseteq infos
        /\ cursor \in 0 .. MaxActivations /\ cursor \in Int /\ raced \in BOOLEAN
        /\ puts \in Int /\ \A b \in Ids : b > 0
    <2>1. Ids \subseteq Int /\ (\A b \in Ids : b > 0) /\ Ids \subseteq 0 .. MaxActivations
      BY DEF Ids
    <2>2. infos \subseteq Ids /\ atStart \subseteq infos /\ raced \in BOOLEAN
      BY Zenon DEF TypeOK
    <2>3. cursor \in {0} \cup infos /\ puts \in 0 .. MaxPuts
      BY Zenon DEF TypeOK
    <2>4. cursor \in 0 .. MaxActivations
      BY <2>1, <2>2, <2>3
    <2> QED BY <2>1, <2>2, <2>3, <2>4
  <1>c. phase # "idle" => cursor \in infos
    BY DEF TypeOK
  <1>1. CASE Put
    <2>1. Advance(0, FALSE) /\ phase = "idle"
      BY <1>1, Zenon DEF Put
    <2>2. /\ puts' = puts + 1 /\ atStart' = infos /\ raced' = FALSE
          /\ UNCHANGED <<infos, node, readable, disabled, fired, tested>>
      BY <1>1, Zenon DEF Put, nodeVars
    <2>3. \/ phase' = "idle" /\ \A b \in infos : b <= 0
          \/ phase' = "testing" /\ \A b \in infos : b < cursor' => b <= 0
      <3>1. 0 \in 0 .. MaxActivations
        OBVIOUS
      <3> QED BY <2>1, <3>1, AdvanceNext, Zenon
    <2>4. \/ phase' = "idle" /\ infos = {}
          \/ phase' = "testing" /\ \A b \in infos : ~ (b < cursor')
      BY <1>b, <2>3
    <2>5. FiredSoFar'
      <3>1. \A b \in Ids : \A m \in fired[b] : m <= puts /\ m \in Int
        BY <1>a DEF FiredSoFar, TypeOK
      <3> QED BY <1>b, <2>2, <2>4, <3>1 DEF FiredSoFar
    <2>6. TestedSoFar' /\ EveryActivationTested'
      BY <2>2, <2>4 DEF TestedSoFar, EveryActivationTested
    <2>7. FlagFollows' /\ RacedInserts'
      BY <2>2, <2>4 DEF FlagFollows, RacedInserts
    <2>8. EnabledSomewhere' /\ LoneFlag'
      BY <1>a, <2>2, Zenon DEF EnabledSomewhere, LoneFlag
    <2>9. LoneActivationFollowsTest'
      BY <2>2, <2>4 DEF LoneActivationFollowsTest
    <2> QED BY <2>5, <2>6, <2>7, <2>8, <2>9 DEF ServerInv
  <1>2. CASE TestEvent
    <2>1. /\ phase = "testing" /\ cursor \in infos /\ cursor \in Ids
          /\ tested' = [tested EXCEPT ![cursor] = puts]
          /\ UNCHANGED <<infos, node, readable, disabled, puts, atStart, raced>>
      BY <1>2, <1>b, <1>c DEF TestEvent, nodeVars
    <2>2. tested' \in [Ids -> 0 .. MaxPuts] /\ tested'[cursor] = puts
          /\ \A b \in Ids : b # cursor => tested'[b] = tested[b]
      BY <2>1 DEF TypeOK
    <2>3. EnabledSomewhere' /\ LoneFlag' /\ RacedInserts'
      BY <1>a, <2>1, Zenon DEF EnabledSomewhere, LoneFlag, RacedInserts
    <2>4. phase' # "idle" /\ phase' # "testing" /\ cursor' = cursor => TestedSoFar'
      BY <1>a, <1>b, <2>1, <2>2 DEF TestedSoFar
    <2>5. CASE TestSucceeds
      <3>1. /\ fired' = [fired EXCEPT ![cursor] = @ \cup {puts}] /\ cursor' = cursor
            /\ phase' \in {"enabling", "updating"}
            /\ phase' = "enabling" <=> disabled
        BY <2>5 DEF TestSucceeds
      <3>2. FiredSoFar'
        <4>1. fired'[cursor] = fired[cursor] \cup {puts}
              /\ \A b \in Ids : b # cursor => fired'[b] = fired[b]
          BY <2>1, <3>1 DEF TypeOK
        <4>2. \A b \in Ids : \A m \in fired'[b] : m <= puts
          BY <1>a, <1>b, <2>1, <4>1 DEF FiredSoFar
        <4>3. \A b \in Ids : cursor < b => puts \notin fired'[b]
          <5>1. \A b \in Ids : cursor <= b => puts \notin fired[b]
            BY <1>a, <2>1 DEF FiredSoFar
          <5> QED BY <1>b, <4>1, <5>1
        <4> QED BY <2>1, <3>1, <4>1, <4>2, <4>3 DEF FiredSoFar
      <3>3. FlagFollows'
        BY <2>1, <3>1 DEF FlagFollows
      <3> QED BY <2>3, <2>4, <3>1, <3>2, <3>3
              DEF ServerInv, EveryActivationTested, LoneActivationFollowsTest
    <2>6. CASE ~ disabled /\ phase' = "disabling" /\ cursor' = cursor /\ fired' = fired
      <3>1. FiredSoFar'
        BY <1>a, <1>b, <2>1, <2>6 DEF FiredSoFar
      <3>2. FlagFollows'
        BY <2>1, <2>6 DEF FlagFollows
      <3> QED BY <2>3, <2>4, <2>6, <3>1, <3>2
              DEF ServerInv, EveryActivationTested, LoneActivationFollowsTest
    <2>7. CASE disabled /\ Advance(cursor, raced) /\ fired' = fired
      <3>1. FiredSoFar' /\ TestedSoFar' /\ EveryActivationTested'
        BY <2>1, <2>2, <2>7, AdvanceKeeps
      <3>2. phase' \in {"idle", "testing"}
        BY <2>7 DEF Advance
      <3>3. FlagFollows'
        BY <3>2 DEF FlagFollows
      <3>4. LoneActivationFollowsTest'
        <4> SUFFICES ASSUME NEW a \in Ids, infos = {a} PROVE ~ readable[a] /\ puts \notin fired[a]
          BY <2>1, <2>7 DEF LoneActivationFollowsTest
        <4>1. cursor = a
          BY <2>1
        <4>2. puts \notin fired[a]
          BY <1>a, <1>b, <2>1, <4>1 DEF FiredSoFar
        <4> QED BY <1>a, <2>7, <4>2 DEF LoneFlag
      <3> QED BY <2>3, <3>1, <3>3, <3>4 DEF ServerInv
    <2> QED BY <1>2, <2>5, <2>6, <2>7 DEF TestEvent, TestFails
  <1>3. CASE Enable
    <2>1. /\ phase = "enabling" /\ cursor \in infos /\ cursor \in Ids /\ phase' = "updating"
          /\ readable' = [readable EXCEPT ![cursor] = TRUE] /\ ~ disabled'
          /\ UNCHANGED <<infos, cursor, puts, fired, tested, atStart, raced>>
      BY <1>3, <1>b, <1>c DEF Enable
    <2>2. readable'[cursor] = TRUE /\ readable' \in [Ids -> BOOLEAN]
      BY <2>1 DEF TypeOK
    <2>3. FiredSoFar'
      BY <1>a, <2>1 DEF FiredSoFar
    <2>4. TestedSoFar' /\ EveryActivationTested'
      BY <1>a, <2>1 DEF TestedSoFar, EveryActivationTested
    <2>5. FlagFollows' /\ EnabledSomewhere' /\ RacedInserts'
      BY <1>a, <2>1, <2>2 DEF FlagFollows, EnabledSomewhere, RacedInserts
    <2>6. LoneFlag'
      BY <2>1, <2>2 DEF LoneFlag
    <2>7. LoneActivationFollowsTest'
      BY <2>1 DEF LoneActivationFollowsTest
    <2> QED BY <2>3, <2>4, <2>5, <2>6, <2>7 DEF ServerInv
  <1>4. CASE Update
    <2>1. /\ phase = "updating" /\ cursor \in infos /\ cursor \in Ids
          /\ node' = [node EXCEPT ![cursor] = puts]
          /\ UNCHANGED <<infos, readable, disabled, puts, fired, tested, atStart, raced>>
      BY <1>4, <1>b, <1>c DEF Update
    <2>2. Advance(cursor, raced) /\ phase' \in {"idle", "testing"}
      BY <1>4 DEF Update, Advance
    <2>3. FiredSoFar' /\ TestedSoFar' /\ EveryActivationTested'
      <3>1. ~ raced /\ cursor \in atStart => tested[cursor] = puts
        BY <1>a, <2>1 DEF TestedSoFar
      <3>2. tested \in [Ids -> 0 .. MaxPuts]
        BY DEF TypeOK
      <3> QED BY <2>1, <2>2, <3>1, <3>2, AdvanceKeeps
    <2>4. EnabledSomewhere' /\ LoneFlag' /\ RacedInserts'
      BY <1>a, <2>1, Zenon DEF EnabledSomewhere, LoneFlag, RacedInserts
    <2>5. FlagFollows'
      BY <2>2 DEF FlagFollows
    <2>6. LoneActivationFollowsTest'
      <3>1. ASSUME NEW a \in Ids, infos = {a} PROVE puts \in fired[a] /\ readable'[a] /\ node'[a] = puts
        <4>1. cursor = a
          BY <2>1, <3>1
        <4>2. puts \in fired[a] /\ node'[a] = puts
          BY <1>a, <2>1, <4>1 DEF FiredSoFar, TypeOK
        <4>3. readable[a]
          BY <1>a, <2>1, <3>1 DEF LoneFlag, FlagFollows
        <4> QED BY <2>1, <4>2, <4>3
      <3> QED BY <2>1, <3>1 DEF LoneActivationFollowsTest
    <2> QED BY <2>3, <2>4, <2>5, <2>6 DEF ServerInv
  <1>5. CASE Disable
    <2>1. /\ phase = "disabling" /\ cursor \in infos /\ cursor \in Ids
          /\ readable' = [readable EXCEPT ![cursor] = FALSE] /\ disabled'
          /\ UNCHANGED <<infos, puts, fired, tested, atStart, raced>>
      BY <1>5, <1>b, <1>c DEF Disable
    <2>2. Advance(cursor, raced) /\ phase' \in {"idle", "testing"}
      BY <1>5 DEF Disable, Advance
    <2>3. FiredSoFar' /\ TestedSoFar' /\ EveryActivationTested'
      <3>1. ~ raced /\ cursor \in atStart => tested[cursor] = puts
        BY <1>a, <2>1 DEF TestedSoFar
      <3>2. tested \in [Ids -> 0 .. MaxPuts]
        BY DEF TypeOK
      <3> QED BY <2>1, <2>2, <3>1, <3>2, AdvanceKeeps
    <2>4. EnabledSomewhere' /\ RacedInserts'
      BY <1>a, <2>1, Zenon DEF EnabledSomewhere, RacedInserts
    <2>7. LoneFlag'
      <3>1. ASSUME NEW a \in Ids, infos = {a} PROVE ~ readable'[a]
        BY <2>1, <3>1 DEF TypeOK
      <3> QED BY <2>1, <3>1 DEF LoneFlag
    <2>5. FlagFollows'
      BY <2>2 DEF FlagFollows
    <2>6. LoneActivationFollowsTest'
      <3>1. ASSUME NEW a \in Ids, infos = {a} PROVE puts \notin fired[a] /\ ~ readable'[a]
        <4>1. cursor = a
          BY <2>1, <3>1
        <4>2. puts \notin fired[a]
          BY <1>a, <1>b, <2>1, <4>1 DEF FiredSoFar
        <4>3. ~ readable'[a]
          BY <2>1, <4>1 DEF TypeOK
        <4> QED BY <2>1, <4>2, <4>3
      <3> QED BY <2>1, <3>1 DEF LoneActivationFollowsTest
    <2> QED BY <2>3, <2>4, <2>5, <2>6, <2>7 DEF ServerInv
  <1>6. CASE PutThrows
    <2>1. /\ phase' = "idle" /\ thrown'
          /\ UNCHANGED <<infos, node, readable, disabled, puts, fired, tested, atStart, raced>>
      BY <1>6 DEF PutThrows, nodeVars
    <2>2. FiredSoFar' /\ TestedSoFar' /\ FlagFollows'
      BY <1>a, <2>1 DEF FiredSoFar, TestedSoFar, FlagFollows
    <2>3. EveryActivationTested' /\ LoneActivationFollowsTest'
      BY <2>1 DEF EveryActivationTested, LoneActivationFollowsTest
    <2>4. EnabledSomewhere' /\ LoneFlag' /\ RacedInserts'
      BY <1>a, <2>1, Zenon DEF EnabledSomewhere, LoneFlag, RacedInserts
    <2> QED BY <2>2, <2>3, <2>4 DEF ServerInv
  <1>7. ASSUME NEW a \in Ids, Activate(a) PROVE ServerInv'
    <2>1. /\ a \notin infos /\ infos' = infos \cup {a}
          /\ readable' = [readable EXCEPT ![a] = FALSE]
          /\ node' = [node EXCEPT ![a] = 0]
          /\ UNCHANGED putVars
      BY <1>7, Zenon DEF Activate, ActivateCallback
    <2>2. raced' <=> raced \/ phase # "idle"
      BY <1>7, Zenon DEF Activate, ActivateCallback
    <2>3. FiredSoFar' /\ FlagFollows'
      BY <1>a, <2>1 DEF FiredSoFar, FlagFollows, putVars
    <2>4. TestedSoFar' /\ EveryActivationTested'
      BY <1>a, <2>1, <2>2 DEF TestedSoFar, EveryActivationTested, putVars
    <2>5. RacedInserts' /\ infos' # atStart
      BY <1>b, <2>1 DEF RacedInserts, putVars
    <2>6. ~ readable'[a] /\ \A b \in Ids : b # a => readable'[b] = readable[b]
      BY <2>1 DEF TypeOK
    <2>7. EnabledSomewhere'
      BY <1>a, <1>b, <2>1, <2>6 DEF EnabledSomewhere, putVars
    <2>8. ASSUME NEW b \in Ids, infos' = {b} PROVE b = a /\ infos = {}
      BY <2>1, <2>8
    <2>9. LoneFlag'
      <3>1. infos = {} => disabled
        BY <1>a DEF EnabledSomewhere
      <3> QED BY <2>1, <2>6, <2>8, <3>1 DEF LoneFlag, putVars
    <2>10. LoneActivationFollowsTest'
      BY <1>b, <2>1, <2>8 DEF LoneActivationFollowsTest, putVars
    <2> QED BY <2>3, <2>4, <2>5, <2>7, <2>9, <2>10 DEF ServerInv
  <1>8. CASE UNCHANGED <<infos, nodeVars, putVars, raced>>
    BY <1>8, Zenon DEF nodeVars, putVars, ServerInv, FiredSoFar, TestedSoFar, EveryActivationTested,
                       FlagFollows, EnabledSomewhere, LoneFlag, RacedInserts,
                       LoneActivationFollowsTest
  <1>9. Connect \/ Disconnect \/ UNCHANGED vars => UNCHANGED <<infos, nodeVars, putVars, raced>>
    BY DEF Connect, Disconnect, vars
  <1>10. ASSUME NEW a \in Ids, ActivationStep(a) \/ Sample(a) \/ ValueChanged(a), ~ Activate(a)
         PROVE UNCHANGED <<infos, nodeVars, putVars, raced>>
    BY <1>10 DEF ActivationStep, ActivateFails, Subscribe, SubscribeFails, Deactivate, ReleaseId,
                 Sample, ValueChanged
  <1> QED BY <1>1, <1>2, <1>3, <1>4, <1>5, <1>6, <1>7, <1>8, <1>9, <1>10 DEF Next, PutStep

\* The invariant of the server always holds.
LEMMA ServerAlways == Spec => []ServerInv
  <1>1. Init => ServerInv
    <2>1. Init => FiredSoFar /\ TestedSoFar /\ FlagFollows
      BY DEF Init, FiredSoFar, TestedSoFar, FlagFollows
    <2>2. Init => EveryActivationTested /\ EnabledSomewhere
      BY Zenon DEF Init, EveryActivationTested, EnabledSomewhere
    <2>3. Init => LoneFlag /\ RacedInserts /\ LoneActivationFollowsTest
      BY DEF Init, LoneFlag, RacedInserts, LoneActivationFollowsTest
    <2> QED BY <2>1, <2>2, <2>3 DEF ServerInv
  <1>2. TypeOK /\ PutCounted /\ TypeOK' /\ ServerInv /\ [Next]_vars => ServerInv'
    BY ServerStep, EventAssumption
  <1>3. Spec => [](TypeOK /\ PutCounted)
    BY TypeCounted
  <1> QED BY <1>1, <1>2, <1>3, PTL DEF Spec

\* EveryActivationTested for any number of activations: neither the shared flag nor a false
\* test makes put() leave out an activation.
THEOREM EveryActivationIsTested == Spec => []EveryActivationTested
  <1>1. ServerInv => EveryActivationTested
    BY Zenon DEF ServerInv
  <1> QED BY <1>1, ServerAlways, PTL

\* EnabledSomewhere for any number of activations: m_disabled is never cleared for nothing,
\* whatever put() was doing when it was interrupted.
THEOREM EnabledSomewhereAlways == Spec => []EnabledSomewhere
  <1>1. ServerInv => EnabledSomewhere
    BY Zenon DEF ServerInv
  <1> QED BY <1>1, ServerAlways, PTL

\* LoneActivationFollowsTest for any number of puts: with one activation the shared flag is
\* harmless, in spite of earlier exceptions.
THEOREM LoneActivationFollows == Spec => []LoneActivationFollowsTest
  <1>1. ServerInv => LoneActivationFollowsTest
    BY Zenon DEF ServerInv
  <1> QED BY <1>1, ServerAlways, PTL

-----------------------------------------------------------------------------
(* The notifications.                                                      *)

\* n is a value that a client of a may be given.
Genuine(a, n) == n.value \in fired[a] \cup {0} /\ (n.good => fired[a] # {})

\* The result variables hold what fired.
NodesGenuine ==
  \A a \in Ids :
    /\ node[a] \in fired[a] \cup {0}
    /\ readable[a] => fired[a] # {}
    /\ a \notin infos => node[a] = 0 /\ ~ readable[a]

\* So do the samples, which are not newer than the variable nor older than what was given.
SamplesGenuine ==
  \A a \in Ids :
    /\ Genuine(a, sampled[a])
    /\ last[a] <= sampled[a].value
    /\ sampled[a].value <= node[a]

\* So do the notifications on the way.
QueuesGenuine ==
  \A a \in Ids : \A i \in 1 .. Len(queue[a]) :
    /\ Genuine(a, queue[a][i])
    /\ last[a] <= queue[a][i].value
    /\ queue[a][i].value <= sampled[a].value

\* They are in the order of the puts.
QueuesAscend ==
  \A a \in Ids : \A i, j \in 1 .. Len(queue[a]) :
    i <= j => queue[a][i].value <= queue[a][j].value

ClientInv == NodesGenuine /\ SamplesGenuine /\ QueuesGenuine /\ QueuesAscend

\* One step keeps what the result variables hold, and they only get newer.
LEMMA NodesStep ==
  ASSUME EventAssumption, TypeOK, ServerInv, NodesGenuine, [Next]_vars
  PROVE  NodesGenuine' /\ \A a \in Ids : fired[a] \subseteq fired'[a] /\ node[a] <= node'[a]
  <1> USE EventAssumption DEF EventAssumption
  <1>a. phase # "idle" => cursor \in infos /\ cursor \in Ids
    BY DEF TypeOK
  <1>b. /\ node \in [Ids -> 0 .. MaxPuts] /\ readable \in [Ids -> BOOLEAN]
        /\ fired \in [Ids -> SUBSET (1 .. MaxPuts)] /\ puts \in 0 .. MaxPuts
    BY Zenon DEF TypeOK
  <1>c. FiredSoFar
    BY Zenon DEF ServerInv
  <1>1. CASE UNCHANGED <<infos, node, readable, fired>>
    BY <1>b, <1>1 DEF NodesGenuine
  <1>2. CASE UNCHANGED <<infos, node, readable>> /\ \A b \in Ids : fired[b] \subseteq fired'[b]
    BY <1>b, <1>2 DEF NodesGenuine
  <1>3. ASSUME TestEvent PROVE \A b \in Ids : fired[b] \subseteq fired'[b]
    <2>1. phase = "testing" /\ (fired' = fired \/ fired' = [fired EXCEPT ![cursor] = @ \cup {puts}])
      BY <1>3, Zenon DEF TestEvent, TestSucceeds
    <2> QED BY <1>a, <1>b, <2>1
  <1>4. Put \/ TestEvent \/ PutThrows \/ Connect \/ Disconnect \/ UNCHANGED vars
          => UNCHANGED <<infos, node, readable>>
    BY Zenon DEF Put, TestEvent, PutThrows, Connect, Disconnect, vars, nodeVars
  <1>5. Put \/ PutThrows \/ Connect \/ Disconnect \/ UNCHANGED vars => UNCHANGED fired
    BY Zenon DEF Put, PutThrows, Connect, Disconnect, vars, putVars
  <1>6. CASE Enable
    <2>1. /\ cursor \in infos /\ cursor \in Ids /\ puts \in fired[cursor]
          /\ readable' = [readable EXCEPT ![cursor] = TRUE]
          /\ UNCHANGED <<infos, node, fired>>
      BY <1>6, <1>a, <1>c DEF Enable, FiredSoFar
    <2> QED BY <1>b, <2>1 DEF NodesGenuine
  <1>7. CASE Update
    <2>1. /\ cursor \in infos /\ cursor \in Ids /\ puts \in fired[cursor]
          /\ node' = [node EXCEPT ![cursor] = puts]
          /\ UNCHANGED <<infos, readable, fired>>
      BY <1>7, <1>a, <1>c DEF Update, FiredSoFar
    <2>2. node[cursor] <= puts
      BY <1>b, <1>c, <2>1 DEF NodesGenuine, FiredSoFar
    <2> QED BY <1>b, <2>1, <2>2 DEF NodesGenuine
  <1>8. CASE Disable
    <2>1. /\ cursor \in infos /\ cursor \in Ids
          /\ readable' = [readable EXCEPT ![cursor] = FALSE]
          /\ UNCHANGED <<infos, node, fired>>
      BY <1>8, <1>a DEF Disable
    <2> QED BY <1>b, <2>1 DEF NodesGenuine
  <1>9. ASSUME NEW a \in Ids, Activate(a)
        PROVE NodesGenuine' /\ \A b \in Ids : fired[b] \subseteq fired'[b] /\ node[b] <= node'[b]
    <2>1. /\ a \notin infos /\ infos' = infos \cup {a}
          /\ readable' = [readable EXCEPT ![a] = FALSE]
          /\ node' = [node EXCEPT ![a] = 0]
          /\ fired' = fired
      BY <1>9, Zenon DEF Activate, ActivateCallback, putVars
    <2>2. node[a] = 0
      BY <2>1 DEF NodesGenuine
    <2> QED BY <1>b, <2>1, <2>2 DEF NodesGenuine
  <1>10. ASSUME NEW a \in Ids, ActivationStep(a) \/ Sample(a) \/ ValueChanged(a), ~ Activate(a)
         PROVE UNCHANGED <<infos, node, readable, fired>>
    BY <1>10, Zenon DEF ActivationStep, ActivateFails, Subscribe, SubscribeFails, Deactivate, ReleaseId,
                 Sample, ValueChanged, nodeVars, putVars
  <1> QED BY <1>1, <1>2, <1>3, <1>4, <1>5, <1>6, <1>7, <1>8, <1>9, <1>10, Zenon DEF Next, PutStep

\* A step that leaves the notifications alone.
LEMMA NotificationsUntouched ==
  ASSUME EventAssumption, TypeOK, TypeOK', SamplesGenuine, QueuesGenuine, QueuesAscend,
         UNCHANGED uaVars,
         \A a \in Ids : fired[a] \subseteq fired'[a] /\ node[a] <= node'[a]
  PROVE  SamplesGenuine' /\ QueuesGenuine' /\ QueuesAscend'
  <1>1. UNCHANGED <<sampled, queue, last>>
    BY DEF uaVars
  <1>3. \A a \in Ids : sampled[a].value \in Int /\ node[a] \in Int /\ node'[a] \in Int
    BY EventAssumption DEF EventAssumption, TypeOK, Notification
  <1>4. SamplesGenuine'
    <2> SUFFICES ASSUME NEW a \in Ids
                 PROVE  Genuine(a, sampled[a])' /\ last[a] <= sampled[a].value
                        /\ sampled[a].value <= node'[a]
      BY <1>1 DEF SamplesGenuine
    <2>1. Genuine(a, sampled[a])'
      BY <1>1 DEF SamplesGenuine, Genuine
    <2>2. sampled[a].value <= node[a] /\ node[a] <= node'[a] /\ last[a] <= sampled[a].value
      BY DEF SamplesGenuine
    <2> QED BY <1>3, <2>1, <2>2
  <1>5. QueuesGenuine'
    <2> SUFFICES ASSUME NEW a \in Ids, NEW i \in 1 .. Len(queue[a])
                 PROVE  Genuine(a, queue[a][i])' /\ last[a] <= queue[a][i].value
                        /\ queue[a][i].value <= sampled[a].value
      BY <1>1 DEF QueuesGenuine
    <2>1. Genuine(a, queue[a][i])'
      BY <1>1 DEF QueuesGenuine, Genuine
    <2> QED BY <2>1, Zenon DEF QueuesGenuine
  <1>6. QueuesAscend'
    BY <1>1, Zenon DEF QueuesAscend
  <1> QED BY <1>4, <1>5, <1>6

\* A step that changes the notifications of a alone.
LEMMA NotificationsOf ==
  ASSUME EventAssumption, TypeOK, SamplesGenuine, QueuesGenuine, QueuesAscend,
         UNCHANGED <<node, fired>>, NEW a \in Ids,
         NEW s \in Notification, NEW q \in Seq(Notification), NEW l \in -1 .. MaxPuts,
         sampled' = [sampled EXCEPT ![a] = s],
         queue' = [queue EXCEPT ![a] = q],
         last' = [last EXCEPT ![a] = l],
         Genuine(a, s), l <= s.value, s.value <= node[a],
         \A i \in 1 .. Len(q) : Genuine(a, q[i]) /\ l <= q[i].value /\ q[i].value <= s.value,
         \A i, j \in 1 .. Len(q) : i <= j => q[i].value <= q[j].value
  PROVE  SamplesGenuine' /\ QueuesGenuine' /\ QueuesAscend'
  <1>1. /\ sampled'[a] = s /\ queue'[a] = q /\ last'[a] = l
        /\ \A b \in Ids : b # a =>
             sampled'[b] = sampled[b] /\ queue'[b] = queue[b] /\ last'[b] = last[b]
    BY DEF TypeOK
  <1>2. ASSUME NEW b \in Ids
        PROVE  /\ Genuine(b, sampled[b])'
               /\ last'[b] <= sampled'[b].value
               /\ sampled'[b].value <= node'[b]
    <2>1. CASE b = a
      BY <1>1, <2>1 DEF Genuine
    <2>2. CASE b # a
      BY <1>1, <2>2 DEF Genuine, SamplesGenuine
    <2> QED BY <2>1, <2>2
  <1>3. ASSUME NEW b \in Ids, NEW i \in 1 .. Len(queue'[b])
        PROVE  /\ Genuine(b, queue[b][i])'
               /\ last'[b] <= queue'[b][i].value
               /\ queue'[b][i].value <= sampled'[b].value
    <2>1. CASE b = a
      BY <1>1, <2>1 DEF Genuine
    <2>2. CASE b # a
      BY <1>1, <2>2 DEF Genuine, QueuesGenuine
    <2> QED BY <2>1, <2>2
  <1>4. ASSUME NEW b \in Ids, NEW i \in 1 .. Len(queue'[b]), NEW j \in 1 .. Len(queue'[b]), i <= j
        PROVE  queue'[b][i].value <= queue'[b][j].value
    <2>1. CASE b = a
      BY <1>1, <1>4, <2>1
    <2>2. CASE b # a
      BY <1>1, <1>4, <2>2 DEF QueuesAscend
    <2> QED BY <2>1, <2>2
  <1>5. SamplesGenuine'
    BY <1>2 DEF SamplesGenuine
  <1>6. QueuesGenuine'
    BY <1>3 DEF QueuesGenuine
  <1>7. QueuesAscend'
    BY <1>4 DEF QueuesAscend
  <1> QED BY <1>5, <1>6, <1>7

\* One step keeps the invariant of the client.
LEMMA ClientStep ==
  ASSUME EventAssumption, TypeOK, TypeOK', ServerInv, ClientInv, [Next]_vars
  PROVE  ClientInv'
  <1> USE EventAssumption DEF EventAssumption
  <1>a. NodesGenuine /\ SamplesGenuine /\ QueuesGenuine /\ QueuesAscend
    BY Zenon DEF ClientInv
  <1>b. NodesGenuine' /\ \A a \in Ids : fired[a] \subseteq fired'[a] /\ node[a] <= node'[a]
    BY <1>a, NodesStep, Zenon
  <1>c. /\ sampled \in [Ids -> Notification] /\ queue \in [Ids -> Seq(Notification)]
        /\ last \in [Ids -> -1 .. MaxPuts] /\ node \in [Ids -> 0 .. MaxPuts]
        /\ readable \in [Ids -> BOOLEAN]
    BY Zenon DEF TypeOK
  <1>d. ASSUME NEW a \in Ids
        PROVE  Reading(a) \in Notification /\ Genuine(a, Reading(a)) /\ Reading(a).value = node[a]
    BY <1>a, <1>c DEF Reading, Genuine, Notification, NodesGenuine
  <1>e. ASSUME NEW a \in Ids
        PROVE  /\ Genuine(a, sampled[a]) /\ last[a] <= sampled[a].value
               /\ sampled[a].value <= node[a] /\ last[a] <= node[a]
    <2>1. Genuine(a, sampled[a]) /\ last[a] <= sampled[a].value /\ sampled[a].value <= node[a]
      BY <1>a DEF SamplesGenuine
    <2>2. last[a] \in Int /\ sampled[a].value \in Int /\ node[a] \in Int
      BY <1>c DEF Notification
    <2> QED BY <2>1, <2>2
  <1>1. CASE UNCHANGED uaVars
    BY <1>1, <1>a, <1>b, NotificationsUntouched DEF ClientInv
  <1>2. ASSUME NEW a \in Ids, Subscribe(a) PROVE ClientInv'
    <2>1. /\ UNCHANGED <<node, fired>> /\ last' = last
          /\ sampled' = [sampled EXCEPT ![a] = Reading(a)]
          /\ queue' = [queue EXCEPT ![a] = <<Reading(a)>>]
      BY <1>2, Zenon DEF Subscribe, nodeVars, putVars
    <2>2. last' = [last EXCEPT ![a] = last[a]] /\ last[a] \in -1 .. MaxPuts
      BY <1>c, <2>1
    <2> DEFINE q == <<Reading(a)>>
    <2>3. q \in Seq(Notification) /\ Len(q) = 1 /\ q[1] = Reading(a)
      BY <1>d
    <2> HIDE DEF q
    <2>4. \A i \in 1 .. Len(q) : q[i] = Reading(a)
      BY <2>3
    <2>5. node[a] <= node[a]
      BY <1>c
    <2>6. queue' = [queue EXCEPT ![a] = q]
      BY <2>1 DEF q
    <2>7. \A i \in 1 .. Len(q) :
            Genuine(a, q[i]) /\ last[a] <= q[i].value /\ q[i].value <= Reading(a).value
      BY <1>d, <1>e, <2>4, <2>5
    <2>8. \A i, j \in 1 .. Len(q) : i <= j => q[i].value <= q[j].value
      BY <1>d, <2>4, <2>5
    <2>9. Reading(a).value <= node[a] /\ last[a] <= Reading(a).value /\ Genuine(a, Reading(a))
      BY <1>d, <1>e, <2>5
    <2>10. SamplesGenuine' /\ QueuesGenuine' /\ QueuesAscend'
      <3>1. Reading(a) \in Notification
        BY <1>d
      <3>2. UNCHANGED <<node, fired>> /\ sampled' = [sampled EXCEPT ![a] = Reading(a)]
        BY <2>1
      <3> QED BY <1>a, <2>2, <2>3, <2>6, <2>7, <2>8, <2>9, <3>1, <3>2, NotificationsOf
    <2> QED BY <1>b, <2>10 DEF ClientInv
  <1>3. ASSUME NEW a \in Ids, ReleaseId(a) PROVE ClientInv'
    <2>1. /\ UNCHANGED <<node, fired>> /\ last' = last /\ sampled' = sampled
          /\ queue' = [queue EXCEPT ![a] = << >>]
      BY <1>3, Zenon DEF ReleaseId, nodeVars, putVars
    <2>2. /\ last' = [last EXCEPT ![a] = last[a]] /\ last[a] \in -1 .. MaxPuts
          /\ sampled' = [sampled EXCEPT ![a] = sampled[a]] /\ sampled[a] \in Notification
          /\ << >> \in Seq(Notification) /\ 1 .. Len(<< >>) = {}
      BY <1>c, <2>1
    <2>3. SamplesGenuine' /\ QueuesGenuine' /\ QueuesAscend'
      BY <1>a, <1>e, <2>1, <2>2, NotificationsOf
    <2> QED BY <1>b, <2>3 DEF ClientInv
  <1>4. ASSUME NEW a \in Ids, Sample(a) PROVE ClientInv'
    <2> DEFINE q == Enqueue(a, Reading(a))
    <2>1. /\ UNCHANGED <<node, fired>> /\ last' = last
          /\ sampled' = [sampled EXCEPT ![a] = Reading(a)]
          /\ queue' = [queue EXCEPT ![a] = q]
      BY <1>4, Zenon DEF Sample, nodeVars, putVars
    <2>2. last' = [last EXCEPT ![a] = last[a]] /\ last[a] \in -1 .. MaxPuts
      BY <1>c, <2>1
    <2>3. /\ q \in Seq(Notification) /\ Len(q) > 0 /\ q[Len(q)] = Reading(a)
          /\ \E k \in {0, 1} : \A i \in 1 .. Len(q) - 1 :
               i + k \in 1 .. Len(queue[a]) /\ q[i] = queue[a][i + k]
      BY <1>c, <1>d, EnqueueElements
    <2> HIDE DEF q
    <2>4. PICK k \in {0, 1} : \A i \in 1 .. Len(q) - 1 :
               i + k \in 1 .. Len(queue[a]) /\ q[i] = queue[a][i + k]
      BY <2>3
    <2>5. Len(q) \in Nat /\ \A i \in 1 .. Len(q) : i = Len(q) \/ i \in 1 .. Len(q) - 1
      BY <2>3
    <2>6. \A i \in 1 .. Len(q) : q[i].value \in Int
      <3>1. \A i \in 1 .. Len(q) : q[i] \in Notification
        BY <2>3
      <3>2. \A n \in Notification : n.value \in Int
        BY DEF Notification
      <3> QED BY <3>1, <3>2
    <2>7. \A i \in 1 .. Len(q) :
            Genuine(a, q[i]) /\ last[a] <= q[i].value /\ q[i].value <= node[a]
      <3> TAKE i \in 1 .. Len(q)
      <3>1. CASE i = Len(q)
        BY <1>c, <1>d, <1>e, <2>3, <3>1
      <3>2. CASE i \in 1 .. Len(q) - 1
        <4>1. /\ Genuine(a, q[i]) /\ last[a] <= q[i].value
              /\ q[i].value <= sampled[a].value /\ sampled[a].value <= node[a]
          BY <1>a, <1>e, <2>4, <3>2 DEF QueuesGenuine
        <4>2. sampled[a].value \in Int /\ node[a] \in Int
          BY <1>c DEF Notification
        <4> QED BY <2>6, <4>1, <4>2
      <3> QED BY <2>5, <3>1, <3>2
    <2>8. \A i, j \in 1 .. Len(q) : i <= j => q[i].value <= q[j].value
      <3> TAKE i, j \in 1 .. Len(q)
      <3> HAVE i <= j
      <3>1. CASE j = Len(q)
        BY <1>d, <2>3, <2>7, <3>1
      <3>2. CASE j \in 1 .. Len(q) - 1
        <4>1. i \in 1 .. Len(q) - 1 /\ i + k <= j + k
          BY <2>5, <3>2
        <4>2. /\ q[i] = queue[a][i + k] /\ q[j] = queue[a][j + k]
              /\ i + k \in 1 .. Len(queue[a]) /\ j + k \in 1 .. Len(queue[a])
          BY <2>4, <3>2, <4>1
        <4> QED BY <1>a, <4>1, <4>2 DEF QueuesAscend
      <3> QED BY <2>5, <3>1, <3>2
    <2>9. node[a] <= node[a]
      BY <1>c
    <2>10. Reading(a).value <= node[a] /\ last[a] <= Reading(a).value /\ Genuine(a, Reading(a))
      BY <1>d, <1>e, <2>9
    <2>11. \A i \in 1 .. Len(q) :
             Genuine(a, q[i]) /\ last[a] <= q[i].value /\ q[i].value <= Reading(a).value
      BY <1>d, <2>7
    <2>12. SamplesGenuine' /\ QueuesGenuine' /\ QueuesAscend'
      BY <1>a, <1>d, <2>1, <2>2, <2>3, <2>8, <2>10, <2>11, NotificationsOf
    <2> QED BY <1>b, <2>12 DEF ClientInv
  <1>5. ASSUME NEW a \in Ids, ValueChanged(a) PROVE ClientInv'
    <2> DEFINE q == queue[a]
               h == Head(queue[a])
               l == IF h.good THEN h.value ELSE last[a]
               t == Tail(queue[a])
    <2>1. /\ UNCHANGED <<node, fired>> /\ sampled' = sampled
          /\ q # << >>
          /\ queue' = [queue EXCEPT ![a] = t]
          /\ last' = [last EXCEPT ![a] = l]
      BY <1>5 DEF ValueChanged, nodeVars, putVars
    <2>2. sampled' = [sampled EXCEPT ![a] = sampled[a]] /\ sampled[a] \in Notification
      BY <1>c, <2>1
    <2>3. q \in Seq(Notification)
      BY <1>c
    <2>4. /\ Len(q) \in Nat /\ 1 \in 1 .. Len(q) /\ h = q[1] /\ h \in Notification
          /\ t \in Seq(Notification) /\ Len(t) = Len(q) - 1
          /\ \A i \in 1 .. Len(t) : t[i] = q[i + 1] /\ i + 1 \in 1 .. Len(q)
      BY <2>1, <2>3
    <2>5. /\ \A i \in 1 .. Len(q) : /\ Genuine(a, q[i]) /\ last[a] <= q[i].value
                                     /\ q[i].value <= sampled[a].value
          /\ \A i, j \in 1 .. Len(q) : i <= j => q[i].value <= q[j].value
      BY <1>a DEF QueuesGenuine, QueuesAscend
    <2> HIDE DEF q, h, t
    <2>6. l \in -1 .. MaxPuts
      BY <1>c, <2>4 DEF Notification
    <2>7. l <= sampled[a].value
      BY <1>e, <2>4, <2>5
    <2>8. \A i \in 1 .. Len(t) :
            Genuine(a, t[i]) /\ l <= t[i].value /\ t[i].value <= sampled[a].value
      <3> TAKE i \in 1 .. Len(t)
      <3>1. t[i] = q[i + 1] /\ i + 1 \in 1 .. Len(q) /\ 1 <= i + 1
        BY <2>4
      <3>2. h.value <= t[i].value /\ last[a] <= t[i].value
        BY <2>4, <2>5, <3>1
      <3> QED BY <2>5, <3>1, <3>2
    <2>9. \A i, j \in 1 .. Len(t) : i <= j => t[i].value <= t[j].value
      <3> TAKE i, j \in 1 .. Len(t)
      <3> HAVE i <= j
      <3>1. /\ t[i] = q[i + 1] /\ i + 1 \in 1 .. Len(q)
            /\ t[j] = q[j + 1] /\ j + 1 \in 1 .. Len(q) /\ i + 1 <= j + 1
        BY <2>4
      <3> QED BY <2>5, <3>1
    <2> HIDE DEF l
    <2>10. SamplesGenuine' /\ QueuesGenuine' /\ QueuesAscend'
      BY <1>a, <1>e, <2>1, <2>2, <2>4, <2>6, <2>7, <2>8, <2>9, NotificationsOf
    <2> QED BY <1>b, <2>10 DEF ClientInv
  <1>6. PutStep \/ Connect \/ Disconnect \/ UNCHANGED vars => UNCHANGED uaVars
    BY Zenon DEF PutStep, Put, TestEvent, Enable, Update, Disable, PutThrows, Connect, Disconnect, vars
  <1>7. ASSUME NEW a \in Ids, ActivationStep(a), ~ Subscribe(a), ~ ReleaseId(a) PROVE UNCHANGED uaVars
    BY <1>7, Zenon DEF ActivationStep, Activate, ActivateFails, SubscribeFails, Deactivate
  <1> QED BY <1>1, <1>2, <1>3, <1>4, <1>5, <1>6, <1>7, Zenon DEF Next

-----------------------------------------------------------------------------
(* Refinement.                                                             *)

\* Every step is a step of EventChannel or leaves it alone: a test that is true fires, and
\* a notification with a good status is delivered.
LEMMA ChannelStep ==
  ASSUME EventAssumption, TypeOK, PutCounted, ServerInv, ClientInv, [Next]_vars
  PROVE  [Channel!Next]_(Channel!vars)
  <1> USE EventAssumption DEF EventAssumption
  <1>1. ASSUME TestEvent, TestSucceeds PROVE Channel!Next
    <2>1. phase = "testing" /\ cursor \in Ids /\ puts \in 0 .. MaxPuts /\ puts # 0
      BY <1>1 DEF TestEvent, TypeOK, PutCounted
    <2>2. fired' = [fired EXCEPT ![cursor] = @ \cup {puts}] /\ last' = last
      BY <1>1, Zenon DEF TestEvent, TestSucceeds, uaVars
    <2>3. \A m \in fired[cursor] : m < puts
      <3>1. FiredSoFar
        BY Zenon DEF ServerInv
      <3>2. \A m \in fired[cursor] : m \in Int /\ m <= puts
        BY <2>1, <3>1 DEF FiredSoFar, TypeOK
      <3>3. puts \notin fired[cursor]
        BY <2>1, <3>1 DEF FiredSoFar, Ids
      <3> QED BY <2>1, <3>2, <3>3
    <2>4. Channel!Fire(cursor, puts)
      BY <2>2, <2>3 DEF Channel!Fire
    <2> QED BY <2>1, <2>4 DEF Channel!Next
  <1>2. ASSUME NEW a \in Ids, ValueChanged(a) PROVE Channel!Next \/ UNCHANGED <<fired, last>>
    <2>1. /\ queue[a] # << >> /\ fired' = fired
          /\ last' = [last EXCEPT ![a] = IF Head(queue[a]).good THEN Head(queue[a]).value ELSE @]
      BY <1>2, Zenon DEF ValueChanged, putVars
    <2>2. queue[a] \in Seq(Notification) /\ last \in [Ids -> -1 .. MaxPuts]
      BY DEF TypeOK
    <2>3. Head(queue[a]) = queue[a][1] /\ 1 \in 1 .. Len(queue[a]) /\ Head(queue[a]) \in Notification
      BY <2>1, <2>2
    <2> DEFINE h == Head(queue[a])
    <2>4. Genuine(a, h) /\ last[a] <= h.value
      BY <2>3 DEF ClientInv, QueuesGenuine
    <2>5. CASE h.good
      <3>1. last' = [last EXCEPT ![a] = h.value] /\ h.value \in 0 .. MaxPuts
        BY <2>1, <2>3, <2>5 DEF Notification
      <3>2. Channel!Deliver(a, h.value)
        BY <2>1, <2>4, <2>5, <3>1 DEF Channel!Deliver, Genuine
      <3> QED BY <3>1, <3>2 DEF Channel!Next
    <2>6. CASE ~ h.good
      BY <2>1, <2>2, <2>6
    <2> QED BY <2>5, <2>6
  <1>3. ASSUME TestEvent, ~ TestSucceeds PROVE UNCHANGED <<fired, last>>
    BY <1>3, Zenon DEF TestEvent, uaVars
  <1>4. ASSUME NEW a \in Ids, ActivationStep(a) \/ Sample(a) PROVE UNCHANGED <<fired, last>>
    BY <1>4, Zenon DEF ActivationStep, Activate, ActivateFails, Subscribe, SubscribeFails, Deactivate,
                       ReleaseId, Sample, putVars, uaVars
  <1>5. Put \/ Enable \/ Update \/ Disable \/ PutThrows \/ Connect \/ Disconnect \/ UNCHANGED vars
          => UNCHANGED <<fired, last>>
    BY Zenon DEF Put, Enable, Update, Disable, PutThrows, Connect, Disconnect, vars, putVars, uaVars
  <1> QED BY <1>1, <1>2, <1>3, <1>4, <1>5, Zenon DEF Next, PutStep, Channel!vars

\* ImplementsChannel for any number of activations and puts and any queue size: clients are
\* only given statuses whose test was true, and in their order, however put() and the
\* activations interleave and whatever is lost.
THEOREM EventPatternImplementsChannel == Spec => ImplementsChannel
  <1>1. Init => Channel!Init
    BY DEF Init, Channel!Init
  <1>2. Init => ClientInv
    <2> SUFFICES ASSUME Init PROVE ClientInv
      OBVIOUS
    <2>1. /\ \A a \in Ids : node[a] = 0 /\ readable[a] = FALSE /\ last[a] = -1
          /\ \A a \in Ids : queue[a] = << >> /\ sampled[a] = [value |-> 0, good |-> FALSE]
      BY DEF Init, Reading
    <2>2. \A a \in Ids : Len(queue[a]) = 0
      BY <2>1
    <2> QED BY <2>1, <2>2
            DEF ClientInv, NodesGenuine, SamplesGenuine, QueuesGenuine, QueuesAscend, Genuine
  <1>3. TypeOK /\ TypeOK' /\ ServerInv /\ ClientInv /\ [Next]_vars => ClientInv'
    BY ClientStep, EventAssumption
  <1>4. TypeOK /\ PutCounted /\ ServerInv /\ ClientInv /\ [Next]_vars
          => [Channel!Next]_(Channel!vars)
    BY ChannelStep, EventAssumption
  <1> QED BY <1>1, <1>2, <1>3, <1>4, TypeCounted, ServerAlways, PTL
          DEF Spec, ImplementsChannel, Channel!Spec
==============================================================================
