----------------------------- MODULE EventPattern ----------------------------
(***************************************************************************)
(* The event pattern: EventServer::put() and activateCallback(), and the   *)
(* activations of EventClient.                                             *)
(*                                                                         *)
(* An activation has a result variable on the OPC UA server, which is      *)
(* unreadable at first, and an entry in m_EventInfos. put() tests all      *)
(* entries in the order of their ids. When the test is true it makes the   *)
(* variable readable if m_disabled is set, and writes the status; when it  *)
(* is false it makes the variable unreadable if m_disabled is not set. The *)
(* one flag m_disabled stands for all activations. activateCallback() runs *)
(* in the thread of the OPC UA server and takes no lock.                   *)
(*                                                                         *)
(* The statuses are numbered by the calls of put(); 0 is the value a       *)
(* variable is created with. testEvent() belongs to the user: it may       *)
(* answer anything. fired, tested, atStart, raced and thrown are history.  *)
(***************************************************************************)
EXTENDS Integers, Sequences

CONSTANTS
  MaxActivations,  \* bound on the activations
  QueueSize,       \* queueSize of a monitored item
  MaxPuts          \* bound on the calls of put()

ASSUME EventAssumption ==
  /\ MaxActivations \in Nat
  /\ QueueSize \in Nat \ {0}
  /\ MaxPuts \in Nat

\* The ids the server gives to the activations, in the order of the map.
Ids == 1 .. MaxActivations

VARIABLES
  infos,      \* the ids in m_EventInfos
  node,       \* the value of every result variable
  readable,   \* its access level
  disabled,   \* m_disabled
  phase,      \* where put() is
  cursor,     \* the activation its iterator is at, 0: none
  puts,       \* number of calls of put()
  fired,      \* for every activation, the statuses whose test was true
  tested,     \* for every activation, the last status tested
  atStart,    \* activations when the last put() began
  raced,      \* another one was inserted during it
  thrown,     \* an exception left it
  connected,  \* EventClient::m_pUaClientWithMutex is not null
  client,     \* what the client knows of every activation
  monitored,  \* activations that have a monitored item
  sampled,    \* their last sample
  queue,      \* notifications on the way to the client
  last        \* the status added last to the buffer of the subscription, -1: none

putVars == <<disabled, phase, cursor, puts, fired, tested, atStart, thrown>>
nodeVars == <<node, readable>>
clientVars == <<connected, client>>
uaVars == <<monitored, sampled, queue, last>>
vars == <<infos, nodeVars, putVars, raced, clientVars, uaVars>>

-----------------------------------------------------------------------------
(* EventServer::put().                                                     *)

Later(c) == {a \in infos : c < a}

\* The iterator goes on to the next entry; put() returns after the last one. An insertion at
\* the same time may make it miss entries.
Advance(c, race) ==
  \/ /\ Later(c) = {} \/ race
     /\ phase' = "idle"
     /\ cursor' = 0
  \/ \E a \in Later(c) :
       /\ race \/ \A b \in Later(c) : a <= b
       /\ phase' = "testing"
       /\ cursor' = a

\* put() begins; without an activation it answers SMART_NODATA at once.
Put ==
  /\ phase = "idle"
  /\ puts < MaxPuts
  /\ puts' = puts + 1
  /\ atStart' = infos
  /\ raced' = FALSE
  /\ thrown' = FALSE
  /\ Advance(0, FALSE)
  /\ UNCHANGED <<infos, nodeVars, disabled, fired, tested, clientVars, uaVars>>

\* Mutant of TestFails: the loop ends with the first activation whose test is false.
TestFailsBreaks ==
  \/ /\ ~ disabled
     /\ phase' = "disabling"
     /\ UNCHANGED cursor
  \/ /\ disabled
     /\ phase' = "idle"
     /\ cursor' = 0

\* Mutant of TestFails: the variable of a false test is written as well.
TestFailsWrites ==
  /\ phase' = "updating"
  /\ UNCHANGED cursor

TestFails ==
  \/ /\ ~ disabled
     /\ phase' = "disabling"
     /\ UNCHANGED cursor
  \/ /\ disabled
     /\ Advance(cursor, raced)

TestSucceeds ==
  /\ fired' = [fired EXCEPT ![cursor] = @ \cup {puts}]
  /\ phase' = IF disabled THEN "enabling" ELSE "updating"
  /\ UNCHANGED cursor

TestEvent ==
  /\ phase = "testing"
  /\ tested' = [tested EXCEPT ![cursor] = puts]
  /\ \/ TestSucceeds
     \/ TestFails /\ UNCHANGED fired
  /\ UNCHANGED <<infos, nodeVars, disabled, puts, atStart, raced, thrown, clientVars, uaVars>>

\* PushServerEnabler; the status is written next.
Enable ==
  /\ phase = "enabling"
  /\ readable' = [readable EXCEPT ![cursor] = TRUE]
  /\ disabled' = FALSE
  /\ phase' = "updating"
  /\ UNCHANGED <<infos, node, cursor, puts, fired, tested, atStart, raced, thrown,
                 clientVars, uaVars>>

\* PushServerUpdater.
Update ==
  /\ phase = "updating"
  /\ node' = [node EXCEPT ![cursor] = puts]
  /\ Advance(cursor, raced)
  /\ UNCHANGED <<infos, readable, disabled, puts, fired, tested, atStart, raced, thrown,
                 clientVars, uaVars>>

\* PushServerDisabler.
Disable ==
  /\ phase = "disabling"
  /\ readable' = [readable EXCEPT ![cursor] = FALSE]
  /\ disabled' = TRUE
  /\ Advance(cursor, raced)
  /\ UNCHANGED <<infos, node, puts, fired, tested, atStart, raced, thrown, clientVars, uaVars>>

\* Access to a variable fails, and PushServerDisabler refuses arrays: the exception leaves
\* put() where it is.
PutThrows ==
  /\ phase \in {"enabling", "updating", "disabling"}
  /\ phase' = "idle"
  /\ cursor' = 0
  /\ thrown' = TRUE
  /\ UNCHANGED <<infos, nodeVars, disabled, puts, fired, tested, atStart, raced, clientVars, uaVars>>

-----------------------------------------------------------------------------
(* Activation.                                                             *)

\* The result variable is made, unreadable, and the entry inserted.
ActivateCallback(a) ==
  /\ infos' = infos \cup {a}
  /\ node' = [node EXCEPT ![a] = 0]
  /\ readable' = [readable EXCEPT ![a] = FALSE]
  /\ raced' = (raced \/ phase # "idle")

Connect ==
  /\ connected' \in BOOLEAN
  /\ UNCHANGED <<infos, nodeVars, putVars, raced, client, uaVars>>

Disconnect ==
  /\ connected' = FALSE
  /\ UNCHANGED <<infos, nodeVars, putVars, raced, client, uaVars>>

\* activate() calls the method of the server, which gives the activation an id.
Activate(a) ==
  /\ connected
  /\ a \notin infos
  /\ ActivateCallback(a)
  /\ client' = [client EXCEPT ![a] = "called"]
  /\ UNCHANGED <<putVars, connected, uaVars>>

\* The result of the call is lost or not as expected: the server keeps the activation.
ActivateFails(a) ==
  /\ client[a] = "called"
  /\ client' = [client EXCEPT ![a] = "none"]
  /\ UNCHANGED <<infos, nodeVars, putVars, raced, connected, uaVars>>

\* What a sample of the result variable finds: the value and whether the status is good.
Reading(a) == [value |-> node[a], good |-> readable[a]]

\* activate() subscribes to the result variable, which is sampled at once.
Subscribe(a) ==
  /\ client[a] = "called"
  /\ client' = [client EXCEPT ![a] = "active"]
  /\ monitored' = monitored \cup {a}
  /\ sampled' = [sampled EXCEPT ![a] = Reading(a)]
  /\ queue' = [queue EXCEPT ![a] = <<Reading(a)>>]
  /\ UNCHANGED <<infos, nodeVars, putVars, raced, connected, last>>

\* The subscription is not created; subscribe() reports success all the same.
SubscribeFails(a) ==
  /\ client[a] = "called"
  /\ client' = [client EXCEPT ![a] = "active"]
  /\ UNCHANGED <<infos, nodeVars, putVars, raced, connected, uaVars>>

\* deactivate() only marks the id; the server is not told.
Deactivate(a) ==
  /\ client[a] = "active"
  /\ client' = [client EXCEPT ![a] = "invalid"]
  /\ UNCHANGED <<infos, nodeVars, putVars, raced, connected, uaVars>>

\* The user gives the id away and with it the subscription.
ReleaseId(a) ==
  /\ client[a] \in {"active", "invalid"}
  /\ client' = [client EXCEPT ![a] = "none"]
  /\ monitored' = monitored \ {a}
  /\ queue' = [queue EXCEPT ![a] = <<>>]
  /\ UNCHANGED <<infos, nodeVars, putVars, raced, connected, sampled, last>>

-----------------------------------------------------------------------------
(* The OPC UA server and the subscription of the client.                   *)

\* A full queue loses its oldest notification.
Enqueue(a, n) ==
  IF Len(queue[a]) < QueueSize THEN Append(queue[a], n) ELSE Append(Tail(queue[a]), n)

Sample(a) ==
  /\ a \in monitored
  /\ sampled[a] # Reading(a)
  /\ sampled' = [sampled EXCEPT ![a] = Reading(a)]
  /\ queue' = [queue EXCEPT ![a] = Enqueue(a, Reading(a))]
  /\ UNCHANGED <<infos, nodeVars, putVars, raced, clientVars, monitored, last>>

\* Mutant of ValueChanged: a notification with a bad status is taken as well.
ValueChangedAnyStatus(a) ==
  /\ queue[a] # <<>>
  /\ queue' = [queue EXCEPT ![a] = Tail(@)]
  /\ last' = [last EXCEPT ![a] = Head(queue[a]).value]
  /\ UNCHANGED <<infos, nodeVars, putVars, raced, clientVars, monitored, sampled>>

\* Mutant of ValueChanged: only the first status is taken.
ValueChangedOnce(a) ==
  /\ queue[a] # <<>>
  /\ queue' = [queue EXCEPT ![a] = Tail(@)]
  /\ last' = [last EXCEPT ![a] = IF Head(queue[a]).good /\ @ = -1 THEN Head(queue[a]).value ELSE @]
  /\ UNCHANGED <<infos, nodeVars, putVars, raced, clientVars, monitored, sampled>>

\* A notification is received; one with a bad status is ignored.
ValueChanged(a) ==
  /\ queue[a] # <<>>
  /\ queue' = [queue EXCEPT ![a] = Tail(@)]
  /\ last' = [last EXCEPT ![a] = IF Head(queue[a]).good THEN Head(queue[a]).value ELSE @]
  /\ UNCHANGED <<infos, nodeVars, putVars, raced, clientVars, monitored, sampled>>

\* The answer of tryEvent() if no event has been read yet.
TryEvent(a) ==
  IF client[a] # "active" THEN "SMART_NOTACTIVATED"
  ELSE IF last[a] # -1 THEN "SMART_OK" ELSE "SMART_ERROR"

-----------------------------------------------------------------------------
Init ==
  /\ infos = {}
  /\ node = [a \in Ids |-> 0]
  /\ readable = [a \in Ids |-> FALSE]
  /\ disabled = TRUE
  /\ phase = "idle"
  /\ cursor = 0
  /\ puts = 0
  /\ fired = [a \in Ids |-> {}]
  /\ tested = [a \in Ids |-> 0]
  /\ atStart = {}
  /\ raced = FALSE
  /\ thrown = FALSE
  /\ connected = FALSE
  /\ client = [a \in Ids |-> "none"]
  /\ monitored = {}
  /\ sampled = [a \in Ids |-> Reading(a)]
  /\ queue = [a \in Ids |-> <<>>]
  /\ last = [a \in Ids |-> -1]

PutStep == Put \/ TestEvent \/ Enable \/ Update \/ Disable \/ PutThrows

ActivationStep(a) ==
  \/ Activate(a)
  \/ ActivateFails(a)
  \/ Subscribe(a)
  \/ SubscribeFails(a)
  \/ Deactivate(a)
  \/ ReleaseId(a)

Next ==
  \/ PutStep
  \/ Connect
  \/ Disconnect
  \/ \E a \in Ids : ActivationStep(a) \/ Sample(a) \/ ValueChanged(a)

Spec == Init /\ [][Next]_vars

\* The OPC UA threads of server and client keep running.
FairSpec ==
  /\ Spec
  /\ \A a \in Ids : WF_vars(Sample(a)) /\ WF_vars(ValueChanged(a))

-----------------------------------------------------------------------------
(* Properties.                                                             *)

Notification == [value : 0 .. MaxPuts, good : BOOLEAN]

\* Type correctness.
TypeOK ==
  /\ infos \subseteq Ids
  /\ node \in [Ids -> 0 .. MaxPuts]
  /\ readable \in [Ids -> BOOLEAN]
  /\ disabled \in BOOLEAN
  /\ phase \in {"idle", "testing", "enabling", "updating", "disabling"}
  /\ cursor \in {0} \cup infos
  /\ phase # "idle" => cursor # 0
  /\ puts \in 0 .. MaxPuts
  /\ fired \in [Ids -> SUBSET (1 .. MaxPuts)]
  /\ tested \in [Ids -> 0 .. MaxPuts]
  /\ atStart \subseteq infos
  /\ raced \in BOOLEAN
  /\ thrown \in BOOLEAN
  /\ connected \in BOOLEAN
  /\ client \in [Ids -> {"none", "called", "active", "invalid"}]
  /\ monitored \subseteq Ids
  /\ sampled \in [Ids -> Notification]
  /\ queue \in [Ids -> Seq(Notification)]
  /\ last \in [Ids -> -1 .. MaxPuts]

\* put() tests every activation there is when it begins, if nothing is activated meanwhile
\* and no exception is thrown.
EveryActivationTested ==
  phase = "idle" /\ ~ raced /\ ~ thrown => \A a \in atStart : tested[a] = puts

\* m_disabled is only cleared while the variable of some activation is readable.
EnabledSomewhere == ~ disabled => \E a \in infos : readable[a]

\* After put() the variable of the only activation shows the outcome of its test: it is
\* readable, with the status, if and only if the test was true.
LoneActivationFollowsTest ==
  \A a \in Ids :
    infos = {a} /\ a \in atStart /\ phase = "idle" /\ ~ thrown =>
      IF puts \in fired[a] THEN readable[a] /\ node[a] = puts ELSE ~ readable[a]

Channel == INSTANCE EventChannel WITH Activations <- Ids

\* To its clients the pattern is an EventChannel: only statuses that fired are delivered,
\* and in their order, whatever is lost on the way and however put() is interrupted.
ImplementsChannel == Channel!Spec

\* The last status fired for a, whose client listens and may read the result variable.
Announced(a, n) ==
  /\ phase = "idle" /\ ~ thrown /\ puts = n
  /\ n \in fired[a] /\ readable[a]
  /\ a \in monitored /\ client[a] = "active"

\* A status that fired reaches the client, and tryEvent() tells of it, unless another put()
\* follows or the activation ends, provided the result variable is readable.
EventArrives ==
  \A a \in Ids : \A n \in 1 .. MaxPuts :
    Announced(a, n)
      ~> puts > n \/ client[a] # "active" \/ (last[a] = n /\ TryEvent(a) = "SMART_OK")
=============================================================================
