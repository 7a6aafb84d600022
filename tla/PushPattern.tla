----------------------------- MODULE PushPattern -----------------------------
(***************************************************************************)
(* The push pattern from PushServer::put() to the buffer of PushClient.    *)
(*                                                                         *)
(* A communication object is spread over one OPC UA variable per element.  *)
(* put() writes them one after the other, the first put() makes them       *)
(* readable before. The OPC UA server samples every variable by itself     *)
(* into a queue and publishes the queue; AsyncSubscriptionOpcUa puts the   *)
(* notifications together again: a datum is complete when every element    *)
(* has a new value.                                                        *)
(*                                                                         *)
(* The data are numbered by the calls of put(); 0 is the value a variable  *)
(* is created with. The variable paced is history: it tells whether the    *)
(* server has been slow enough for the present subscription.               *)
(***************************************************************************)
EXTENDS Integers, FiniteSets, SequencesExt

CONSTANTS
  NumElements,  \* elements of the communication object
  QueueSize,    \* queueSize of a monitored item
  MaxPuts       \* bound on the calls of put()

ASSUME PushAssumption ==
  /\ NumElements \in Nat \ {0}
  /\ QueueSize \in Nat \ {0}
  /\ MaxPuts \in Nat

Elements == 1 .. NumElements
Puts == 1 .. MaxPuts

VARIABLES
  node,          \* the value of every variable
  readable,      \* its access level
  firstTimePut,  \* m_FirstTimePut
  phase,         \* where put() is: "idle", "enabling" or "updating"
  position,      \* the element it is at
  puts,          \* number of calls of put()
  completed,     \* those that did not throw
  sampled,       \* the last sample of every variable
  queue,         \* notifications not published yet
  net,           \* notifications published and not received yet
  pc,            \* the client thread that uses the PushClient
  items,         \* number of monitored items of the subscription (m_monItems)
  value,         \* their values received for the next datum, -1: none
  valuesSet,     \* m_valuesSet
  latest,        \* the datum last added to the buffer, <<>>: none
  paced          \* see Unhurried and Undisturbed

serverVars == <<node, readable, firstTimePut, phase, position, puts, completed>>
uaVars == <<sampled, queue, net>>
clientVars == <<pc, items, value, valuesSet, latest>>
vars == <<serverVars, uaVars, clientVars, paced>>

NoValues == [e \in Elements |-> -1]

-----------------------------------------------------------------------------
(* The OPC UA server.                                                      *)

\* What a sample of e finds: the value and whether the status is good.
Reading(e) == [element |-> e, value |-> node[e], good |-> readable[e]]

\* Notifications of e in the queue.
Queued(e) == {i \in 1 .. Len(queue) : queue[i].element = e}

\* The queue of a monitored item drops its oldest notification when it is full.
Enqueue(e) ==
  \/ /\ Cardinality(Queued(e)) < QueueSize
     /\ queue' = Append(queue, Reading(e))
  \/ /\ Cardinality(Queued(e)) >= QueueSize
     /\ \E oldest \in Queued(e) :
          /\ \A i \in Queued(e) : oldest <= i
          /\ queue' = Append(RemoveAt(queue, oldest), Reading(e))

Sample(e) ==
  /\ e <= items
  /\ sampled[e] # Reading(e)
  /\ sampled' = [sampled EXCEPT ![e] = Reading(e)]
  /\ Enqueue(e)
  /\ UNCHANGED <<serverVars, net, clientVars, paced>>

Publish ==
  /\ net = <<>>
  /\ queue # <<>>
  /\ net' = queue
  /\ queue' = <<>>
  /\ UNCHANGED <<serverVars, sampled, clientVars, paced>>

\* Everything written so far has been sampled and published.
Settled ==
  /\ queue = <<>>
  /\ \A e \in 1 .. items : sampled[e] = Reading(e)

-----------------------------------------------------------------------------
(* PushServer.                                                             *)

\* put() does not begin before its predecessor is settled, nor while the client subscribes.
\* (And it does not fail: see PutThrows.)
Unhurried == Settled /\ pc # "subscribing"

Put ==
  /\ phase = "idle"
  /\ puts < MaxPuts
  /\ puts' = puts + 1
  /\ phase' = IF firstTimePut THEN "enabling" ELSE "updating"
  /\ position' = 1
  /\ paced' = (paced /\ Unhurried)
  /\ UNCHANGED <<node, readable, firstTimePut, completed, uaVars, clientVars>>

\* PushServerEnabler makes the next variable readable.
Enable ==
  /\ phase = "enabling"
  /\ readable' = [readable EXCEPT ![position] = TRUE]
  /\ \/ /\ position < NumElements
        /\ position' = position + 1
        /\ UNCHANGED <<phase, firstTimePut>>
     \/ /\ position = NumElements
        /\ position' = 1
        /\ phase' = "updating"
        /\ firstTimePut' = FALSE
  /\ UNCHANGED <<node, puts, completed, uaVars, clientVars, paced>>

\* PushServerUpdater writes the next variable.
Update ==
  /\ phase = "updating"
  /\ node' = [node EXCEPT ![position] = puts]
  /\ \/ /\ position < NumElements
        /\ position' = position + 1
        /\ UNCHANGED <<phase, completed>>
     \/ /\ position = NumElements
        /\ position' = 1
        /\ phase' = "idle"
        /\ completed' = completed \cup {puts}
  /\ UNCHANGED <<readable, firstTimePut, puts, uaVars, clientVars, paced>>

\* Writing a variable fails: the exception leaves put() where it is.
PutThrows ==
  /\ phase # "idle"
  /\ phase' = "idle"
  /\ paced' = FALSE
  /\ UNCHANGED <<node, readable, firstTimePut, position, puts, completed, uaVars, clientVars>>

-----------------------------------------------------------------------------
(* PushClient and its subscription.                                        *)

\* The client subscribes after the first put() and not during one that has not succeeded.
Undisturbed == phase = "idle" /\ ~ firstTimePut /\ puts \in completed

\* Mutant of DropSubscription: the values received for the next datum are kept.
DropSubscriptionKeepsValues ==
  /\ items' = 0
  /\ latest' = <<>>
  /\ queue' = <<>>
  /\ net' = <<>>
  /\ UNCHANGED <<value, valuesSet, sampled>>

\* The old subscription object is destroyed, with its items and all it has received.
DropSubscription ==
  /\ items' = 0
  /\ value' = NoValues
  /\ valuesSet' = 0
  /\ latest' = <<>>
  /\ queue' = <<>>
  /\ net' = <<>>
  /\ UNCHANGED sampled

\* subscribe() begins, from here on with the mutex of the OPC UA client.
Subscribe ==
  /\ pc = "idle"
  /\ pc' = "subscribing"
  /\ DropSubscription
  /\ paced' = Undisturbed
  /\ UNCHANGED serverVars

\* The subscription is not created; the caller is not told.
SubscribeFails ==
  /\ pc = "subscribing"
  /\ items = 0
  /\ pc' = "idle"
  /\ UNCHANGED <<serverVars, uaVars, items, value, valuesSet, latest, paced>>

\* The next monitored item is created, with a first sample.
AddItem ==
  /\ pc = "subscribing"
  /\ items' = items + 1
  /\ sampled' = [sampled EXCEPT ![items + 1] = Reading(items + 1)]
  /\ Enqueue(items + 1)
  /\ pc' = IF items + 1 = NumElements THEN "idle" ELSE "subscribing"
  /\ UNCHANGED <<serverVars, net, value, valuesSet, latest, paced>>

\* A monitored item is not created: unsubscribe() waits for the mutex subscribe() holds.
AddItemFails ==
  /\ pc = "subscribing"
  /\ pc' = "stuck"
  /\ UNCHANGED <<serverVars, uaVars, items, value, valuesSet, latest, paced>>

Unsubscribe ==
  /\ pc = "idle"
  /\ DropSubscription
  /\ UNCHANGED <<serverVars, pc, paced>>

\* Mutant of ProcessValues: m_valuesSet is not reset.
ProcessValuesKeepsCount(new) ==
  /\ latest' = new
  /\ value' = NoValues
  /\ UNCHANGED valuesSet

\* Mutant of ProcessValues: the client is given every second datum only.
ProcessValuesPrescaled(new) ==
  /\ latest' = IF new[1] % 2 = 1 THEN new ELSE latest
  /\ value' = NoValues
  /\ valuesSet' = 0

\* The values of all items make a datum for the buffer and are reset.
ProcessValues(new) ==
  /\ latest' = new
  /\ value' = NoValues
  /\ valuesSet' = 0

\* A new value replaces the one of its element that waits for the others.
NewValues(n) == [value EXCEPT ![n.element] = n.value]

NewCount(n) == IF value[n.element] = -1 THEN valuesSet + 1 ELSE valuesSet

\* Mutant of Complete: off by one.
CompleteBeyond(n) == NewCount(n) > items

\* Every item has a value.
Complete(n) == NewCount(n) = items

\* The client thread handles a notification; one with a bad status is ignored.
ValueChanged ==
  /\ pc = "idle"
  /\ net # <<>>
  /\ net' = Tail(net)
  /\ LET n == Head(net) IN
       \/ /\ ~ n.good
          /\ UNCHANGED <<value, valuesSet, latest>>
       \/ /\ n.good /\ Complete(n)
          /\ ProcessValues(NewValues(n))
       \/ /\ n.good /\ ~ Complete(n)
          /\ value' = NewValues(n)
          /\ valuesSet' = NewCount(n)
          /\ UNCHANGED latest
  /\ UNCHANGED <<serverVars, sampled, queue, pc, items, paced>>

-----------------------------------------------------------------------------
Init ==
  /\ node = [e \in Elements |-> 0]
  /\ readable = [e \in Elements |-> FALSE]
  /\ firstTimePut = TRUE
  /\ phase = "idle"
  /\ position = 1
  /\ puts = 0
  /\ completed = {}
  /\ sampled = [e \in Elements |-> Reading(e)]
  /\ queue = <<>>
  /\ net = <<>>
  /\ pc = "idle"
  /\ items = 0
  /\ value = NoValues
  /\ valuesSet = 0
  /\ latest = <<>>
  /\ paced = FALSE

Next ==
  \/ Put
  \/ Enable
  \/ Update
  \/ PutThrows
  \/ \E e \in Elements : Sample(e)
  \/ Publish
  \/ Subscribe
  \/ SubscribeFails
  \/ AddItem
  \/ AddItemFails
  \/ Unsubscribe
  \/ ValueChanged

Spec == Init /\ [][Next]_vars

\* The OPC UA threads of server and client keep running.
FairSpec ==
  /\ Spec
  /\ \A e \in Elements : WF_vars(Sample(e))
  /\ WF_vars(Publish)
  /\ WF_vars(ValueChanged)

-----------------------------------------------------------------------------
(* Properties.                                                             *)

Notification == [element : Elements, value : 0 .. MaxPuts, good : BOOLEAN]

\* Type correctness; in particular a datum is only added with a value for every element.
TypeOK ==
  /\ node \in [Elements -> 0 .. MaxPuts]
  /\ readable \in [Elements -> BOOLEAN]
  /\ firstTimePut \in BOOLEAN
  /\ phase \in {"idle", "enabling", "updating"}
  /\ position \in Elements
  /\ puts \in 0 .. MaxPuts
  /\ completed \subseteq Puts
  /\ sampled \in [Elements -> Notification]
  /\ queue \in Seq(Notification)
  /\ net \in Seq(Notification)
  /\ pc \in {"idle", "subscribing", "stuck"}
  /\ items \in 0 .. NumElements
  /\ value \in [Elements -> -1 .. MaxPuts]
  /\ valuesSet \in 0 .. NumElements
  /\ latest \in [Elements -> 0 .. MaxPuts] \cup {<<>>}
  /\ paced \in BOOLEAN

\* m_valuesSet counts the elements that have a value, and at least one is missing between
\* two notifications: otherwise no datum would be completed any more.
ValuesCounted ==
  /\ valuesSet = Cardinality({e \in Elements : value[e] # -1})
  /\ valuesSet < NumElements

\* If put() is slow enough for the sampling, a datum is one that was put, not a mixture of
\* several or of the values the variables were created with.
WholeData ==
  paced /\ latest # <<>> => \E p \in completed \cup {puts} : \A e \in Elements : latest[e] = p

\* Then no successful put() is missed between two data, and none comes twice.
NoPutMissed ==
  [][paced /\ paced' /\ latest # <<>> /\ latest' # <<>> /\ latest' # latest
       => /\ latest'[1] > latest[1]
          /\ \A p \in completed' : ~ (latest[1] < p /\ p < latest'[1])]_vars

\* The datum n or a later one has come.
Arrived(n) == IF latest = <<>> THEN FALSE ELSE \A e \in Elements : latest[e] >= n

\* The client is subscribed to all elements.
Subscribed == pc = "idle" /\ items = NumElements

\* Then the data of the last put() comes to every subscribed client, the ones that
\* subscribe after it included.
LastPutArrives ==
  \A n \in Puts :
    paced /\ Subscribed /\ phase = "idle" /\ puts = n /\ n \in completed
      ~> Arrived(n) \/ ~ paced \/ ~ Subscribed

\* A client that is subscribed when put() is called for the first time gets the data.
FirstPutArrives ==
  [](Subscribed /\ puts = 0 => <>Arrived(1) \/ <>(~ Subscribed) \/ [](1 \notin completed))
=============================================================================
