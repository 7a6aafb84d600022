-------------------------- MODULE PushPatternProofs --------------------------
(***************************************************************************)
(* PushPattern for any number of elements, queue size and number of puts:  *)
(* the count of the values received is right, so that a datum is added     *)
(* exactly when every element has a value; and while put() is slow enough, *)
(* the data are whole and none is missed.                                  *)
(***************************************************************************)
EXTENDS PushPattern, FiniteSetTheorems, SequenceTheorems, TLAPS

\* The elements that have a value for the next datum.
Filled == {e \in Elements : value[e] # -1}

\* All of TypeOK but the datum and the count of values.
Types ==
  /\ node \in [Elements -> 0 .. MaxPuts]
  /\ readable \in [Elements -> BOOLEAN]
  /\ firstTimePut \in BOOLEAN
  /\ phase \in {"idle", "enabling", "updating"}
  /\ position \in Elements
  /\ puts \in 0 .. MaxPuts
  /\ completed \subseteq Puts
  /\ sampled \in [Elements -> Notification]
  /\ queue \in Seq(Notification)
  /\ net \in Seq(Notification)
  /\ pc \in {"idle", "subscribing", "stuck"}
  /\ items \in 0 .. NumElements
  /\ value \in [Elements -> -1 .. MaxPuts]
  /\ paced \in BOOLEAN

\* put() has begun before it writes.
PutBegun == phase # "idle" => puts \in Puts

\* An idle client has all items or none, and nothing comes without items.
ItemsComplete ==
  /\ pc = "idle" => items \in {0, NumElements}
  /\ pc = "subscribing" => items < NumElements
  /\ items = 0 => queue = <<>> /\ net = <<>>

\* The datum last added is complete.
DatumComplete == latest \in [Elements -> 0 .. MaxPuts] \cup {<<>>}

Inv == Types /\ PutBegun /\ ItemsComplete /\ DatumComplete /\ ValuesCounted

USE PushAssumption DEF PushAssumption

\* The elements are finitely many.
LEMMA ElementsFinite == IsFiniteSet(Elements) /\ Cardinality(Elements) = NumElements
BY FS_Interval DEF Elements

\* The elements with a value are counted; a full count means all of them.
LEMMA FilledFinite ==
  /\ IsFiniteSet(Filled) /\ Cardinality(Filled) \in 0 .. NumElements
  /\ Cardinality(Filled) = NumElements => Filled = Elements
<1>1. Filled \subseteq Elements
  BY DEF Filled
<1>2. IsFiniteSet(Filled) /\ Cardinality(Filled) <= NumElements
  BY <1>1, ElementsFinite, FS_Subset
<1>3. Cardinality(Filled) = NumElements => Filled = Elements
  BY <1>1, ElementsFinite, FS_Subset
<1> QED BY <1>2, <1>3, FS_CardinalityType

\* No element has a value: the count is 0.
LEMMA NoneFilled ==
  Cardinality({e \in Elements : NoValues[e] # -1}) = 0
<1>1. {e \in Elements : NoValues[e] # -1} = {}
  BY DEF NoValues
<1> QED BY <1>1, FS_EmptySet

\* The invariant holds when client and server start.
LEMMA InitInv == Init => Inv
<1> SUFFICES ASSUME Init PROVE Inv
  OBVIOUS
<1>0. \A e \in Elements : Reading(e) \in Notification
  BY DEF Init, Reading, Notification, Elements
<1>1. Types /\ PutBegun /\ ItemsComplete /\ DatumComplete
  <2>1. sampled \in [Elements -> Notification]
    BY <1>0 DEF Init
  <2>2. queue \in Seq(Notification) /\ net \in Seq(Notification)
    BY DEF Init
  <2>3. value \in [Elements -> -1 .. MaxPuts]
    BY DEF Init, NoValues
  <2>4. /\ node \in [Elements -> 0 .. MaxPuts] /\ readable \in [Elements -> BOOLEAN]
        /\ position \in Elements /\ puts \in 0 .. MaxPuts /\ completed \subseteq Puts
        /\ items \in 0 .. NumElements
    BY DEF Init, Elements, Puts
  <2>5. Types
    BY <2>1, <2>2, <2>3, <2>4 DEF Init, Types
  <2>6. PutBegun /\ ItemsComplete /\ DatumComplete
    BY DEF Init, PutBegun, ItemsComplete, DatumComplete
  <2> QED BY <2>5, <2>6
<1>2. ValuesCounted
  BY NoneFilled DEF Init, ValuesCounted
<1> QED BY <1>1, <1>2 DEF Inv

\* A sample is a notification, and so the queue keeps its type.
LEMMA EnqueueType ==
  ASSUME Types, NEW e \in Elements, Enqueue(e)
  PROVE  Reading(e) \in Notification /\ queue' \in Seq(Notification) /\ queue' # <<>>
<1>1. Reading(e) \in Notification
  BY DEF Types, Reading, Notification
<1>2. CASE queue' = Append(queue, Reading(e))
  <2>1. queue \in Seq(Notification)
    BY DEF Types
  <2> QED BY <1>1, <1>2, <2>1, AppendProperties
<1>3. ASSUME NEW oldest \in Queued(e), queue' = Append(RemoveAt(queue, oldest), Reading(e))
      PROVE  queue' \in Seq(Notification) /\ queue' # <<>>
  <2>1. oldest \in 1 .. Len(queue) /\ queue \in Seq(Notification)
    BY DEF Queued, Types
  <2>2. /\ \A i \in 1 .. oldest - 1 : queue[i] \in Notification
        /\ \A i \in oldest + 1 .. Len(queue) : queue[i] \in Notification
    BY <2>1
  <2>3. /\ SubSeq(queue, 1, oldest - 1) \in Seq(Notification)
        /\ SubSeq(queue, oldest + 1, Len(queue)) \in Seq(Notification)
    BY <2>1, <2>2, SubSeqProperties
  <2>4. RemoveAt(queue, oldest) \in Seq(Notification)
    BY <2>3, ConcatProperties DEF RemoveAt
  <2> QED BY <1>1, <1>3, <2>4, AppendProperties
<1> QED BY <1>1, <1>2, <1>3 DEF Enqueue

\* Steps that leave the values received alone keep their count.
LEMMA CountKept ==
  ASSUME ValuesCounted, UNCHANGED <<value, valuesSet>>
  PROVE  ValuesCounted'
BY DEF ValuesCounted

\* The count of values after one more, and what its being complete means.
LEMMA CountNew ==
  ASSUME Inv, NEW n \in Notification
  PROVE  /\ NewValues(n) \in [Elements -> -1 .. MaxPuts]
         /\ NewCount(n) = Cardinality({e \in Elements : NewValues(n)[e] # -1})
         /\ NewCount(n) \in 0 .. NumElements
         /\ NewCount(n) = NumElements => NewValues(n) \in [Elements -> 0 .. MaxPuts]
<1> DEFINE After == {e \in Elements : NewValues(n)[e] # -1}
<1> USE DEF Inv, Types, Notification
<1>1. n.element \in Elements /\ n.value \in 0 .. MaxPuts
  OBVIOUS
<1>2. After = Filled \cup {n.element}
  BY <1>1 DEF Filled, NewValues
<1>3. Cardinality(After) = IF n.element \in Filled THEN Cardinality(Filled)
                           ELSE Cardinality(Filled) + 1
  <2> HIDE DEF After
  <2> QED BY <1>2, FilledFinite, FS_AddElement
<1>4. NewCount(n) = Cardinality(After)
  BY <1>1, <1>3 DEF NewCount, ValuesCounted, Filled
<1>5. After \subseteq Elements
  OBVIOUS
<1>6. Cardinality(After) \in 0 .. NumElements
      /\ (Cardinality(After) = NumElements => After = Elements)
  <2> HIDE DEF After
  <2>1. /\ IsFiniteSet(After) /\ Cardinality(After) <= NumElements
        /\ Cardinality(After) = NumElements => After = Elements
    BY <1>5, ElementsFinite, FS_Subset
  <2> QED BY <2>1, FS_CardinalityType
<1>7. NewValues(n) \in [Elements -> -1 .. MaxPuts]
  BY <1>1 DEF NewValues
<1>8. ASSUME After = Elements PROVE NewValues(n) \in [Elements -> 0 .. MaxPuts]
  <2>1. \A e \in Elements : NewValues(n)[e] \in 0 .. MaxPuts
    BY <1>7, <1>8
  <2> QED BY <1>7, <2>1
<1> QED BY <1>4, <1>6, <1>7, <1>8

\* put() goes from element to element.
LEMMA NextPosition ==
  ASSUME position \in Elements,
         \/ position < NumElements /\ position' = position + 1
         \/ position' = 1
  PROVE  position' \in Elements
BY DEF Elements

\* Every step keeps Inv.
LEMMA NextInv == Inv /\ [Next]_vars => Inv'
<1> SUFFICES ASSUME Inv, [Next]_vars PROVE Inv'
  OBVIOUS
<1> USE DEF Inv, serverVars, uaVars, clientVars
<1>1. CASE Put \/ Enable \/ Update \/ PutThrows
  <2>0. position \in Elements
    BY DEF Types
  <2>1. Types' /\ PutBegun'
    <3>5. Enable \/ Update => position' \in Elements
      BY <2>0, NextPosition DEF Enable, Update
    <3> USE DEF Types, PutBegun, Puts
    <3>1. CASE Put
      BY <3>1 DEF Put, Elements
    <3>2. CASE Enable
      <4>1. readable' \in [Elements -> BOOLEAN]
        BY <3>2 DEF Enable
      <4>2. position' \in Elements
        BY <3>2, <3>5
      <4>3. firstTimePut' \in BOOLEAN /\ phase' \in {"enabling", "updating"}
        BY <3>2 DEF Enable
      <4> QED BY <3>2, <4>1, <4>2, <4>3 DEF Enable
    <3>3. CASE Update
      <4>1. node' \in [Elements -> 0 .. MaxPuts]
        BY <3>3 DEF Update
      <4>2. position' \in Elements
        BY <3>3, <3>5
      <4>3. completed' \subseteq Puts /\ phase' \in {"idle", "updating"}
        BY <3>3 DEF Update
      <4> QED BY <3>3, <4>1, <4>2, <4>3 DEF Update
    <3>4. CASE PutThrows
      BY <3>4 DEF PutThrows
    <3> QED BY <1>1, <3>1, <3>2, <3>3, <3>4
  <2>2. UNCHANGED <<uaVars, clientVars>>
    BY <1>1 DEF Put, Enable, Update, PutThrows
  <2> QED BY <2>1, <2>2, CountKept DEF ItemsComplete, DatumComplete
<1>2. ASSUME NEW e \in Elements, Sample(e) PROVE Inv'
  <2>1. Reading(e) \in Notification /\ queue' \in Seq(Notification)
    BY <1>2, EnqueueType DEF Sample
  <2>2. Types'
    BY <1>2, <2>1 DEF Sample, Types
  <2>3. PutBegun' /\ DatumComplete'
    BY <1>2 DEF Sample, PutBegun, DatumComplete
  <2>4. ItemsComplete'
    BY <1>2 DEF Sample, ItemsComplete, Types, Elements
  <2> QED BY <1>2, <2>2, <2>3, <2>4, CountKept DEF Sample
<1>3. CASE Publish
  <2>1. Types' /\ PutBegun' /\ DatumComplete' /\ ItemsComplete'
    BY <1>3 DEF Publish, Types, PutBegun, DatumComplete, ItemsComplete
  <2> QED BY <1>3, <2>1, CountKept DEF Publish
<1>4. CASE Subscribe \/ Unsubscribe
  <2>1. DropSubscription /\ UNCHANGED serverVars
    BY <1>4 DEF Subscribe, Unsubscribe
  <2>2. /\ queue' \in Seq(Notification) /\ net' \in Seq(Notification)
        /\ value' \in [Elements -> -1 .. MaxPuts]
        /\ items' \in 0 .. NumElements
    BY <2>1 DEF DropSubscription, NoValues
  <2>4. pc' \in {"idle", "subscribing"} /\ paced' \in BOOLEAN
    BY <1>4 DEF Subscribe, Unsubscribe, Undisturbed, Types
  <2>5. Types'
    BY <2>1, <2>2, <2>4 DEF DropSubscription, Types
  <2>6. PutBegun' /\ ItemsComplete' /\ DatumComplete'
    BY <2>1 DEF DropSubscription, PutBegun, ItemsComplete, DatumComplete
  <2>3. ValuesCounted'
    BY <2>1, NoneFilled DEF DropSubscription, ValuesCounted
  <2> QED BY <2>3, <2>5, <2>6
<1>5. CASE SubscribeFails \/ AddItemFails
  <2>1. Types' /\ PutBegun' /\ DatumComplete' /\ ItemsComplete'
    BY <1>5 DEF SubscribeFails, AddItemFails, Types, PutBegun, DatumComplete, ItemsComplete
  <2> QED BY <1>5, <2>1, CountKept DEF SubscribeFails, AddItemFails
<1>6. CASE AddItem
  <2>1. items + 1 \in Elements
    BY <1>6 DEF AddItem, ItemsComplete, Types, Elements
  <2>2. Reading(items + 1) \in Notification /\ queue' \in Seq(Notification)
    BY <1>6, <2>1, EnqueueType DEF AddItem
  <2>3. items' \in 0 .. NumElements /\ pc' \in {"idle", "subscribing"}
    BY <1>6, <2>1 DEF AddItem, Types, Elements
  <2>4. Types'
    BY <1>6, <2>1, <2>2, <2>3 DEF AddItem, Types
  <2>5. PutBegun' /\ DatumComplete'
    BY <1>6 DEF AddItem, PutBegun, DatumComplete
  <2>6. ItemsComplete'
    BY <1>6, <2>1 DEF AddItem, ItemsComplete, Elements
  <2> QED BY <1>6, <2>4, <2>5, <2>6, CountKept DEF AddItem
<1>7. CASE ValueChanged
  <2> DEFINE n == Head(net)
  <2>1. n \in Notification /\ net' \in Seq(Notification)
    BY <1>7 DEF ValueChanged, Types
  <2>2. items = NumElements
    BY <1>7 DEF ValueChanged, ItemsComplete
  <2>3. PutBegun' /\ ItemsComplete'
    BY <1>7, <2>2 DEF ValueChanged, PutBegun, ItemsComplete
  <2>4. CASE ~ n.good
    <3>1. Types' /\ DatumComplete'
      BY <1>7, <2>1, <2>4 DEF ValueChanged, Types, DatumComplete
    <3> QED BY <1>7, <2>3, <2>4, <3>1, CountKept DEF ValueChanged
  <2>5. CASE n.good /\ Complete(n)
    <3>1. ProcessValues(NewValues(n))
      BY <1>7, <2>5 DEF ValueChanged
    <3>2. NewValues(n) \in [Elements -> 0 .. MaxPuts]
      BY <2>1, <2>2, <2>5, CountNew DEF Complete
    <3>3. Types' /\ DatumComplete'
      BY <1>7, <2>1, <3>1, <3>2 DEF ValueChanged, ProcessValues, Types, DatumComplete, NoValues
    <3>4. ValuesCounted'
      BY <3>1, NoneFilled DEF ProcessValues, ValuesCounted
    <3> QED BY <2>3, <3>3, <3>4
  <2>6. CASE n.good /\ ~ Complete(n)
    <3>1. value' = NewValues(n) /\ valuesSet' = NewCount(n) /\ UNCHANGED latest
      BY <1>7, <2>6 DEF ValueChanged
    <3>2. Types' /\ DatumComplete'
      BY <1>7, <2>1, <3>1, CountNew DEF ValueChanged, Types, DatumComplete
    <3>3. ValuesCounted'
      BY <2>1, <2>2, <2>6, <3>1, CountNew DEF ValuesCounted, Complete
    <3> QED BY <2>3, <3>2, <3>3
  <2> QED BY <2>4, <2>5, <2>6 DEF Types, Notification
<1>8. CASE UNCHANGED vars
  <2>1. Types' /\ PutBegun' /\ DatumComplete' /\ ItemsComplete'
    BY <1>8 DEF vars, Types, PutBegun, DatumComplete, ItemsComplete
  <2> QED BY <1>8, <2>1, CountKept DEF vars
<1> QED
  BY <1>1, <1>2, <1>3, <1>4, <1>5, <1>6, <1>7, <1>8 DEF Next

\* The inductive invariant of the count.
LEMMA SpecInv == Spec => []Inv
BY InitInv, NextInv, PTL DEF Spec

\* m_valuesSet counts the values received, whatever is sampled, lost, overwritten or dropped.
THEOREM CountCorrect == Spec => []ValuesCounted
<1> Inv => ValuesCounted
  BY DEF Inv
<1> QED BY SpecInv, PTL

\* Everything is well typed; a datum is added only with a value for every element, which
\* rests on the count.
THEOREM TypeCorrect == Spec => []TypeOK
<1> Inv => TypeOK
  BY FilledFinite DEF Inv, Types, DatumComplete, ValuesCounted, TypeOK, Filled
<1> QED BY SpecInv, PTL

-----------------------------------------------------------------------------
(* Whole data. The argument follows one generation of values, the number g *)
(* of the put() whose datum the client is assembling. While put() is slow  *)
(* enough it is the last put(), the one before it whose last values are    *)
(* still on the way, or the next one.                                      *)

\* There is a notification of e in q.
Holds(q, e) == \E i \in 1 .. Len(q) : q[i].element = e

\* The notifications in q are good, bring v, and there is one of an element at most.
Uniform(q, v, last) ==
  /\ \A i \in 1 .. Len(q) : q[i].good /\ q[i].value = v /\ q[i].element <= last
  /\ \A i, j \in 1 .. Len(q) : q[i].element = q[j].element => i = j

\* What put() has written, whether it is slow enough or not.
ServerWrites ==
  /\ ~ firstTimePut => \A e \in Elements : readable[e]
  /\ phase = "enabling" => \A e \in 1 .. position - 1 : readable[e]
  /\ phase = "updating" => ~ firstTimePut /\ \A e \in 1 .. position - 1 : node[e] = puts
  /\ \A p \in completed : p <= puts
  /\ phase # "idle" => puts \notin completed
  /\ puts \in completed => \A e \in Elements : node[e] = puts

\* What it has written if it is: the present put() and the one before it, nothing older.
PacedServer ==
  /\ ~ firstTimePut
  /\ phase \in {"idle", "updating"}
  /\ phase = "idle" => puts \in completed
  /\ phase = "updating" =>
       puts - 1 \in completed /\ \A e \in position .. NumElements : node[e] = puts - 1

\* The value g of e is with the client or on its way to it.
Received(e, g) == value[e] = g \/ Holds(net, e)

\* The datum before g was the last one.
DatumBefore(g) ==
  latest # <<>> => g - 1 \in completed \cup {puts} /\ \A e \in Elements : latest[e] = g - 1

\* Only values g wait for the others, each received once.
ValuesOf(g) ==
  \A e \in Elements : value[e] \in {-1, g} /\ (value[e] # -1 => ~ Holds(net, e))

\* Samples are good and lag behind the variables by one put() at most.
Samples ==
  \A e \in 1 .. items :
    /\ sampled[e].element = e /\ sampled[e].good
    /\ sampled[e].value \in {puts - 1, puts}
    /\ sampled[e].value = puts => node[e] = puts

\* The last values of the put() before the present one are on the way.
Trailing(g) ==
  /\ g = puts - 1
  /\ g \in completed
  /\ \A e \in 1 .. items :
       Received(e, g) /\ (Holds(queue, e) <=> sampled[e].value = puts)

\* A value of the present put() is queued or received, not both, once it is sampled.
Current(g) ==
  /\ g = puts
  /\ \A e \in 1 .. items :
       /\ ~ (Received(e, g) /\ Holds(queue, e))
       /\ Received(e, g) \/ Holds(queue, e) <=> sampled[e].value = puts

\* The datum of the present put() is complete.
Done(g) ==
  /\ g = puts + 1
  /\ queue = <<>> /\ net = <<>>
  /\ \A e \in Elements : value[e] = -1
  /\ \A e \in 1 .. items : sampled[e].value = puts

\* A subscription starts with the present put() and without values.
Starting(g) ==
  /\ pc = "subscribing" \/ items = 0 =>
       g = puts /\ latest = <<>> /\ \A e \in Elements : value[e] = -1
  /\ pc = "subscribing" => phase = "idle"

Assembling(g) ==
  /\ DatumBefore(g)
  /\ ValuesOf(g)
  /\ Uniform(net, g, items) /\ Uniform(queue, puts, items)
  /\ Samples
  /\ Trailing(g) \/ Current(g) \/ Done(g)
  /\ Starting(g)

PacedClient ==
  /\ pc = "stuck" => latest = <<>>
  /\ pc # "stuck" => \E g \in puts - 1 .. puts + 1 : Assembling(g)

\* The inductive invariant of WholeData.
PacedInv == ServerWrites /\ (paced => PacedServer /\ PacedClient)

\* Sequences of notifications.
LEMMA HoldsEmpty ==
  ASSUME NEW e PROVE ~ Holds(<<>>, e)
BY DEF Holds

\* An appended notification is held together with the others.
LEMMA HoldsAppend ==
  ASSUME NEW q \in Seq(Notification), NEW r \in Notification, NEW e
  PROVE  Holds(Append(q, r), e) <=> Holds(q, e) \/ r.element = e
<1>1. /\ Len(Append(q, r)) = Len(q) + 1
      /\ \A i \in 1 .. Len(q) : Append(q, r)[i] = q[i]
      /\ Append(q, r)[Len(q) + 1] = r
  BY AppendProperties
<1>2. Len(q) \in Nat
  OBVIOUS
<1> QED BY <1>1, <1>2 DEF Holds

\* If every element is there once, the first notification takes its element away.
LEMMA HoldsTail ==
  ASSUME NEW q \in Seq(Notification), q # <<>>, NEW v, NEW last, Uniform(q, v, last), NEW e
  PROVE  Holds(Tail(q), e) <=> Holds(q, e) /\ e # Head(q).element
<1>1. /\ Len(q) \in Nat \ {0} /\ Len(Tail(q)) = Len(q) - 1 /\ Head(q) = q[1]
      /\ \A i \in 1 .. Len(q) - 1 : Tail(q)[i] = q[i + 1]
  OBVIOUS
<1>2. \A i, j \in 1 .. Len(q) : q[i].element = q[j].element => i = j
  BY DEF Uniform
<1>3. ASSUME Holds(Tail(q), e) PROVE Holds(q, e) /\ e # Head(q).element
  <2>1. PICK i \in 1 .. Len(q) - 1 : q[i + 1].element = e
    BY <1>1, <1>3 DEF Holds
  <2> QED BY <1>1, <1>2, <2>1 DEF Holds
<1>4. ASSUME Holds(q, e), e # Head(q).element PROVE Holds(Tail(q), e)
  <2>1. PICK i \in 1 .. Len(q) : q[i].element = e
    BY <1>4 DEF Holds
  <2>2. i # 1
    BY <1>1, <1>4, <2>1
  <2>3. i - 1 \in 1 .. Len(q) - 1 /\ Tail(q)[i - 1] = q[i]
    BY <1>1, <2>1, <2>2
  <2> QED BY <1>1, <2>1, <2>3 DEF Holds
<1> QED BY <1>3, <1>4

\* The elements of notifications are numbers.
LEMMA ElementType ==
  ASSUME NEW q \in Seq(Notification), NEW i \in 1 .. Len(q)
  PROVE  q[i].element \in Nat
<1>1. q[i] \in Notification
  OBVIOUS
<1> QED BY <1>1 DEF Notification, Elements

\* Nothing is uniform.
LEMMA UniformEmpty ==
  ASSUME NEW v, NEW last PROVE Uniform(<<>>, v, last)
BY DEF Uniform

\* A new element with the same value keeps a sequence uniform.
LEMMA UniformAppend ==
  ASSUME NEW q \in Seq(Notification), NEW r \in Notification, NEW v, NEW last \in Nat,
         NEW new \in Nat, Uniform(q, v, last), ~ Holds(q, r.element),
         r.good, r.value = v, r.element <= new, last <= new
  PROVE  Uniform(Append(q, r), v, new)
<1> DEFINE s == Append(q, r)
<1>1. /\ Len(s) = Len(q) + 1 /\ Len(q) \in Nat
      /\ \A i \in 1 .. Len(q) : s[i] = q[i]
      /\ s[Len(q) + 1] = r
  BY AppendProperties
<1>2. \A i \in 1 .. Len(q) : q[i].element \in Nat
  BY ElementType
<1>3. \A i \in 1 .. Len(q) : q[i].good /\ q[i].value = v /\ q[i].element <= new
  BY <1>2 DEF Uniform
<1>4. \A i \in 1 .. Len(q) : q[i].element # r.element
  BY DEF Holds
<1> HIDE DEF s
<1>5. \A i \in 1 .. Len(s) : i \in 1 .. Len(q) \/ i = Len(q) + 1
  BY <1>1
<1>6. \A i \in 1 .. Len(s) : s[i].good /\ s[i].value = v /\ s[i].element <= new
  BY <1>1, <1>3, <1>5
<1>7. \A i, j \in 1 .. Len(s) : s[i].element = s[j].element => i = j
  BY <1>1, <1>4, <1>5 DEF Uniform
<1> QED BY <1>6, <1>7 DEF Uniform, s

\* The rest of a uniform sequence is uniform.
LEMMA UniformTail ==
  ASSUME NEW q \in Seq(Notification), q # <<>>, NEW v, NEW last, Uniform(q, v, last)
  PROVE  Uniform(Tail(q), v, last)
<1>1. /\ Len(q) \in Nat \ {0} /\ Len(Tail(q)) = Len(q) - 1
      /\ \A i \in 1 .. Len(q) - 1 : Tail(q)[i] = q[i + 1]
  OBVIOUS
<1> QED BY <1>1 DEF Uniform

\* The first notification of a uniform sequence is one of its kind.
LEMMA UniformHead ==
  ASSUME NEW q \in Seq(Notification), q # <<>>, NEW v, NEW last, Uniform(q, v, last)
  PROVE  /\ Head(q) \in Notification /\ Head(q).good /\ Head(q).value = v
         /\ Head(q).element <= last /\ Holds(q, Head(q).element)
<1>1. Len(q) \in Nat \ {0} /\ Head(q) = q[1] /\ 1 \in 1 .. Len(q) /\ q[1] \in Notification
  OBVIOUS
<1> QED BY <1>1 DEF Uniform, Holds

\* Only the empty sequence holds nothing.
LEMMA HoldsNothing ==
  ASSUME NEW q \in Seq(Notification), NEW v, NEW last \in 0 .. NumElements, Uniform(q, v, last),
         \A e \in 1 .. last : ~ Holds(q, e)
  PROVE  q = <<>>
<1> SUFFICES ASSUME q # <<>> PROVE FALSE
  OBVIOUS
<1>1. Head(q) \in Notification /\ Head(q).element <= last /\ Holds(q, Head(q).element)
  BY UniformHead
<1> QED BY <1>1 DEF Notification, Elements

\* The queue of an item that has nothing queued drops nothing.
LEMMA EnqueueAppends ==
  ASSUME Types, NEW e \in Elements, Enqueue(e), ~ Holds(queue, e)
  PROVE  queue' = Append(queue, Reading(e)) /\ Reading(e) \in Notification
<1>1. Queued(e) = {}
  BY DEF Queued, Holds
<1>2. Cardinality(Queued(e)) = 0
  BY <1>1, FS_EmptySet
<1> QED BY <1>2, EnqueueType DEF Enqueue

\* At least one element waits for its value.
LEMMA OneMissing ==
  ASSUME Inv PROVE \E e \in Elements : value[e] = -1
<1> SUFFICES ASSUME \A e \in Elements : value[e] # -1 PROVE FALSE
  OBVIOUS
<1>1. {e \in Elements : value[e] # -1} = Elements
  OBVIOUS
<1> QED BY <1>1, ElementsFinite DEF Inv, ValuesCounted

\* What put() has written.
LEMMA ServerStep ==
  ASSUME Inv, ServerWrites, [Next]_vars PROVE ServerWrites'
<1> USE DEF ServerWrites, Inv, Types
<1>0. position \in Nat \ {0} /\ puts \in Nat /\ (\A p \in completed : p \in Nat)
  BY DEF Elements, Puts
<1>1. CASE Put
  BY <1>0, <1>1 DEF Put
<1>2. CASE Enable
  <2>1. /\ readable' = [readable EXCEPT ![position] = TRUE] /\ phase = "enabling"
        /\ \/ position < NumElements /\ position' = position + 1 /\ UNCHANGED <<phase, firstTimePut>>
           \/ position = NumElements /\ position' = 1 /\ phase' = "updating"
              /\ firstTimePut' = FALSE
        /\ UNCHANGED <<node, puts, completed>>
    BY <1>2, Zenon DEF Enable
  <2>2. \A e \in Elements : readable[e] \/ e = position => readable'[e]
    BY <2>1
  <2>3. \A e \in 1 .. position : e \in Elements /\ readable'[e]
    BY <2>1, <2>2 DEF Elements
  <2>4. firstTimePut' = FALSE => \A e \in Elements : readable'[e]
    BY <2>1, <2>2, <2>3 DEF Elements
  <2> QED BY <1>0, <2>1, <2>3, <2>4
<1>3. CASE Update
  <2>1. /\ node' = [node EXCEPT ![position] = puts] /\ phase = "updating"
        /\ \/ position < NumElements /\ position' = position + 1 /\ UNCHANGED <<phase, completed>>
           \/ /\ position = NumElements /\ position' = 1 /\ phase' = "idle"
              /\ completed' = completed \cup {puts}
        /\ UNCHANGED <<readable, firstTimePut, puts>>
    BY <1>3, Zenon DEF Update
  <2>2. \A e \in 1 .. position : e \in Elements /\ node'[e] = puts
    BY <2>1 DEF Elements
  <2>3. phase' = "idle" => \A e \in Elements : node'[e] = puts
    BY <2>1, <2>2 DEF Elements
  <2> QED BY <1>0, <2>1, <2>2, <2>3
<1>4. CASE PutThrows
  BY <1>4 DEF PutThrows
<1>5. CASE UNCHANGED serverVars
  BY <1>5 DEF serverVars
<1>6. UNCHANGED serverVars \/ Put \/ Enable \/ Update \/ PutThrows
  BY Zenon DEF Next, vars, Sample, Publish, Subscribe, SubscribeFails, AddItem, AddItemFails,
    Unsubscribe, ValueChanged
<1> QED BY <1>1, <1>2, <1>3, <1>4, <1>5, <1>6

\* A paced server has made everything readable, so that samples are good.
LEMMA PacedReading ==
  ASSUME Inv, ServerWrites, PacedServer, NEW e \in Elements
  PROVE  /\ Reading(e) = [element |-> e, value |-> node[e], good |-> TRUE]
         /\ node[e] \in {puts - 1, puts}
<1>1. readable[e] = TRUE
  BY DEF ServerWrites, PacedServer, Inv, Types
<1>2. e \in 1 .. position - 1 \/ e \in position .. NumElements
  BY DEF Elements, Inv, Types
<1>3. node[e] \in {puts - 1, puts}
  BY <1>2 DEF ServerWrites, PacedServer
<1> QED BY <1>1, <1>3 DEF Reading

\* The server under a step that keeps the pace.
LEMMA PacedServerStep ==
  ASSUME Inv, ServerWrites, PacedServer, paced, paced', [Next]_vars, ~ Subscribe
  PROVE  PacedServer'
<1> USE DEF ServerWrites, PacedServer, Inv, Types
<1>0. position \in Nat \ {0} /\ puts \in Nat /\ (\A p \in completed : p \in Nat)
  BY DEF Elements, Puts
<1>1. CASE Put
  BY <1>0, <1>1 DEF Put, Elements
<1>2. CASE Enable
  BY <1>2 DEF Enable
<1>3. CASE Update
  BY <1>0, <1>3 DEF Update, Elements
<1>4. CASE PutThrows
  BY <1>4 DEF PutThrows
<1>5. CASE UNCHANGED serverVars
  BY <1>5 DEF serverVars
<1>6. UNCHANGED serverVars \/ Put \/ Enable \/ Update \/ PutThrows
  BY Zenon DEF Next, vars, Sample, Publish, Subscribe, SubscribeFails, AddItem, AddItemFails,
    Unsubscribe, ValueChanged
<1> QED BY <1>1, <1>2, <1>3, <1>4, <1>5, <1>6

\* put() begins when the datum before it has been published.
LEMMA PutAssembles ==
  ASSUME Inv, ServerWrites, PacedServer, PacedClient, Put, paced', pc # "stuck"
  PROVE  PacedClient'
<1> USE DEF Inv, Types
<1>1. /\ phase = "idle" /\ puts' = puts + 1 /\ Settled /\ pc # "subscribing"
      /\ UNCHANGED <<node, completed, sampled, queue, net, pc, items, value, latest>>
  BY Zenon DEF Put, Unhurried, uaVars, clientVars
<1>2. puts \in Nat /\ pc = "idle" /\ puts \in completed /\ \A e \in Elements : node[e] = puts
  BY <1>1 DEF ServerWrites, PacedServer
<1>3. queue = <<>> /\ \A e \in 1 .. items : sampled[e] = Reading(e) /\ e \in Elements
  BY <1>1 DEF Settled, Elements
<1>4. \A e \in 1 .. items : sampled[e].element = e /\ sampled[e].good /\ sampled[e].value = puts
  BY <1>2, <1>3, PacedReading
<1>5. \A e : ~ Holds(queue, e)
  BY <1>3, HoldsEmpty
<1>6. PICK g \in puts - 1 .. puts + 1 : Assembling(g)
  BY <1>2 DEF PacedClient
<1>7. Uniform(queue, puts + 1, items)
  BY <1>3, UniformEmpty
<1>8. Samples'
  BY <1>1, <1>2, <1>4 DEF Samples
<1>9. DatumBefore(g)'
  BY <1>1, <1>2, <1>6 DEF Assembling, DatumBefore
<1>10. CASE items = 0
  <2>1. /\ latest = <<>> /\ (\A e \in Elements : value[e] = -1) /\ net = <<>>
    BY <1>6, <1>10 DEF Assembling, Starting, ItemsComplete
  <2>2. ASSUME NEW g1, g1 = puts + 1 PROVE Assembling(g1)'
    <3>1. DatumBefore(g1)'
      BY <1>1, <2>1 DEF DatumBefore
    <3>2. ValuesOf(g1)' /\ Starting(g1)'
      BY <1>1, <1>2, <2>1, <2>2 DEF ValuesOf, Starting
    <3>3. Current(g1)'
      BY <1>1, <1>2, <1>10, <2>2 DEF Current
    <3>4. Uniform(net, g1, items)
      BY <2>1, UniformEmpty
    <3> QED BY <1>1, <1>7, <1>8, <3>1, <3>2, <3>3, <3>4 DEF Assembling
  <2> QED BY <1>1, <1>2, <2>2 DEF PacedClient
<1>11. CASE items # 0
  <2>1. items = NumElements /\ 1 \in 1 .. items
    BY <1>2, <1>11 DEF ItemsComplete
  <2>2. ValuesOf(g)' /\ Starting(g)' /\ Uniform(net, g, items)'
    BY <1>1, <1>2, <1>6, <1>11 DEF Assembling, ValuesOf, Starting
  <2>3. ~ Trailing(g)
    BY <1>4, <1>5, <2>1 DEF Trailing
  <2>4. CASE Current(g)
    <3>1. Trailing(g)'
      BY <1>1, <1>2, <1>4, <1>5, <2>4 DEF Current, Trailing, Received
    <3>2. Assembling(g)'
      BY <1>1, <1>7, <1>8, <1>9, <2>2, <3>1 DEF Assembling
    <3> QED BY <1>1, <1>2, <2>4, <3>2 DEF PacedClient, Current
  <2>5. CASE Done(g)
    <3>1. \A e : ~ Holds(net, e)
      BY <2>5, HoldsEmpty DEF Done
    <3>2. \A e \in 1 .. items : value[e] = -1 /\ sampled[e].value # puts + 1
      BY <1>2, <1>3, <1>4, <2>5 DEF Done
    <3>3. Current(g)'
      BY <1>1, <1>2, <1>5, <2>5, <3>1, <3>2 DEF Current, Done, Received
    <3>4. Assembling(g)'
      BY <1>1, <1>7, <1>8, <1>9, <2>2, <3>3 DEF Assembling
    <3> QED BY <1>1, <1>2, <2>5, <3>4 DEF PacedClient, Done
  <2> QED BY <1>6, <2>3, <2>4, <2>5 DEF Assembling
<1> QED BY <1>10, <1>11

\* Writing a variable changes nothing the client has.
LEMMA UpdateAssembles ==
  ASSUME Inv, ServerWrites, PacedServer, PacedClient, Update, pc # "stuck"
  PROVE  PacedClient'
<1> USE DEF Inv, Types
<1>1. /\ phase = "updating" /\ node' = [node EXCEPT ![position] = puts]
      /\ completed \subseteq completed'
      /\ UNCHANGED <<puts, sampled, queue, net, pc, items, value, latest>>
  BY Zenon DEF Update, uaVars, clientVars
<1>2. PICK g \in puts - 1 .. puts + 1 : Assembling(g)
  BY DEF PacedClient
<1>3. Samples'
  <2>1. \A e \in 1 .. items : e \in Elements
    BY DEF Elements
  <2> QED BY <1>1, <1>2, <2>1 DEF Assembling, Samples
<1>4. DatumBefore(g)'
  BY <1>1, <1>2 DEF Assembling, DatumBefore
<1>5. ValuesOf(g)' /\ Uniform(net, g, items)' /\ Uniform(queue, puts, items)'
  BY <1>1, <1>2 DEF Assembling, ValuesOf
<1>6. Starting(g)'
  BY <1>1, <1>2 DEF Assembling, Starting
<1>7. Trailing(g)' \/ Current(g)' \/ Done(g)'
  BY <1>1, <1>2 DEF Assembling, Trailing, Current, Done, Received
<1>8. Assembling(g)'
  BY <1>3, <1>4, <1>5, <1>6, <1>7 DEF Assembling
<1> QED BY <1>1, <1>8 DEF PacedClient

\* A sample finds the value of the present put(), and there is no older one in the queue.
LEMMA SampleAssembles ==
  ASSUME Inv, ServerWrites, PacedServer, PacedClient, pc # "stuck", NEW e \in Elements, Sample(e)
  PROVE  PacedClient'
<1> USE DEF Inv, Types
<1>1. /\ e <= items /\ sampled[e] # Reading(e) /\ sampled' = [sampled EXCEPT ![e] = Reading(e)]
      /\ Enqueue(e)
      /\ UNCHANGED <<node, phase, puts, completed, net, pc, items, value, latest>>
  BY Zenon DEF Sample, serverVars, clientVars
<1>2. PICK g \in puts - 1 .. puts + 1 : Assembling(g)
  BY DEF PacedClient
<1>3. e \in 1 .. items /\ items \in Nat /\ puts \in Nat
  BY <1>1 DEF Elements
<1>4. /\ sampled[e] \in Notification /\ sampled[e].element = e /\ sampled[e].good
      /\ sampled[e].value \in {puts - 1, puts} /\ (sampled[e].value = puts => node[e] = puts)
  BY <1>2, <1>3 DEF Assembling, Samples
<1>5. /\ Reading(e) = [element |-> e, value |-> node[e], good |-> TRUE]
      /\ node[e] \in {puts - 1, puts}
  BY PacedReading
<1>6. sampled[e].value # node[e]
  BY <1>1, <1>4, <1>5 DEF Notification
<1>7. sampled[e].value = puts - 1 /\ node[e] = puts /\ sampled[e].value # puts
  BY <1>3, <1>4, <1>5, <1>6
<1>8. ~ Holds(queue, e) /\ ~ Done(g)
  BY <1>2, <1>3, <1>7 DEF Assembling, Trailing, Current, Done
<1>9. queue' = Append(queue, Reading(e)) /\ Reading(e) \in Notification
  BY <1>1, <1>8, EnqueueAppends
<1>10. \A f : Holds(queue', f) <=> Holds(queue, f) \/ f = e
  BY <1>5, <1>9, HoldsAppend
<1>11. Uniform(queue', puts, items)
  <2>1. Uniform(queue, puts, items) /\ queue \in Seq(Notification)
    BY <1>2 DEF Assembling
  <2>2. /\ Reading(e).element = e /\ Reading(e).good /\ Reading(e).value = puts
        /\ e <= items /\ items <= items
    BY <1>1, <1>3, <1>5, <1>7
  <2> QED BY <1>3, <1>8, <1>9, <2>1, <2>2, UniformAppend
<1>12. /\ sampled'[e].element = e /\ sampled'[e].good /\ sampled'[e].value = puts
       /\ \A f \in Elements \ {e} : sampled'[f] = sampled[f]
  BY <1>1, <1>5, <1>7
<1>13. \A f \in 1 .. items : f \in Elements
  BY DEF Elements
<1>14. Samples'
  BY <1>1, <1>2, <1>7, <1>12, <1>13 DEF Assembling, Samples
<1>15. DatumBefore(g)' /\ ValuesOf(g)' /\ Starting(g)' /\ Uniform(net, g, items)'
  BY <1>1, <1>2 DEF Assembling, DatumBefore, ValuesOf, Starting
<1>16. Trailing(g)' \/ Current(g)'
  <2>1. CASE Trailing(g)
    BY <1>1, <1>10, <1>12, <1>13, <2>1 DEF Trailing, Received
  <2>2. CASE Current(g)
    BY <1>1, <1>3, <1>7, <1>8, <1>10, <1>12, <1>13, <2>2 DEF Current, Received
  <2> QED BY <1>2, <1>8, <2>1, <2>2 DEF Assembling
<1>17. Assembling(g)'
  BY <1>1, <1>11, <1>14, <1>15, <1>16 DEF Assembling
<1> QED BY <1>1, <1>17 DEF PacedClient

\* The queue is published when the client has all the values published before.
LEMMA PublishAssembles ==
  ASSUME Inv, PacedClient, pc # "stuck", Publish
  PROVE  PacedClient'
<1> USE DEF Inv, Types
<1>1. /\ net = <<>> /\ queue # <<>> /\ net' = queue /\ queue' = <<>>
      /\ UNCHANGED <<node, phase, puts, completed, sampled, pc, items, value, latest>>
  BY Zenon DEF Publish, serverVars, clientVars
<1>2. PICK g \in puts - 1 .. puts + 1 : Assembling(g)
  BY DEF PacedClient
<1>3. \A e : ~ Holds(net, e) /\ ~ Holds(queue', e)
  BY <1>1, HoldsEmpty
<1>4. ~ Done(g)
  BY <1>1 DEF Done
<1>5. ~ Trailing(g)
  <2> SUFFICES ASSUME Trailing(g) PROVE FALSE
    OBVIOUS
  <2>1. items = NumElements
    BY <1>1, <1>2 DEF Assembling, Trailing, Starting, ItemsComplete
  <2>2. \A e \in Elements : value[e] = g
    BY <1>3, <2>1 DEF Trailing, Received, Elements
  <2>3. PICK e \in Elements : value[e] = -1
    BY OneMissing
  <2>4. g \in Nat
    BY DEF Trailing, Puts
  <2> QED BY <2>2, <2>3, <2>4
<1>6. Current(g)
  BY <1>2, <1>4, <1>5 DEF Assembling
<1>7. g = puts /\ puts \in Nat
  BY <1>6 DEF Current
<1>8. Current(g)'
  BY <1>1, <1>3, <1>6 DEF Current, Received
<1>9. ValuesOf(g)'
  <2> SUFFICES ASSUME NEW e \in Elements
               PROVE  value[e] \in {-1, g} /\ (value[e] # -1 => ~ Holds(queue, e))
    BY <1>1 DEF ValuesOf
  <2>1. value[e] \in {-1, g}
    BY <1>2 DEF Assembling, ValuesOf
  <2>2. ASSUME value[e] # -1 PROVE ~ Holds(queue, e)
    <3>1. items # 0 /\ pc # "subscribing"
      BY <1>2, <2>2 DEF Assembling, Starting
    <3>2. e \in 1 .. items
      BY <3>1 DEF ItemsComplete, Elements
    <3> QED BY <1>6, <2>1, <2>2, <3>2 DEF Current, Received
  <2> QED BY <2>1, <2>2
<1>10. Uniform(net', g, items) /\ Uniform(queue', puts, items)
  BY <1>1, <1>2, <1>7, UniformEmpty DEF Assembling
<1>11. DatumBefore(g)' /\ Samples' /\ Starting(g)'
  BY <1>1, <1>2 DEF Assembling, DatumBefore, Samples, Starting
<1>12. Assembling(g)'
  BY <1>1, <1>8, <1>9, <1>10, <1>11 DEF Assembling
<1> QED BY <1>1, <1>12 DEF PacedClient

\* The client takes a notification: the datum g is completed by it and is the one after the
\* last, or it waits for more values of the same put().
LEMMA ValueChangedAssembles ==
  ASSUME Inv, ServerWrites, PacedServer, NEW g \in puts - 1 .. puts + 1, Assembling(g), ValueChanged
  PROVE  \/ latest' = latest /\ Assembling(g)'
         \/ /\ g \in puts - 1 .. puts
            /\ \A f \in Elements : latest'[f] = g
            /\ \A h : h = g + 1 => Assembling(h)'
<1> DEFINE n == Head(net)
           e == n.element
<1> USE DEF Inv, Types
<1>1. /\ pc = "idle" /\ net # <<>> /\ net' = Tail(net)
      /\ \/ ~ n.good
         \/ n.good /\ Complete(n) /\ ProcessValues(NewValues(n))
         \/ /\ n.good /\ ~ Complete(n) /\ value' = NewValues(n) /\ UNCHANGED latest
      /\ UNCHANGED <<node, phase, puts, completed, sampled, queue, pc, items>>
  BY Zenon DEF ValueChanged, serverVars
<1>2. /\ Uniform(net, g, items) /\ Uniform(queue, puts, items) /\ net \in Seq(Notification)
      /\ queue \in Seq(Notification) /\ puts \in Nat /\ g \in Int
  BY DEF Assembling
<1>3. n \in Notification /\ n.good /\ n.value = g /\ e <= items /\ Holds(net, e)
  BY <1>1, <1>2, UniformHead
<1>4. items = NumElements /\ e \in Elements /\ g \in Nat /\ 1 .. items = Elements
  <2>1. items = NumElements
    BY <1>1 DEF ItemsComplete
  <2>2. e \in Elements /\ n.value \in 0 .. MaxPuts
    BY <1>3 DEF Notification
  <2> QED BY <1>3, <2>1, <2>2 DEF Elements
<1>5. Uniform(net', g, items)
  BY <1>1, <1>2, UniformTail
<1>6. \A f : Holds(net', f) <=> Holds(net, f) /\ f # e
  BY <1>1, <1>2, HoldsTail
<1>7. /\ NewValues(n)[e] = g
      /\ \A f \in Elements \ {e} : NewValues(n)[f] = value[f]
      /\ NewValues(n) \in [Elements -> -1 .. MaxPuts]
  BY <1>3, <1>4, CountNew DEF NewValues
<1>8. \A f \in Elements : value[f] \in {-1, g} /\ (value[f] # -1 => ~ Holds(net, f))
  BY DEF Assembling, ValuesOf
<1>9. ~ Done(g)
  BY <1>1 DEF Done
<1>10. Samples'
  BY <1>1 DEF Assembling, Samples
<1> HIDE DEF n, e
<1>11. CASE ~ Complete(n)
  <2>1. value' = NewValues(n) /\ latest' = latest
    BY <1>1, <1>3, <1>11
  <2>2. ValuesOf(g)'
    BY <1>6, <1>7, <1>8, <2>1 DEF ValuesOf
  <2>3. \A f \in Elements : Received(f, g)' <=> Received(f, g)
    BY <1>3, <1>4, <1>6, <1>7, <1>8, <2>1 DEF Received
  <2>4. Trailing(g)' \/ Current(g)'
    BY <1>1, <1>4, <1>9, <2>3 DEF Assembling, Trailing, Current
  <2>5. Starting(g)' /\ DatumBefore(g)'
    BY <1>1, <1>4, <2>1 DEF Assembling, Starting, DatumBefore
  <2> QED BY <1>1, <1>2, <1>5, <1>10, <2>1, <2>2, <2>4, <2>5 DEF Assembling
<1>12. CASE Complete(n)
  <2>1. latest' = NewValues(n) /\ value' = NoValues
    BY <1>1, <1>3, <1>12 DEF ProcessValues
  <2>2. \A f \in Elements : value'[f] = -1
    BY <2>1 DEF NoValues
  <2>3. NewValues(n) \in [Elements -> 0 .. MaxPuts]
    BY <1>3, <1>4, <1>12, CountNew DEF Complete
  <2>4. \A f \in Elements : NewValues(n)[f] = g
    BY <1>7, <1>8, <2>3
  <2>5. \A f \in Elements : f # e => value[f] # -1
    BY <1>7, <2>3
  <2>6. \A f \in 1 .. items : ~ Holds(net', f)
    BY <1>4, <1>6, <1>8, <2>5
  <2>7. net' = <<>>
    <3>1. net' \in Seq(Notification) /\ items \in 0 .. NumElements
      BY <1>1, <1>2
    <3> QED BY <1>5, <2>6, <3>1, HoldsNothing
  <2>8. \A f \in Elements : Received(f, g)
    BY <1>3, <1>8, <2>5 DEF Received
  <2>9. g \in puts - 1 .. puts /\ g \in completed \cup {puts}
    BY <1>2, <1>9 DEF Assembling, Trailing, Current
  <2>10. ASSUME NEW h, h = g + 1 PROVE Assembling(h)'
    <3>1. h - 1 = g
      BY <1>2, <2>10
    <3>2. DatumBefore(h)'
      BY <1>1, <2>1, <2>4, <2>9, <3>1 DEF DatumBefore
    <3>3. ValuesOf(h)'
      BY <2>2 DEF ValuesOf
    <3>4. Uniform(net', h, items) /\ \A f : ~ Holds(net', f)
      BY <2>7, UniformEmpty, HoldsEmpty
    <3>5. Starting(h)'
      BY <1>1, <1>4 DEF Starting
    <3>6. CASE Trailing(g)
      <4>1. h = puts
        BY <1>2, <2>10, <3>6 DEF Trailing
      <4>2. \A f \in 1 .. items : ~ Received(f, h)'
        <5>1. h # -1
          BY <1>2, <4>1
        <5>2. \A f \in Elements : value'[f] # h
          BY <2>2, <5>1
        <5> QED BY <1>4, <3>4, <5>2 DEF Received
      <4>3. Current(h)'
        BY <1>1, <3>6, <4>1, <4>2 DEF Current, Trailing
      <4> QED BY <1>1, <1>2, <1>10, <3>2, <3>3, <3>4, <3>5, <4>3 DEF Assembling
    <3>7. CASE Current(g)
      <4>1. \A f \in 1 .. items : ~ Holds(queue, f) /\ sampled[f].value = puts
        BY <1>4, <2>8, <3>7 DEF Current
      <4>2. queue = <<>>
        BY <1>2, <4>1, HoldsNothing
      <4>3. Done(h)'
        BY <1>1, <2>2, <2>7, <2>10, <3>7, <4>1, <4>2 DEF Done, Current
      <4> QED BY <1>1, <1>2, <1>10, <3>2, <3>3, <3>4, <3>5, <4>3 DEF Assembling
    <3> QED BY <1>9, <3>6, <3>7 DEF Assembling
  <2> QED BY <2>1, <2>4, <2>9, <2>10
<1> QED BY <1>11, <1>12

\* A monitored item is created: its first sample is the first notification of its element.
LEMMA AddItemAssembles ==
  ASSUME Inv, ServerWrites, PacedServer, PacedClient, AddItem
  PROVE  PacedClient'
<1> DEFINE e == items + 1
<1> USE DEF Inv, Types
<1>1. /\ pc = "subscribing" /\ items' = e /\ sampled' = [sampled EXCEPT ![e] = Reading(e)]
      /\ Enqueue(e) /\ pc' = IF e = NumElements THEN "idle" ELSE "subscribing"
      /\ UNCHANGED <<node, phase, puts, completed, net, value, latest>>
  BY Zenon DEF AddItem, serverVars
<1>2. PICK g \in puts - 1 .. puts + 1 : Assembling(g)
  BY <1>1 DEF PacedClient
<1>3. items \in Nat /\ e \in Elements /\ e \in Nat /\ puts \in Nat /\ ~ (e <= items)
  BY <1>1 DEF ItemsComplete, Elements
<1>4. /\ g = puts /\ latest = <<>> /\ phase = "idle" /\ \A f \in Elements : value[f] = -1
  BY <1>1, <1>2 DEF Assembling, Starting
<1>5. node[e] = puts
  BY <1>3, <1>4 DEF PacedServer, ServerWrites
<1>6. Reading(e) = [element |-> e, value |-> puts, good |-> TRUE]
  BY <1>3, <1>5, PacedReading
<1>7. Current(g)
  BY <1>2, <1>3, <1>4 DEF Assembling, Trailing, Done
<1>8. ~ Holds(queue, e) /\ ~ Holds(net, e)
  <2>1. Uniform(queue, puts, items) /\ Uniform(net, g, items)
    BY <1>2 DEF Assembling
  <2>2. /\ \A i \in 1 .. Len(queue) : queue[i].element <= items
        /\ \A i \in 1 .. Len(net) : net[i].element <= items
    BY <2>1 DEF Uniform
  <2> QED BY <1>3, <2>2 DEF Holds
<1>9. queue' = Append(queue, Reading(e)) /\ Reading(e) \in Notification
  BY <1>1, <1>3, <1>8, EnqueueAppends
<1> HIDE DEF e
<1>10. \A f : Holds(queue', f) <=> Holds(queue, f) \/ f = e
  BY <1>6, <1>9, HoldsAppend
<1>11. Uniform(queue', puts, e)
  <2>1. Uniform(queue, puts, items) /\ queue \in Seq(Notification)
    BY <1>2 DEF Assembling
  <2>2. /\ Reading(e).element = e /\ Reading(e).good /\ Reading(e).value = puts
        /\ e <= e /\ items <= e /\ e \in Nat
    BY <1>3, <1>6 DEF Elements
  <2> QED BY <1>3, <1>8, <1>9, <2>1, <2>2, UniformAppend
<1>12. Uniform(net, g, e)
  <2>1. Uniform(net, g, items)
    BY <1>2 DEF Assembling
  <2>2. \A i \in 1 .. Len(net) : net[i].element \in Nat
    BY ElementType
  <2>3. items <= e
    BY <1>3 DEF e
  <2>4. \A i \in 1 .. Len(net) : net[i].element <= items
    BY <2>1 DEF Uniform
  <2>5. \A i \in 1 .. Len(net) : net[i].element <= e
    BY <1>3, <2>2, <2>3, <2>4
  <2> QED BY <2>1, <2>5 DEF Uniform
<1>13. /\ sampled'[e].element = e /\ sampled'[e].good /\ sampled'[e].value = puts
       /\ \A f \in Elements \ {e} : sampled'[f] = sampled[f]
  BY <1>1, <1>3, <1>6
<1>14. /\ \A f \in 1 .. e : f \in Elements
       /\ \A f \in 1 .. e : f \in 1 .. items \/ f = e
       /\ e \in 1 .. e
  BY <1>3 DEF Elements, e
<1>15. Samples'
  BY <1>1, <1>2, <1>5, <1>13, <1>14 DEF Assembling, Samples
<1>16. DatumBefore(g)' /\ ValuesOf(g)'
  BY <1>1, <1>2, <1>4 DEF Assembling, DatumBefore, ValuesOf
<1>17. Starting(g)'
  BY <1>1, <1>4 DEF Starting
<1>18. Current(g)'
  <2>1. \A f \in 1 .. items : f # e
    BY <1>3
  <2>2. ~ Received(e, g)
    BY <1>3, <1>4, <1>8 DEF Received
  <2>3. \A f : Received(f, g)' <=> Received(f, g)
    BY <1>1 DEF Received
  <2> QED BY <1>1, <1>7, <1>10, <1>13, <1>14, <2>1, <2>2, <2>3 DEF Current
<1>19. Assembling(g)'
  BY <1>1, <1>11, <1>12, <1>15, <1>16, <1>17, <1>18 DEF Assembling
<1> QED BY <1>1, <1>3, <1>4, <1>19 DEF PacedClient

\* Without items there is nothing to assemble.
LEMMA DropAssembles ==
  ASSUME Inv, Inv', DropSubscription, UNCHANGED puts, pc' # "stuck",
         pc' = "subscribing" => phase' = "idle"
  PROVE  PacedClient'
<1> USE DEF Inv, Types
<1>1. /\ items' = 0 /\ latest' = <<>> /\ queue' = <<>> /\ net' = <<>> /\ puts \in Nat
      /\ puts' = puts /\ \A e \in Elements : value'[e] = -1
  BY DEF DropSubscription, NoValues
<1>2. \A e : ~ Holds(net', e)
  BY <1>1, HoldsEmpty
<1>3. ASSUME NEW g, g = puts PROVE Assembling(g)'
  <2>1. Uniform(net', g, items') /\ Uniform(queue', puts, items')
    BY <1>1, UniformEmpty
  <2>2. DatumBefore(g)' /\ ValuesOf(g)' /\ Starting(g)'
    BY <1>1, <1>3 DEF DatumBefore, ValuesOf, Starting
  <2>3. Samples' /\ Current(g)'
    BY <1>1, <1>3 DEF Samples, Current
  <2> QED BY <1>1, <2>1, <2>2, <2>3 DEF Assembling
<1> QED BY <1>1, <1>3 DEF PacedClient

\* Every step keeps PacedInv.
LEMMA PacedStep ==
  ASSUME Inv, PacedInv, [Next]_vars PROVE PacedInv'
<1> USE DEF PacedInv
<1>1. ServerWrites' /\ Inv'
  BY ServerStep, NextInv
<1> SUFFICES ASSUME paced' PROVE PacedServer' /\ PacedClient'
  BY <1>1
<1>2. CASE Subscribe
  <2>1. /\ DropSubscription /\ UNCHANGED serverVars /\ pc' = "subscribing"
        /\ phase = "idle" /\ ~ firstTimePut /\ puts \in completed
    BY <1>2, Zenon DEF Subscribe, Undisturbed
  <2>2. PacedServer'
    BY <2>1 DEF PacedServer, serverVars
  <2>3. PacedClient'
    BY <1>1, <2>1, DropAssembles DEF serverVars
  <2> QED BY <2>2, <2>3
<1>3. CASE ~ Subscribe
  <2>0. paced
    BY <1>3, Zenon DEF Next, vars, Put, Enable, Update, PutThrows, Sample, Publish, SubscribeFails,
      AddItem, AddItemFails, Unsubscribe, ValueChanged
  <2>1. PacedServer /\ PacedClient /\ PacedServer'
    BY <1>3, <2>0, PacedServerStep
  <2>2. PacedClient'
    <3>1. CASE pc = "stuck"
      <4>1. UNCHANGED <<pc, latest>>
        BY <1>3, <3>1, Zenon DEF Next, vars, clientVars, Put, Enable, Update, PutThrows, Sample,
          Publish, SubscribeFails, AddItem, AddItemFails, Unsubscribe, ValueChanged
      <4> QED BY <2>1, <3>1, <4>1 DEF PacedClient
    <3>2. CASE pc # "stuck"
      <4>1. CASE Put
        BY <2>1, <3>2, <4>1, PutAssembles
      <4>2. CASE Enable \/ PutThrows
        BY <2>1, <4>2 DEF Enable, PutThrows, PacedServer
      <4>3. CASE Update
        BY <2>1, <3>2, <4>3, UpdateAssembles
      <4>4. ASSUME NEW e \in Elements, Sample(e) PROVE PacedClient'
        BY <2>1, <3>2, <4>4, SampleAssembles
      <4>5. CASE Publish
        BY <2>1, <3>2, <4>5, PublishAssembles
      <4>6. CASE AddItem
        BY <2>1, <4>6, AddItemAssembles
      <4>7. CASE Unsubscribe
        <5>1. DropSubscription /\ UNCHANGED puts /\ pc' = "idle"
          BY <4>7, Zenon DEF Unsubscribe, serverVars
        <5> QED BY <1>1, <5>1, DropAssembles
      <4>8. CASE SubscribeFails \/ AddItemFails \/ UNCHANGED vars
        <5>1. /\ UNCHANGED <<node, phase, puts, completed, sampled, queue, net, items, value, latest>>
              /\ pc' \in {pc, "idle"} \/ pc = "subscribing"
          BY <4>8 DEF SubscribeFails, AddItemFails, vars, serverVars, uaVars, clientVars
        <5>2. PICK g \in puts - 1 .. puts + 1 : Assembling(g)
          BY <2>1, <3>2 DEF PacedClient
        <5>3. CASE pc' = "stuck"
          BY <3>2, <5>1, <5>2, <5>3 DEF PacedClient, Assembling, Starting
        <5>4. CASE pc' # "stuck"
          <6>1. pc' \in {pc, "idle"}
            BY <4>8, <5>4 DEF SubscribeFails, AddItemFails, vars, clientVars
          <6>2. DatumBefore(g)' /\ ValuesOf(g)' /\ Samples' /\ Starting(g)'
            BY <3>2, <5>1, <5>2, <5>4, <6>1 DEF Assembling, DatumBefore, ValuesOf, Samples, Starting
          <6>3. Trailing(g)' \/ Current(g)' \/ Done(g)'
            BY <5>1, <5>2, <6>1 DEF Assembling, Trailing, Current, Done, Received
          <6>4. Assembling(g)'
            BY <5>1, <5>2, <6>1, <6>2, <6>3 DEF Assembling
          <6> QED BY <5>1, <5>4, <6>4 DEF PacedClient
        <5> QED BY <5>3, <5>4
      <4>9. CASE ValueChanged
        <5>1. PICK g \in puts - 1 .. puts + 1 : Assembling(g)
          BY <2>1, <3>2 DEF PacedClient
        <5>2. puts' = puts /\ pc' = pc /\ puts \in Nat
          BY <4>9 DEF ValueChanged, serverVars, Inv, Types
        <5> QED BY <2>1, <3>2, <4>9, <5>1, <5>2, ValueChangedAssembles DEF PacedClient
      <4> QED
        BY <1>3, <4>1, <4>2, <4>3, <4>4, <4>5, <4>6, <4>7, <4>8, <4>9 DEF Next
    <3> QED BY <3>1, <3>2
  <2> QED BY <2>1, <2>2
<1> QED BY <1>2, <1>3

\* The inductive invariant of whole data.
LEMMA SpecPaced == Spec => [](Inv /\ PacedInv)
<1>1. Init => PacedInv
  BY DEF Init, PacedInv, ServerWrites, Elements
<1> QED BY <1>1, InitInv, NextInv, PacedStep, PTL DEF Spec

\* However the samples and notifications of the elements overtake each other: while put()
\* waits until its predecessor is sampled and published, PushClient never puts a datum
\* together from two calls of put(), nor from values the variables were created with.
THEOREM DataWhole == Spec => []WholeData
<1>1. Inv /\ PacedInv => WholeData
  <2> SUFFICES ASSUME Inv, PacedInv, paced, latest # <<>>
               PROVE  \E p \in completed \cup {puts} : \A e \in Elements : latest[e] = p
    BY DEF WholeData
  <2>1. PICK g \in puts - 1 .. puts + 1 : DatumBefore(g)
    BY DEF PacedInv, PacedClient, Assembling
  <2> QED BY <2>1 DEF DatumBefore
<1> QED BY <1>1, SpecPaced, PTL

\* The datum after a datum is the one of the next put(): none is skipped, none comes twice.
THEOREM PutsInOrder == Spec => NoPutMissed
<1> DEFINE Order == paced /\ paced' /\ latest # <<>> /\ latest' # <<>> /\ latest' # latest
                      => /\ latest'[1] > latest[1]
                         /\ \A p \in completed' : ~ (latest[1] < p /\ p < latest'[1])
<1>1. ASSUME Inv, PacedInv, [Next]_vars PROVE [Order]_vars
  <2> SUFFICES ASSUME paced, latest # <<>>, latest' # <<>>, latest' # latest
               PROVE  /\ latest'[1] > latest[1]
                      /\ \A p \in completed' : ~ (latest[1] < p /\ p < latest'[1])
    OBVIOUS
  <2>1. ValueChanged
    BY <1>1, Zenon DEF Next, vars, clientVars, Put, Enable, Update, PutThrows, Sample, Publish,
      Subscribe, SubscribeFails, AddItem, AddItemFails, Unsubscribe, DropSubscription
  <2>2. pc = "idle" /\ completed' = completed /\ puts \in Nat /\ 1 \in Elements
        /\ \A p \in completed : p \in Nat
    BY <1>1, <2>1 DEF ValueChanged, serverVars, Inv, Types, Elements, Puts
  <2>3. PICK g \in puts - 1 .. puts + 1 : Assembling(g)
    BY <1>1, <2>2 DEF PacedInv, PacedClient
  <2>4. latest[1] = g - 1
    BY <2>2, <2>3 DEF Assembling, DatumBefore
  <2>5. latest'[1] = g
    BY <1>1, <2>1, <2>2, <2>3, ValueChangedAssembles DEF PacedInv
  <2> QED BY <2>2, <2>3, <2>4, <2>5
<1> QED BY <1>1, SpecPaced, PTL DEF Spec, NoPutMissed
=============================================================================
