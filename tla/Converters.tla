------------------------------ MODULE Converters ------------------------------
(***************************************************************************)
(* How a communication object travels.  The visitors of OPCUA/Converter    *)
(* turn an object into OPC UA variants and back, guided by the object's    *)
(* self description: once for a method call (queries, sends, activations), *)
(* once for the variables of a push or event server.  Sender and receiver  *)
(* may have been built with different descriptions of the object.          *)
(*                                                                         *)
(* The visitors go through the objects in an object as if their elements   *)
(* were its own: the value of an object is the tuple of the values of its  *)
(* leaves, which are primitives and arrays.  An array is the sequence of   *)
(* its items; primitive values and their conversions are in Primitives.    *)
(*                                                                         *)
(* Items of arrays may be objects and arrays again, and the visitors call  *)
(* themselves for them.  The calls are constants (NestedVariant, ...), and *)
(* RecursionAssumption says that a call does what the visitor does: a      *)
(* configuration gives each of them the operator that makes the call.      *)
(* SelfDescriptions has the descriptions with their leaves and nodes.      *)
(***************************************************************************)
EXTENDS Primitives

CONSTANTS
  Roots,           \* the descriptions a sender or a receiver may have
  Descriptions,    \* these, and the ones of all elements and items in them
  Rank(_),         \* how deep a description is
  Leaves(_),       \* the primitives and arrays of an object, in their order
  Objects(_),      \* the values of a description that may be sent
  NodeIds(_),      \* the leaves in the order a push client monitors them
  Unmixed(_),      \* whether no object has both objects and other elements
  Paths            \* the ways to travel: "request", "answer", "push"

CONSTANTS          \* the recursive calls of
  NestedVariant(_, _),    \* ToVariant
  NestedRead(_, _),       \* ReadNestedItem
  NestedSurvives(_, _),   \* Survives
  NestedShape(_, _)       \* HasShape

VARIABLES
  path,       \* the way this object takes
  sender,     \* the sender's description of the object
  receiver,   \* the receiver's description
  object,     \* the value that is sent
  wire,       \* the variants on the way
  result,     \* [val, next, fault]: what the receiver has read
  stage       \* "object", "sent", "accepted", "rejected" or "read"

vars == <<path, sender, receiver, object, wire, result, stage>>

-----------------------------------------------------------------------------
(* Descriptions *)

Primitive(type) == [kind |-> "primitive", type |-> type, els |-> <<>>]

Complex(els) == [kind |-> "complex", type |-> "", els |-> els]

\* The description of one item stands for all of them (getNewElement).
ArrayOf(item) == [kind |-> "array", type |-> "", els |-> <<item>>]

\* Descriptions are finite trees: Rank is smaller for what is inside.
ASSUME DescriptionsAssumption ==
  /\ \A d \in Descriptions :
       /\ Rank(d) \in Nat
       /\ \/ \E type \in PrimitiveTypes : d = Primitive(type)
          \/ /\ d.kind = "array" /\ d = ArrayOf(d.els[1])
             /\ d.els[1] \in Descriptions /\ Rank(d.els[1]) < Rank(d)
          \/ /\ d.kind = "complex" /\ d = Complex(d.els)
             /\ Leaves(d) \in Seq(Descriptions)
             /\ \A k \in 1 .. Len(Leaves(d)) :
                  Leaves(d)[k].kind # "complex" /\ Rank(Leaves(d)[k]) < Rank(d)
  /\ \A d \in Roots : d \in Descriptions /\ d.kind = "complex"

\* An object has a value for each leaf, an array is a sequence of items.
ASSUME ObjectsAssumption ==
  \A d \in Descriptions : \A v \in Objects(d) :
    CASE d.kind = "primitive" -> IsPrimitive(d.type, v)
      [] d.kind = "complex" ->
           /\ v = [k \in 1 .. Len(Leaves(d)) |-> v[k]]
           /\ \A k \in 1 .. Len(Leaves(d)) : v[k] \in Objects(Leaves(d)[k])
      [] d.kind = "array" -> v \in Seq(Objects(d.els[1]))

\* The client monitors leaves of the object, and monitors them in the order of
\* the description if no object in it has objects beside other elements.
ASSUME NodeIdsAssumption ==
  \A d \in Roots :
    /\ NodeIds(d) \in Seq(1 .. Len(Leaves(d)))
    /\ Unmixed(d) => NodeIds(d) = [k \in 1 .. Len(Leaves(d)) |-> k]

\* What a default-constructed object holds in a leaf.
Default(leaf) ==
  CASE leaf.type \in {"int64", "uint64"} -> <<0, 0>>
    [] leaf.type = "string" \/ leaf.kind = "array" -> <<>>
    [] OTHER -> <<0>>

-----------------------------------------------------------------------------
(* From the object to variants *)

\* The type of the items of an array variant: anything that is not a
\* primitive goes into a variant of its own.
TypeIndex(d) == IF d.kind = "primitive" THEN UaType(d.type) ELSE "variant"

ArrayItem(item, v) ==
  IF item.kind = "primitive" THEN StoredItem(item.type, v) ELSE NestedVariant(item, v)

\* The variant of an array, always with one dimension.
ArrayToValue(item, v) ==
  [type |-> TypeIndex(item), rank |-> 1,
   data |-> [i \in 1 .. Len(v) |-> ArrayItem(item, v[i])]]

\* The list of variants of an object, one for each leaf.
Variants(d, v) == [k \in 1 .. Len(Leaves(d)) |-> NestedVariant(Leaves(d)[k], v[k])]

\* The variant of a leaf or of an item: an object becomes an array of variants.
ToVariant(d, v) ==
  CASE d.kind = "primitive" -> ScalarVariant(d.type, v)
    [] d.kind = "complex" -> [type |-> "variant", rank |-> 1, data |-> Variants(d, v)]
    [] d.kind = "array" -> ArrayToValue(d.els[1], v)

\* Mutant: arrays are declared as scalars.
ArgumentAllScalar(leaf) ==
  IF leaf.kind = "primitive" THEN [type |-> UaType(leaf.type), rank |-> -1]
  ELSE [type |-> TypeIndex(leaf.els[1]), rank |-> -1]

\* The argument a method node declares for a leaf.
Argument(leaf) ==
  IF leaf.kind = "primitive" THEN [type |-> UaType(leaf.type), rank |-> -1]
  ELSE [type |-> TypeIndex(leaf.els[1]), rank |-> 1]

Arguments(d) == [k \in 1 .. Len(Leaves(d)) |-> Argument(Leaves(d)[k])]

-----------------------------------------------------------------------------
(* From variants to the object *)

ArrayLength(variant) == IF variant.rank = 1 THEN Len(variant.data) ELSE 0

Failure(fault) == [val |-> <<>>, fault |-> fault]

\* One item.  Objects and arrays need an array of variants, and for objects
\* the first variant must be an array.
ReadItem(item, variant, i) ==
  CASE variant.type # TypeIndex(item) -> Failure("InvalidConversion")
    [] variant.type = TypeIndex(item) /\ item.kind = "primitive" ->
         [val |-> LoadItem(item.type, variant.data, i), fault |-> ""]
    [] variant.type = TypeIndex(item) /\ item.kind = "complex" /\ variant.data[1].rank # 1 ->
         Failure("InvalidConversion")
    [] OTHER -> NestedRead(item, variant.data[i])

\* Mutants: the vector is not written back; it is written back item by item.
ReadArrayWithoutSet(item, old, variant) ==
  LET items == [i \in 1 .. ArrayLength(variant) |-> ReadItem(item, variant, i)]
      bad == SelectInSeq(items, LAMBDA r : r.fault # "")
  IN  [val |-> old, fault |-> IF bad # 0 THEN items[bad].fault ELSE ""]

ReadArrayItemwise(item, old, variant) ==
  LET items == [i \in 1 .. ArrayLength(variant) |-> ReadItem(item, variant, i)]
      bad == SelectInSeq(items, LAMBDA r : r.fault # "")
      good == IF bad = 0 THEN Len(items) ELSE bad - 1
  IN  [val |-> old \o [i \in 1 .. good |-> items[i].val],
       fault |-> IF bad = 0 THEN "" ELSE items[bad].fault]

\* ToCommObjArrayVisitor: every item is read into a new element and
\* appended to what the vector holds; the object gets the vector at the end,
\* so an exception in between leaves it alone.
ReadArray(item, old, variant) ==
  LET items == [i \in 1 .. ArrayLength(variant) |-> ReadItem(item, variant, i)]
      bad == SelectInSeq(items, LAMBDA r : r.fault # "")
  IN  IF bad # 0 THEN [val |-> old, fault |-> items[bad].fault]
      ELSE [val |-> old \o [i \in 1 .. Len(items) |-> items[i].val], fault |-> ""]

\* A leaf takes the next variant.
ReadLeaf(leaf, old, variants, next) ==
  CASE leaf.kind = "primitive" -> ReadPrimitive(leaf.type, old, variants, next)
    [] leaf.kind # "primitive" /\ next > Len(variants) ->
         [val |-> old, next |-> next, fault |-> "assertion"]
    [] OTHER ->
         LET r == ReadArray(leaf.els[1], old, variants[next])
         IN  [val |-> r.val, next |-> IF r.fault = "" THEN next + 1 ELSE next,
              fault |-> r.fault]

\* A new object before anything is read.
NothingRead(d) ==
  [val |-> [k \in 1 .. Len(Leaves(d)) |-> Default(Leaves(d)[k])], next |-> 1, fault |-> ""]

\* One leaf more, unless a failure ended the reading.
ReadNextLeaf(d, variants, r, k) ==
  IF r.fault # "" THEN r
  ELSE LET e == ReadLeaf(Leaves(d)[k], r.val[k], variants, r.next)
       IN  [val |-> [r.val EXCEPT ![k] = e.val], next |-> e.next, fault |-> e.fault]

\* ToCommObjectVisitor: the leaves of a new object one after the other.
ReadObject(d, variants) ==
  LET read[k \in 0 .. Len(Leaves(d))] ==
        IF k = 0 THEN NothingRead(d) ELSE ReadNextLeaf(d, variants, read[k - 1], k)
  IN  read[Len(Leaves(d))]

\* An object or an array as an item: the variant of an object is taken for an
\* array of variants without a look at its type.
ReadNestedItem(item, x) ==
  CASE item.kind = "array" -> ReadArray(item.els[1], <<>>, x)
    [] item.kind = "complex" /\ ArrayLength(x) > 0 /\ x.type # "variant" -> Failure("undefined")
    [] OTHER ->
         LET r == ReadObject(item, IF ArrayLength(x) = 0 THEN <<>> ELSE x.data)
         IN  [val |-> r.val, fault |-> r.fault]

-----------------------------------------------------------------------------
(* The journey *)

Init ==
  /\ path \in Paths
  /\ sender \in Roots
  /\ receiver \in Roots
  /\ path = "push" => receiver = sender
  /\ object \in Objects(sender)
  /\ wire = <<>>
  /\ result = NothingRead(receiver)
  /\ stage = "object"

\* A client calls a method with the object as its arguments, or a query
\* server returns it.
Serialize ==
  /\ stage = "object"
  /\ path \in {"request", "answer"}
  /\ wire' = Variants(sender, object)
  /\ stage' = "sent"
  /\ UNCHANGED <<path, sender, receiver, object, result>>

\* A push server writes its variables; the client has the values in the
\* order of the monitored nodes.
Publish ==
  /\ stage = "object"
  /\ path = "push"
  /\ wire' = [k \in 1 .. Len(NodeIds(sender)) |->
                Variants(sender, object)[NodeIds(sender)[k]]]
  /\ stage' = "sent"
  /\ UNCHANGED <<path, sender, receiver, object, result>>

\* open62541 compares the input of a method with the declared arguments;
\* a declared variant takes any type.
Acceptable(variant, argument) ==
  /\ variant.rank = argument.rank
  /\ argument.type \in {variant.type, "variant"}

CheckArguments ==
  /\ stage = "sent"
  /\ path = "request"
  /\ stage' = IF /\ Len(wire) = Len(Arguments(receiver))
                 /\ \A i \in 1 .. Len(wire) : Acceptable(wire[i], Arguments(receiver)[i])
              THEN "accepted" ELSE "rejected"
  /\ UNCHANGED <<path, sender, receiver, object, wire, result>>

\* The receiver reads the variants into a new object.
Deserialize ==
  /\ stage = IF path = "request" THEN "accepted" ELSE "sent"
  /\ result' = ReadObject(receiver, wire)
  /\ stage' = "read"
  /\ UNCHANGED <<path, sender, receiver, object, wire>>

Next ==
  \/ Serialize
  \/ Publish
  \/ CheckArguments
  \/ Deserialize

Spec == Init /\ [][Next]_vars

-----------------------------------------------------------------------------
(* What the properties say of values *)

\* Whether v is a value of a leaf of this description.
LeafShape(leaf, v) ==
  IF leaf.kind = "primitive" THEN IsPrimitive(leaf.type, v)
  ELSE /\ DOMAIN v = 1 .. Len(v)
       /\ \A i \in 1 .. Len(v) :
            IF leaf.els[1].kind = "primitive" THEN IsPrimitive(leaf.els[1].type, v[i])
            ELSE NestedShape(leaf.els[1], v[i])

\* Whether v is a value of an element with this description.
HasShape(d, v) ==
  IF d.kind # "complex" THEN LeafShape(d, v)
  ELSE /\ DOMAIN v = 1 .. Len(Leaves(d))
       /\ \A k \in 1 .. Len(Leaves(d)) : LeafShape(Leaves(d)[k], v[k])

\* Values the readers cannot damage: a uint64 that fits its low word, an array
\* of int64 with no more than one such item, strings without NUL in arrays.
Survives(d, v) ==
  CASE d.kind = "primitive" -> d.type = "uint64" => v[2] = 0
    [] d.kind = "complex" ->
         \A k \in 1 .. Len(Leaves(d)) : NestedSurvives(Leaves(d)[k], v[k])
    [] d.kind = "array" ->
         LET item == d.els[1]
         IN  CASE item.type = "int64" ->
                    /\ Len(v) =< 1
                    /\ \A i \in 1 .. Len(v) : v[i][2] = IF v[i][1] < 0 THEN -1 ELSE 0
               [] item.type = "string" -> \A i \in 1 .. Len(v) : CString(v[i]) = v[i]
               [] item.kind # "primitive" -> \A i \in 1 .. Len(v) : NestedSurvives(item, v[i])
               [] OTHER -> TRUE

\* All variants of the elements and items of objects that may be sent.
WireVariants == UNION {{ToVariant(d, v) : v \in Objects(d)} : d \in Descriptions}

\* A recursive call does for a part of an object what the operator does.
ASSUME RecursionAssumption ==
  \A d \in Descriptions :
    /\ \A v \in Objects(d) :
         /\ NestedVariant(d, v) = ToVariant(d, v)
         /\ NestedSurvives(d, v) <=> Survives(d, v)
         /\ NestedShape(d, v) <=> HasShape(d, v)
    /\ d.kind # "primitive" =>
         \A x \in WireVariants :
           /\ NestedRead(d, x) = ReadNestedItem(d, x)
           /\ NestedShape(d, NestedRead(d, x).val) <=> HasShape(d, NestedRead(d, x).val)

-----------------------------------------------------------------------------
(* Properties *)

\* Type invariant.  Whatever the variants hold, the object that is read into
\* has the shape of the receiver's description, and an 8-bit number its range.
TypeOK ==
  /\ path \in Paths
  /\ {sender, receiver} \subseteq Roots
  /\ stage \in {"object", "sent", "accepted", "rejected", "read"}
  /\ HasShape(sender, object)
  /\ HasShape(receiver, result.val)
  /\ result.fault \in {"", "assertion", "InvalidConversion", "undefined"}

\* An object travels unchanged on every path when both sides have the same
\* description of it and its values survive the readers; a pushed one when no
\* object in it has objects beside other elements.
ArrivesUnchanged ==
  ( /\ stage = "read"
    /\ sender = receiver
    /\ Survives(sender, object)
    /\ path = "push" => Unmixed(sender) )
  => result = [val |-> object, next |-> Len(wire) + 1, fault |-> ""]

\* Whatever the two descriptions are, the leaves that were read stay in step:
\* the i-th leaf has the value of the sender's i-th if both are of the same
\* description, however many leaves before it did not match.
StaysAligned ==
  (stage = "read" /\ path # "push") =>
    \A i \in 1 .. Len(Leaves(receiver)) :
      ( /\ result.fault = "" \/ i < result.next
        /\ i =< Len(Leaves(sender))
        /\ Leaves(receiver)[i] = Leaves(sender)[i]
        /\ Survives(Leaves(sender)[i], object[i]) )
      => result.val[i] = object[i]

\* When a conversion fails in the middle, the leaf at which it failed and all
\* the later ones are as the receiver created them: no array is left with
\* some of its items.
FaultSparesRest ==
  (stage = "read" /\ result.fault \in {"assertion", "InvalidConversion"}) =>
    \A i \in 1 .. Len(Leaves(receiver)) :
      i >= result.next => result.val[i] = Default(Leaves(receiver)[i])

\* The arguments a method declares are those the client's variants have: a
\* request between equal descriptions passes the check of the OPC UA server.
RequestsAreAccepted ==
  sender = receiver => stage # "rejected"

\* A request that passed the check can only fail to be read in an array whose
\* items are objects or arrays, which the check does not look into.
AcceptedIsReadable ==
  (path = "request" /\ stage = "read" /\ result.fault # "") =>
    \E i \in 1 .. Len(Arguments(receiver)) :
      Arguments(receiver)[i] = [type |-> "variant", rank |-> 1]
=============================================================================
