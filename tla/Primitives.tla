------------------------------ MODULE Primitives ------------------------------
(***************************************************************************)
(* The conversions of a single primitive element between a communication   *)
(* object and an OPC UA variant (the leaves of the visitors in             *)
(* OPCUA/Converter, whose way through the descriptions is in Converters).  *)
(*                                                                         *)
(* A primitive value is the tuple of the 32-bit words it occupies in       *)
(* memory (a word is a signed number, the low word comes first); a string  *)
(* is the tuple of its characters, 0 being NUL.                            *)
(***************************************************************************)
EXTENDS Integers, Sequences, SequencesExt

IntTypes == {"int8", "int16", "int32", "int64", "uint8", "uint16", "uint32", "uint64"}

PrimitiveTypes == IntTypes \cup {"bool", "float", "double", "string"}

\* The values of a primitive element.
IsPrimitive(type, v) ==
  CASE type = "int8" -> v = <<v[1]>> /\ v[1] \in -128 .. 127
    [] type = "uint8" -> v = <<v[1]>> /\ v[1] \in 0 .. 255
    [] type \in {"int64", "uint64"} -> v = <<v[1], v[2]>> /\ v[1] \in Int /\ v[2] \in Int
    [] type = "string" -> v \in Seq(Nat)
    [] OTHER -> v = <<v[1]>> /\ v[1] \in Int

\* The OPC UA type of a primitive: both 8-bit types are the unsigned Byte.
UaType(type) == IF type \in {"int8", "uint8"} THEN "byte" ELSE type

-----------------------------------------------------------------------------
(* From the element to a variant *)

\* The memory of a primitive: an int8 is stored in a Byte.
Stored(type, v) == IF type = "int8" THEN <<v[1] % 256>> ELSE v

\* The variant of an element that is a primitive.
ScalarVariant(type, v) == [type |-> UaType(type), rank |-> -1, data |-> Stored(type, v)]

\* A C string ends at its first NUL.
CString(v) ==
  LET nul == SelectInSeq(v, LAMBDA c : c = 0)
  IN  IF nul = 0 THEN v ELSE SubSeq(v, 1, nul - 1)

\* A primitive in an array is stored at its index, a string as a C string.
StoredItem(type, v) == IF type = "string" THEN CString(v) ELSE Stored(type, v)

-----------------------------------------------------------------------------
(* From a variant to the element *)

\* getDataAs: a pointer to the scalar, or to the first item of an array.
FirstData(variant) == IF variant.rank = 1 THEN variant.data[1] ELSE variant.data

Signed8(byte) == IF byte > 127 THEN byte - 256 ELSE byte

\* Mutant: the Byte of an int8 is taken as it is.
LoadScalarUnsigned(type, data) == IF type = "uint64" THEN <<data[1], 0>> ELSE data

\* A scalar as it arrives in the element: an int8 is narrowed from a Byte,
\* a uint64 is read as a UInt32.
LoadScalar(type, data) ==
  CASE type = "int8" -> <<Signed8(data[1])>>
    [] type = "uint64" -> <<data[1], 0>>
    [] OTHER -> data

\* Item i of an array as it arrives: an int64 is read through a pointer to
\* 32-bit integers and then widened.
LoadItem(type, items, i) ==
  CASE type = "int8" -> <<Signed8(items[i][1])>>
    [] type = "int64" ->
         LET word == items[(i + 1) \div 2][2 - (i % 2)]
         IN  <<word, IF word < 0 THEN -1 ELSE 0>>
    [] OTHER -> items[i]

\* Mutant: a wrong type returns before the index is increased.
ReadScalarKeepsIndex(type, old, variant, next) ==
  CASE variant.type # UaType(type) ->
         [val |-> old, next |-> next, fault |-> ""]
    [] variant.type = UaType(type) /\ variant.rank = 1 /\ variant.data = <<>> ->
         [val |-> old, next |-> next, fault |-> "undefined"]
    [] OTHER ->
         [val |-> LoadScalar(type, FirstData(variant)), next |-> next + 1, fault |-> ""]

\* A variant of another type leaves the element as it is, and is used up all
\* the same.  An array of the right type passes for its first item; an empty
\* one has no memory to read.
ReadScalar(type, old, variant, next) ==
  CASE variant.type # UaType(type) ->
         [val |-> old, next |-> next + 1, fault |-> ""]
    [] variant.type = UaType(type) /\ variant.rank = 1 /\ variant.data = <<>> ->
         [val |-> old, next |-> next, fault |-> "undefined"]
    [] OTHER ->
         [val |-> LoadScalar(type, FirstData(variant)), next |-> next + 1, fault |-> ""]

\* Mutant: the last variant counts as missing.
ReadPrimitiveOffByOne(type, old, variants, next) ==
  IF next >= Len(variants)
  THEN [val |-> old, next |-> next, fault |-> "assertion"]
  ELSE ReadScalar(type, old, variants[next], next)

\* A primitive takes the next variant; there being none is an assertion.
ReadPrimitive(type, old, variants, next) ==
  IF next > Len(variants)
  THEN [val |-> old, next |-> next, fault |-> "assertion"]
  ELSE ReadScalar(type, old, variants[next], next)
=============================================================================
