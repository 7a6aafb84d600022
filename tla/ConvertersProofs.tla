--------------------------- MODULE ConvertersProofs ---------------------------
(***************************************************************************)
(* The journey of communication objects, for descriptions of any size and  *)
(* depth and for all values.  The visitors are recursive: what they do to  *)
(* a description follows by induction over its rank from what they do to   *)
(* the descriptions inside it (RankInduction), and what they do to an      *)
(* object by induction over its leaves (ObjectRead).                       *)
(***************************************************************************)
EXTENDS Converters, WellFoundedInduction, TLAPS

\* The data of a variant of an OPC UA type.
IsWireData(ua, data) == IsPrimitive(IF ua = "byte" THEN "uint8" ELSE ua, data)

\* A variant of the type of a primitive has data of this type, as a scalar or
\* as an array.
FromWire(x) ==
  /\ x.rank = 1 => Len(x.data) \in Nat /\ x.data = [i \in 1 .. Len(x.data) |-> x.data[i]]
  /\ \A type \in PrimitiveTypes :
       x.type = UaType(type) =>
         IF x.rank = 1
         THEN \A i \in 1 .. Len(x.data) : IsWireData(UaType(type), x.data[i])
         ELSE IsWireData(UaType(type), x.data)

Faults == {"assertion", "InvalidConversion", "undefined"}

Outcomes == {"", "assertion", "InvalidConversion", "undefined"}

-----------------------------------------------------------------------------
(* Strings *)

\* A set of numbers that is not empty has a least one.
LEMMA LeastNumber ==
  ASSUME NEW T \in SUBSET Nat, T # {}
  PROVE  \E x \in T : \A y \in T : x =< y
<1>1. PICK x \in T : \A y \in T : ~ (<<y, x>> \in OpToRel(<, Nat))
  BY WFMin, NatLessThanWellFounded
<1>2. \A y \in T : ~ (y < x)
  BY <1>1 DEF OpToRel
<1>3. \A y \in T : x \in Nat /\ y \in Nat
  OBVIOUS
<1>4. \A y \in T : x =< y
  BY <1>2, <1>3
<1> QED BY <1>4

\* A C string has the characters up to the first NUL, and none of them is NUL.
LEMMA CStringCut ==
  ASSUME NEW v \in Seq(Nat)
  PROVE  /\ CString(v) \in Seq(Nat) /\ Len(CString(v)) =< Len(v)
         /\ \A k \in 1 .. Len(CString(v)) : CString(v)[k] = v[k] /\ v[k] # 0
         /\ Len(CString(v)) < Len(v) => v[Len(CString(v)) + 1] = 0
<1> DEFINE I == {i \in 1 .. Len(v) : v[i] = 0}
           nul == IF I # {} THEN Min(I) ELSE 0
<1>1. CString(v) = IF nul = 0 THEN v ELSE SubSeq(v, 1, nul - 1)
  BY DEF CString, SelectInSeq
<1>2. CASE I = {}
  <2>1. CString(v) = v
    BY <1>1, <1>2
  <2> QED BY <1>2, <2>1
<1>3. CASE I # {}
  <2>1. \E x \in I : \A y \in I : x =< y
    <3>1. I \in SUBSET Nat
      OBVIOUS
    <3> HIDE DEF I
    <3> QED BY <1>3, <3>1, LeastNumber
  <2>2. Min(I) \in I /\ \A y \in I : Min(I) =< y
    BY <2>1 DEF Min
  <2>3. PICK n \in 1 .. Len(v) : n = Min(I) /\ v[n] = 0 /\ \A k \in 1 .. n - 1 : v[k] # 0
    <3>1. PICK n \in 1 .. Len(v) : n = Min(I) /\ v[n] = 0 /\ \A y \in I : n =< y
      BY <2>2
    <3>2. \A k \in 1 .. n - 1 : k \in 1 .. Len(v) /\ ~ (n =< k)
      OBVIOUS
    <3>3. \A k \in 1 .. n - 1 : v[k] # 0
      BY <3>1, <3>2
    <3> QED BY <3>1, <3>3
  <2>4. CString(v) = SubSeq(v, 1, n - 1)
    <3>1. nul = n /\ n # 0
      BY <1>3, <2>3
    <3> HIDE DEF nul
    <3> QED BY <1>1, <3>1
  <2> HIDE DEF I, nul
  <2>5. /\ CString(v) \in Seq(Nat) /\ Len(CString(v)) = n - 1
        /\ \A k \in 1 .. n - 1 : CString(v)[k] = v[k]
    BY <2>3, <2>4
  <2> QED BY <2>3, <2>5
<1> QED BY <1>2, <1>3

\* A string survives in an array exactly if it has no NUL.
LEMMA CStringSame ==
  ASSUME NEW v \in Seq(Nat)
  PROVE  CString(v) = v <=> \A k \in 1 .. Len(v) : v[k] # 0
<1>1. ASSUME CString(v) = v PROVE \A k \in 1 .. Len(v) : v[k] # 0
  BY <1>1, CStringCut
<1>2. ASSUME \A k \in 1 .. Len(v) : v[k] # 0 PROVE CString(v) = v
  <2>1. Len(CString(v)) = Len(v) /\ CString(v) \in Seq(Nat)
    BY <1>2, CStringCut
  <2>2. \A k \in 1 .. Len(v) : CString(v)[k] = v[k]
    BY <2>1, CStringCut
  <2> QED BY <2>1, <2>2
<1> QED BY <1>1, <1>2

-----------------------------------------------------------------------------
(* Scalars *)

\* An int8 survives the Byte it is stored in.
LEMMA ByteRoundTrip ==
  ASSUME NEW w \in -128 .. 127
  PROVE  w % 256 \in 0 .. 255 /\ Signed8(w % 256) = w
<1>1. CASE w >= 0
  BY <1>1 DEF Signed8
<1>2. CASE w < 0
  <2>1. w % 256 = w + 256
    BY <1>2
  <2> QED BY <1>2, <2>1 DEF Signed8
<1> QED BY <1>1, <1>2

\* A scalar is stored and loaded unchanged, for every value of every primitive type but one:
\* a uint64 arrives unchanged exactly if its upper word is zero
\* (UaVariantArrayToCommObject.cpp:149).
THEOREM ScalarArrives ==
  ASSUME NEW type \in PrimitiveTypes, NEW v, IsPrimitive(type, v)
  PROVE  LoadScalar(type, Stored(type, v)) = v <=> (type = "uint64" => v[2] = 0)
<1>1. CASE type = "int8"
  <2>1. v = <<v[1]>> /\ v[1] \in -128 .. 127
    BY <1>1 DEF IsPrimitive
  <2>2. PICK w \in -128 .. 127 : v = <<w>>
    BY <2>1
  <2>3. LoadScalar(type, Stored(type, v)) = <<Signed8(w % 256)>>
    BY <1>1, <2>2 DEF LoadScalar, Stored
  <2> QED BY <1>1, <2>2, <2>3, ByteRoundTrip
<1>2. CASE type = "uint64"
  <2>1. v = <<v[1], v[2]>> /\ v[1] \in Int /\ v[2] \in Int
    BY <1>2 DEF IsPrimitive
  <2>2. PICK low, high : v = <<low, high>>
    BY <2>1
  <2>3. LoadScalar(type, Stored(type, v)) = <<low, 0>> /\ v[2] = high
    BY <1>2, <2>2 DEF LoadScalar, Stored
  <2> QED BY <1>2, <2>2, <2>3
<1>3. CASE type \notin {"int8", "uint64"}
  BY <1>3 DEF LoadScalar, Stored
<1> QED BY <1>1, <1>2, <1>3

\* What is stored is data of the OPC UA type.
LEMMA StoredIsWireData ==
  ASSUME NEW type \in PrimitiveTypes, NEW v, IsPrimitive(type, v)
  PROVE  /\ IsWireData(UaType(type), Stored(type, v))
         /\ IsWireData(UaType(type), StoredItem(type, v))
<1>1. CASE type = "int8"
  <2>1. v = <<v[1]>> /\ v[1] \in -128 .. 127
    BY <1>1 DEF IsPrimitive
  <2>2. PICK b \in 0 .. 255 : Stored(type, v) = <<b>>
    BY <1>1, <2>1, ByteRoundTrip DEF Stored
  <2>3. StoredItem(type, v) = Stored(type, v) /\ UaType(type) = "byte"
    BY <1>1 DEF StoredItem, UaType
  <2>4. IsPrimitive("uint8", <<b>>)
    BY DEF IsPrimitive
  <2> QED BY <2>2, <2>3, <2>4 DEF IsWireData
<1>2. CASE type = "string"
  <2>1. v \in Seq(Nat)
    BY <1>2 DEF IsPrimitive
  <2>2. Stored(type, v) = v /\ StoredItem(type, v) = CString(v) /\ UaType(type) = "string"
    BY <1>2 DEF Stored, StoredItem, UaType
  <2>3. CString(v) \in Seq(Nat)
    BY <2>1, CStringCut
  <2> QED BY <2>1, <2>2, <2>3 DEF IsWireData, IsPrimitive
<1>3. CASE type \notin {"int8", "string"}
  <2>1. Stored(type, v) = v /\ StoredItem(type, v) = v
    BY <1>3 DEF Stored, StoredItem
  <2>2. (IF UaType(type) = "byte" THEN "uint8" ELSE UaType(type)) = type
    BY <1>3 DEF UaType, PrimitiveTypes, IntTypes
  <2> QED BY <2>1, <2>2 DEF IsWireData
<1> QED BY <1>1, <1>2, <1>3

\* Data of the OPC UA type is loaded as a value of the primitive type: an 8-bit number is in
\* its range.
LEMMA LoadedIsPrimitive ==
  ASSUME NEW type \in PrimitiveTypes, NEW data, IsWireData(UaType(type), data)
  PROVE  IsPrimitive(type, LoadScalar(type, data))
<1>1. CASE type = "int8"
  <2>1. data = <<data[1]>> /\ data[1] \in 0 .. 255
    BY <1>1 DEF UaType, IsWireData, IsPrimitive
  <2>2. Signed8(data[1]) \in -128 .. 127
    BY <2>1 DEF Signed8
  <2>3. LoadScalar(type, data) = <<Signed8(data[1])>>
    BY <1>1 DEF LoadScalar
  <2> QED BY <1>1, <2>2, <2>3 DEF IsPrimitive
<1>2. CASE type = "uint64"
  <2>1. data[1] \in Int
    BY <1>2 DEF UaType, IsWireData, IsPrimitive
  <2>2. LoadScalar(type, data) = <<data[1], 0>>
    BY <1>2 DEF LoadScalar
  <2> QED BY <1>2, <2>1, <2>2 DEF IsPrimitive
<1>3. CASE type \notin {"int8", "uint64"}
  <2>1. LoadScalar(type, data) = data
    BY <1>3 DEF LoadScalar
  <2>2. (IF UaType(type) = "byte" THEN "uint8" ELSE UaType(type)) = type
    BY <1>3 DEF UaType, PrimitiveTypes, IntTypes
  <2> QED BY <2>1, <2>2 DEF IsWireData
<1> QED BY <1>1, <1>2, <1>3

\* Whatever variant comes for a primitive, of the described type or of another, a scalar, an
\* array or none at all: the element has a value of its type afterwards, an 8-bit number is
\* in its range, and a failure leaves the element alone and uses no variant up.
THEOREM ReadKeepsType ==
  ASSUME NEW type \in PrimitiveTypes, NEW old, IsPrimitive(type, old), NEW variants,
         Len(variants) \in Nat, NEW next \in Nat \ {0},
         \A i \in 1 .. Len(variants) : FromWire(variants[i])
  PROVE  \/ \E y :
              /\ IsPrimitive(type, y)
              /\ ReadPrimitive(type, old, variants, next) =
                   [val |-> y, next |-> next + 1, fault |-> ""]
         \/ \E fault \in {"assertion", "undefined"} :
              ReadPrimitive(type, old, variants, next) =
                [val |-> old, next |-> next, fault |-> fault]
<1>1. CASE next > Len(variants)
  BY <1>1 DEF ReadPrimitive
<1>2. CASE next =< Len(variants)
  <2>1. PICK x : /\ x = variants[next] /\ FromWire(x)
                 /\ ReadPrimitive(type, old, variants, next) = ReadScalar(type, old, x, next)
    BY <1>2 DEF ReadPrimitive
  <2>2. CASE x.type # UaType(type)
    <3>1. ReadScalar(type, old, x, next) = [val |-> old, next |-> next + 1, fault |-> ""]
      BY <2>2 DEF ReadScalar
    <3> QED BY <2>1, <3>1
  <2>3. CASE x.type = UaType(type) /\ x.rank = 1 /\ x.data = <<>>
    <3>1. ReadScalar(type, old, x, next) = [val |-> old, next |-> next, fault |-> "undefined"]
      BY <2>3 DEF ReadScalar
    <3> QED BY <2>1, <3>1
  <2>4. CASE x.type = UaType(type) /\ ~ (x.rank = 1 /\ x.data = <<>>)
    <3>1. ReadScalar(type, old, x, next) =
            [val |-> LoadScalar(type, FirstData(x)), next |-> next + 1, fault |-> ""]
      BY <2>4 DEF ReadScalar
    <3>2. IsWireData(UaType(type), FirstData(x))
      <4>1. CASE x.rank = 1
        <5>1. /\ Len(x.data) \in Nat /\ x.data = [i \in 1 .. Len(x.data) |-> x.data[i]]
              /\ x.data # <<>>
              /\ \A i \in 1 .. Len(x.data) : IsWireData(UaType(type), x.data[i])
          BY <2>1, <2>4, <4>1 DEF FromWire
        <5>2. Len(x.data) # 0
          BY <5>1
        <5>3. IsWireData(UaType(type), x.data[1])
          BY <5>1, <5>2
        <5> QED BY <4>1, <5>3 DEF FirstData
      <4>2. CASE x.rank # 1
        BY <2>1, <2>4, <4>2 DEF FromWire, FirstData
      <4> QED BY <4>1, <4>2
    <3> QED BY <2>1, <3>1, <3>2, LoadedIsPrimitive
  <2> QED BY <2>2, <2>3, <2>4
<1>3. next > Len(variants) \/ next =< Len(variants)
  <2>1. \A n \in Nat : next > n \/ next =< n
    OBVIOUS
  <2> QED BY <2>1
<1> QED BY <1>1, <1>2, <1>3

-----------------------------------------------------------------------------
(* Arrays of primitives *)

\* Every item of an array arrives at its index, for arrays of any length and all values: an
\* item is changed only if it is a string with a NUL, which is cut there. (Arrays of int64 are
\* excepted: they are read across the bounds of their items.)
THEOREM ItemsArrive ==
  ASSUME NEW type \in PrimitiveTypes \ {"int64"}, NEW v, NEW i \in 1 .. Len(v),
         IsPrimitive(type, v[i])
  PROVE  LoadItem(type, [k \in 1 .. Len(v) |-> StoredItem(type, v[k])], i) = v[i]
           <=> (type = "string" => CString(v[i]) = v[i])
<1> DEFINE items == [k \in 1 .. Len(v) |-> StoredItem(type, v[k])]
<1>1. items[i] = StoredItem(type, v[i])
  OBVIOUS
<1>2. CASE type = "int8"
  <2>1. v[i] = <<v[i][1]>> /\ v[i][1] \in -128 .. 127
    BY <1>2 DEF IsPrimitive
  <2>2. PICK w \in -128 .. 127 : v[i] = <<w>>
    BY <2>1
  <2>3. items[i] = <<w % 256>>
    BY <1>1, <1>2, <2>2 DEF StoredItem, Stored
  <2>4. LoadItem(type, items, i) = <<Signed8(w % 256)>>
    BY <1>2, <2>3 DEF LoadItem
  <2> QED BY <1>2, <2>2, <2>4, ByteRoundTrip
<1>3. CASE type = "string"
  <2>1. LoadItem(type, items, i) = CString(v[i])
    BY <1>1, <1>3 DEF LoadItem, StoredItem
  <2> QED BY <1>3, <2>1
<1>4. CASE type \notin {"int8", "int64", "string"}
  <2>1. LoadItem(type, items, i) = v[i]
    BY <1>1, <1>4 DEF LoadItem, StoredItem, Stored
  <2> QED BY <1>4, <2>1
<1> QED BY <1>2, <1>3, <1>4

\* An array of int64 arrives if it has no more than one item and that fits its low word.
LEMMA Int64Arrives ==
  ASSUME NEW v, Len(v) = 1, IsPrimitive("int64", v[1]),
         v[1][2] = IF v[1][1] < 0 THEN -1 ELSE 0
  PROVE  LoadItem("int64", [k \in 1 .. Len(v) |-> StoredItem("int64", v[k])], 1) = v[1]
<1> DEFINE items == [k \in 1 .. Len(v) |-> StoredItem("int64", v[k])]
<1>1. items[1] = v[1]
  BY DEF StoredItem, Stored
<1>2. v[1] = <<v[1][1], v[1][2]>> /\ v[1][1] \in Int
  BY DEF IsPrimitive
<1>3. items[(1 + 1) \div 2][2 - (1 % 2)] = v[1][1]
  <2>1. (1 + 1) \div 2 = 1 /\ 2 - (1 % 2) = 1
    OBVIOUS
  <2> QED BY <1>1, <2>1
<1>4. LoadItem("int64", items, 1) = <<v[1][1], IF v[1][1] < 0 THEN -1 ELSE 0>>
  BY <1>3 DEF LoadItem
<1> QED BY <1>2, <1>4

\* Whatever array of the OPC UA type comes, each item is loaded as a value of its type. An
\* int64 is read within the memory of the array.
LEMMA LoadedItemIsPrimitive ==
  ASSUME NEW type \in PrimitiveTypes, NEW items, Len(items) \in Nat,
         \A k \in 1 .. Len(items) : IsWireData(UaType(type), items[k]),
         NEW i \in 1 .. Len(items)
  PROVE  IsPrimitive(type, LoadItem(type, items, i))
<1>1. CASE type = "int8"
  <2>1. items[i][1] \in 0 .. 255
    BY <1>1 DEF UaType, IsWireData, IsPrimitive
  <2>2. Signed8(items[i][1]) \in -128 .. 127
    <3>1. \A b \in 0 .. 255 : Signed8(b) \in -128 .. 127
      BY DEF Signed8
    <3> QED BY <2>1, <3>1
  <2>3. LoadItem(type, items, i) = <<Signed8(items[i][1])>>
    BY <1>1 DEF LoadItem
  <2> QED BY <1>1, <2>2, <2>3 DEF IsPrimitive
<1>2. CASE type = "int64"
  <2> DEFINE k == (i + 1) \div 2
             w == items[k][2 - (i % 2)]
  <2>1. k \in 1 .. Len(items) /\ 2 - (i % 2) \in {1, 2}
    OBVIOUS
  <2>2. items[k][1] \in Int /\ items[k][2] \in Int
    BY <1>2, <2>1 DEF UaType, IsWireData, IsPrimitive
  <2>3. w \in Int
    BY <2>1, <2>2
  <2>4. LoadItem(type, items, i) = <<w, IF w < 0 THEN -1 ELSE 0>>
    BY <1>2 DEF LoadItem
  <2> HIDE DEF w
  <2> QED BY <1>2, <2>3, <2>4 DEF IsPrimitive
<1>3. CASE type \notin {"int8", "int64"}
  <2>1. LoadItem(type, items, i) = items[i]
    BY <1>3 DEF LoadItem
  <2>2. (IF UaType(type) = "byte" THEN "uint8" ELSE UaType(type)) = type
    BY <1>3 DEF UaType, PrimitiveTypes, IntTypes
  <2> QED BY <2>1, <2>2 DEF IsWireData
<1> QED BY <1>1, <1>2, <1>3

-----------------------------------------------------------------------------
(* Descriptions and their variants *)

\* The three kinds of descriptions, and that what is inside has a smaller rank.
LEMMA Kinds ==
  ASSUME NEW d \in Descriptions
  PROVE  /\ Rank(d) \in Nat
         /\ \/ /\ d.kind = "primitive" /\ d.type \in PrimitiveTypes
            \/ /\ d.kind = "array" /\ d.type = ""
               /\ d.els[1] \in Descriptions /\ Rank(d.els[1]) < Rank(d)
            \/ /\ d.kind = "complex" /\ d.type = ""
               /\ Leaves(d) \in Seq(Descriptions)
               /\ \A k \in 1 .. Len(Leaves(d)) :
                    Leaves(d)[k].kind # "complex" /\ Rank(Leaves(d)[k]) < Rank(d)
<1>1. /\ Rank(d) \in Nat
      /\ \/ \E type \in PrimitiveTypes : d = Primitive(type)
         \/ /\ d.kind = "array" /\ d = ArrayOf(d.els[1])
            /\ d.els[1] \in Descriptions /\ Rank(d.els[1]) < Rank(d)
         \/ /\ d.kind = "complex" /\ d = Complex(d.els)
            /\ Leaves(d) \in Seq(Descriptions)
            /\ \A k \in 1 .. Len(Leaves(d)) :
                 Leaves(d)[k].kind # "complex" /\ Rank(Leaves(d)[k]) < Rank(d)
  BY DescriptionsAssumption
<1>2. \A type : d = Primitive(type) => d.kind = "primitive" /\ d.type = type
  BY DEF Primitive
<1>3. \A item : ArrayOf(item).type = ""
  BY DEF ArrayOf
<1>4. \A els : Complex(els).type = ""
  BY DEF Complex
<1> QED BY <1>1, <1>2, <1>3, <1>4

\* A set that has every description whose parts it has, has all descriptions.
LEMMA RankInduction ==
  ASSUME NEW T,
         \A d \in Descriptions :
           (\A e \in Descriptions : Rank(e) < Rank(d) => e \in T) => d \in T
  PROVE  \A d \in Descriptions : d \in T
<1> DEFINE R == {n \in Nat : \E d \in Descriptions : Rank(d) = n /\ d \notin T}
<1>1. ASSUME R # {} PROVE FALSE
  <2>1. PICK n \in R : \A m \in R : n =< m
    BY <1>1, LeastNumber
  <2>2. PICK d \in Descriptions : Rank(d) = n /\ d \notin T
    OBVIOUS
  <2>3. ASSUME NEW e \in Descriptions, Rank(e) < Rank(d) PROVE e \in T
    <3>1. Rank(e) \in Nat /\ Rank(d) \in Nat
      BY Kinds
    <3>2. Rank(e) \notin R
      BY <2>1, <2>2, <2>3, <3>1
    <3> QED BY <3>1, <3>2
  <2> QED BY <2>2, <2>3
<1>2. ASSUME NEW d \in Descriptions, d \notin T PROVE FALSE
  <2>1. Rank(d) \in R
    BY <1>2, Kinds
  <2> QED BY <1>1, <2>1
<1> QED BY <1>2

\* A number up to n is in a set that has 0 and the successor of each of its numbers below n.
LEMMA StepByStep ==
  ASSUME NEW n \in Nat, NEW T, 0 \in T, \A k \in 0 .. n : k # n /\ k \in T => k + 1 \in T
  PROVE  \A k \in 0 .. n : k \in T
<1> DEFINE R == {k \in Nat : k =< n /\ k \notin T}
<1>1. ASSUME R # {} PROVE FALSE
  <2>1. PICK m \in R : \A k \in R : m =< k
    BY <1>1, LeastNumber
  <2>2. m # 0 /\ m \in Nat /\ m =< n /\ m \notin T
    OBVIOUS
  <2>3. m - 1 \in 0 .. n /\ m - 1 # n /\ m - 1 \in Nat /\ (m - 1) + 1 = m
    BY <2>2
  <2>4. m - 1 \notin R
    BY <2>1, <2>2, <2>3
  <2>5. m - 1 \in T
    BY <2>3, <2>4
  <2> QED BY <2>2, <2>3, <2>5
<1>2. ASSUME NEW k \in 0 .. n, k \notin T PROVE FALSE
  <2>1. k \in R
    BY <1>2
  <2> QED BY <1>1, <2>1
<1> QED BY <1>2

\* No primitive has the type of a variant of variants.
LEMMA NoPrimitiveVariant ==
  ASSUME NEW type \in PrimitiveTypes
  PROVE  UaType(type) # "variant"
BY DEF PrimitiveTypes, IntTypes, UaType

\* What objects are made of.
LEMMA ObjectParts ==
  ASSUME NEW d \in Descriptions, NEW v \in Objects(d)
  PROVE  /\ d.kind = "primitive" => IsPrimitive(d.type, v)
         /\ d.kind = "complex" =>
              /\ v = [k \in 1 .. Len(Leaves(d)) |-> v[k]]
              /\ \A k \in 1 .. Len(Leaves(d)) : v[k] \in Objects(Leaves(d)[k])
         /\ d.kind = "array" => v \in Seq(Objects(d.els[1]))
BY ObjectsAssumption

\* A recursive call does what the operator does.
LEMMA Unfold ==
  ASSUME NEW d \in Descriptions
  PROVE  /\ \A v \in Objects(d) :
              /\ NestedVariant(d, v) = ToVariant(d, v)
              /\ NestedSurvives(d, v) <=> Survives(d, v)
              /\ NestedShape(d, v) <=> HasShape(d, v)
         /\ d.kind # "primitive" =>
              \A x \in WireVariants :
                /\ NestedRead(d, x) = ReadNestedItem(d, x)
                /\ NestedShape(d, NestedRead(d, x).val) <=> HasShape(d, NestedRead(d, x).val)
BY RecursionAssumption

\* The variants of an object are variants of its leaves.
LEMMA VariantsOnWire ==
  ASSUME NEW d \in Descriptions, d.kind = "complex", NEW v \in Objects(d)
  PROVE  /\ Len(Leaves(d)) \in Nat
         /\ Len(Variants(d, v)) = Len(Leaves(d))
         /\ Variants(d, v) = [k \in 1 .. Len(Leaves(d)) |-> ToVariant(Leaves(d)[k], v[k])]
         /\ \A k \in 1 .. Len(Leaves(d)) : Variants(d, v)[k] \in WireVariants
<1>1. Leaves(d) \in Seq(Descriptions) /\ Len(Leaves(d)) \in Nat
  <2>1. Leaves(d) \in Seq(Descriptions)
    BY Kinds
  <2> QED BY <2>1
<1>2. \A k \in 1 .. Len(Leaves(d)) : Leaves(d)[k] \in Descriptions /\ v[k] \in Objects(Leaves(d)[k])
  BY <1>1, ObjectParts
<1>3. \A k \in 1 .. Len(Leaves(d)) : NestedVariant(Leaves(d)[k], v[k]) = ToVariant(Leaves(d)[k], v[k])
  BY <1>2, Unfold
<1>4. \A k \in 1 .. Len(Leaves(d)) : ToVariant(Leaves(d)[k], v[k]) \in WireVariants
  BY <1>2 DEF WireVariants
<1>5. Variants(d, v) = [k \in 1 .. Len(Leaves(d)) |-> ToVariant(Leaves(d)[k], v[k])]
  BY <1>3 DEF Variants
<1> QED BY <1>1, <1>4, <1>5

\* The variant of an array holds its items.
LEMMA ArrayOnWire ==
  ASSUME NEW d \in Descriptions, d.kind = "array", NEW v \in Objects(d)
  PROVE  \E data :
           /\ ToVariant(d, v) = [type |-> TypeIndex(d.els[1]), rank |-> 1, data |-> data]
           /\ data = [i \in 1 .. Len(v) |-> ArrayItem(d.els[1], v[i])]
           /\ Len(v) \in Nat /\ Len(data) = Len(v)
           /\ d.els[1] \in Descriptions
           /\ \A i \in 1 .. Len(v) : v[i] \in Objects(d.els[1])
           /\ d.els[1].kind # "primitive" =>
                \A i \in 1 .. Len(v) :
                  data[i] = ToVariant(d.els[1], v[i]) /\ data[i] \in WireVariants
<1> DEFINE item == d.els[1]
           data == [i \in 1 .. Len(v) |-> ArrayItem(item, v[i])]
<1>1. v \in Seq(Objects(item)) /\ item \in Descriptions
  BY ObjectParts, Kinds
<1>2. ToVariant(d, v) = [type |-> TypeIndex(item), rank |-> 1, data |-> data]
  BY DEF ToVariant, ArrayToValue
<1>3. Len(v) \in Nat /\ Len(data) = Len(v) /\ \A i \in 1 .. Len(v) : v[i] \in Objects(item)
  BY <1>1
<1>4. ASSUME item.kind # "primitive", NEW i \in 1 .. Len(v)
      PROVE  data[i] = ToVariant(item, v[i]) /\ data[i] \in WireVariants
  <2>1. data[i] = ToVariant(item, v[i])
    BY <1>1, <1>3, <1>4, Unfold DEF ArrayItem
  <2> QED BY <1>1, <1>3, <2>1 DEF WireVariants
<1> QED BY <1>1, <1>2, <1>3, <1>4

\* What any variant on the wire is like: whatever is read from it later, its data are of its
\* type, and what is in a variant of variants is such a variant again.
LEMMA OnWire ==
  ASSUME NEW x \in WireVariants
  PROVE  /\ FromWire(x)
         /\ x.rank \in {1, -1}
         /\ x.type = "variant" =>
              x.rank = 1 /\ \A i \in 1 .. Len(x.data) : x.data[i] \in WireVariants
<1>0. PICK d \in Descriptions : \E v \in Objects(d) : x = ToVariant(d, v)
  BY DEF WireVariants
<1>1. PICK v \in Objects(d) : x = ToVariant(d, v)
  BY <1>0
<1>2. CASE d.kind = "primitive"
  <2>1. d.type \in PrimitiveTypes /\ IsPrimitive(d.type, v)
    BY <1>2, Kinds, ObjectParts
  <2>2. x.type = UaType(d.type) /\ x.rank = -1 /\ x.data = Stored(d.type, v)
    BY <1>1, <1>2 DEF ToVariant, ScalarVariant
  <2>3. FromWire(x)
    BY <2>1, <2>2, StoredIsWireData DEF FromWire
  <2>4. x.type # "variant"
    BY <2>1, <2>2, NoPrimitiveVariant
  <2> QED BY <2>2, <2>3, <2>4
<1>3. CASE d.kind = "complex"
  <2>1. x.type = "variant" /\ x.rank = 1 /\ x.data = Variants(d, v)
    BY <1>1, <1>3 DEF ToVariant
  <2>2. /\ Len(x.data) \in Nat /\ x.data = [i \in 1 .. Len(x.data) |-> x.data[i]]
        /\ \A i \in 1 .. Len(x.data) : x.data[i] \in WireVariants
    BY <1>3, <2>1, VariantsOnWire
  <2>3. FromWire(x)
    BY <2>1, <2>2, NoPrimitiveVariant DEF FromWire
  <2> QED BY <2>1, <2>2, <2>3
<1>4. CASE d.kind = "array"
  <2> DEFINE item == d.els[1]
  <2>1. PICK data :
           /\ x = [type |-> TypeIndex(item), rank |-> 1, data |-> data]
           /\ data = [i \in 1 .. Len(v) |-> ArrayItem(item, v[i])]
           /\ Len(v) \in Nat /\ Len(data) = Len(v)
           /\ item \in Descriptions
           /\ \A i \in 1 .. Len(v) : v[i] \in Objects(item)
           /\ item.kind # "primitive" => \A i \in 1 .. Len(v) : data[i] \in WireVariants
    BY <1>1, <1>4, ArrayOnWire
  <2>2. x.type = TypeIndex(item) /\ x.rank = 1 /\ x.data = data
    BY <2>1
  <2>3. CASE item.kind = "primitive"
    <3>1. item.type \in PrimitiveTypes /\ TypeIndex(item) = UaType(item.type)
      BY <2>1, <2>3, Kinds DEF TypeIndex
    <3>2. \A i \in 1 .. Len(v) : IsPrimitive(item.type, v[i])
      BY <2>1, <2>3, ObjectParts
    <3>3. \A i \in 1 .. Len(v) : data[i] = StoredItem(item.type, v[i])
      BY <2>1, <2>3 DEF ArrayItem
    <3>4. \A i \in 1 .. Len(v) : IsWireData(UaType(item.type), data[i])
      BY <3>1, <3>2, <3>3, StoredIsWireData
    <3>5. FromWire(x)
      BY <2>1, <2>2, <3>1, <3>4 DEF FromWire
    <3>6. x.type # "variant"
      BY <2>2, <3>1, NoPrimitiveVariant
    <3> QED BY <2>2, <3>5, <3>6
  <2>4. CASE item.kind # "primitive"
    <3>1. x.type = "variant"
      BY <2>2, <2>4 DEF TypeIndex
    <3>2. FromWire(x)
      BY <2>1, <2>2, <3>1, NoPrimitiveVariant DEF FromWire
    <3> QED BY <2>1, <2>2, <2>4, <3>1, <3>2
  <2> QED BY <2>3, <2>4
<1> QED BY <1>2, <1>3, <1>4, Kinds

-----------------------------------------------------------------------------
(* Reading arrays and objects *)

\* The fields of what a reader returns.
LEMMA Fields ==
  ASSUME NEW r, NEW y, NEW n, NEW f, r = [val |-> y, next |-> n, fault |-> f]
  PROVE  r.val = y /\ r.next = n /\ r.fault = f
OBVIOUS

LEMMA ItemFields ==
  ASSUME NEW r, NEW y, NEW f, r = [val |-> y, fault |-> f]
  PROVE  r.val = y /\ r.fault = f
OBVIOUS

\* An array is read as a whole or not at all: the first item that fails leaves a new vector
\* empty, and without a failure every item is at its index.
LEMMA ArrayRead ==
  ASSUME NEW item, NEW x, ArrayLength(x) \in Nat
  PROVE  \/ \E i \in 1 .. ArrayLength(x) :
              /\ ReadItem(item, x, i).fault # ""
              /\ ReadArray(item, <<>>, x) =
                   [val |-> <<>>, fault |-> ReadItem(item, x, i).fault]
         \/ /\ \A i \in 1 .. ArrayLength(x) : ReadItem(item, x, i).fault = ""
            /\ ReadArray(item, <<>>, x) =
                 [val |-> [i \in 1 .. ArrayLength(x) |-> ReadItem(item, x, i).val],
                  fault |-> ""]
<1>0. PICK n \in Nat : n = ArrayLength(x)
  OBVIOUS
<1> DEFINE items == [i \in 1 .. n |-> ReadItem(item, x, i)]
           Bad(i) == ReadItem(item, x, i).fault # ""
           I == {i \in 1 .. n : Bad(i)}
           bad == SelectInSeq(items, LAMBDA r : r.fault # "")
           vals == [i \in 1 .. n |-> ReadItem(item, x, i).val]
<1>1. Len(items) = n /\ \A i \in 1 .. n : items[i] = ReadItem(item, x, i)
  OBVIOUS
<1>2. {i \in 1 .. Len(items) : items[i].fault # ""} = I
  BY <1>1
<1>3. bad = IF I # {} THEN Min(I) ELSE 0
  BY <1>2 DEF SelectInSeq
<1>4. ReadArray(item, <<>>, x) =
        IF bad # 0 THEN [val |-> <<>>, fault |-> items[bad].fault]
        ELSE [val |-> <<>> \o [i \in 1 .. Len(items) |-> items[i].val], fault |-> ""]
  BY <1>0 DEF ReadArray
<1>5. [i \in 1 .. Len(items) |-> items[i].val] = vals
  BY <1>1
<1>6. <<>> \o vals = vals
  OBVIOUS
<1> HIDE DEF bad, items, vals, Bad
<1>7. CASE I # {}
  <2>1. I \in SUBSET Nat
    OBVIOUS
  <2>2. \E m \in I : \A k \in I : m =< k
    <3> HIDE DEF I
    <3> QED BY <1>7, <2>1, LeastNumber
  <2>3. Min(I) \in I
    BY <2>2 DEF Min
  <2>4. bad \in I
    BY <1>3, <1>7, <2>3
  <2>5. bad \in 1 .. n /\ bad # 0 /\ Bad(bad)
    BY <2>4
  <2>6. ReadArray(item, <<>>, x) = [val |-> <<>>, fault |-> ReadItem(item, x, bad).fault]
    BY <1>1, <1>4, <2>5
  <2> QED BY <1>0, <2>5, <2>6 DEF Bad
<1>8. CASE I = {}
  <2>1. ReadArray(item, <<>>, x) = [val |-> vals, fault |-> ""]
    BY <1>3, <1>4, <1>5, <1>6, <1>8
  <2>2. \A i \in 1 .. n : ReadItem(item, x, i).fault = ""
    BY <1>8 DEF Bad
  <2> QED BY <1>0, <2>1, <2>2 DEF vals
<1> QED BY <1>7, <1>8

\* What reading a new leaf from the k-th variant gives.
LeafRead(d, variants, k) == ReadLeaf(Leaves(d)[k], Default(Leaves(d)[k]), variants, k)

\* A leaf is read and the next one gets the next variant, or the leaf stays as it was.
LeafOutcome(d, variants, k) ==
  \/ \E y : LeafRead(d, variants, k) = [val |-> y, next |-> k + 1, fault |-> ""]
  \/ \E fault \in Faults :
       LeafRead(d, variants, k) =
         [val |-> Default(Leaves(d)[k]), next |-> k, fault |-> fault]

\* A new object after the leaves before the n-th have been read.
ReadBefore(d, variants, n) ==
  [k \in 1 .. Len(Leaves(d)) |->
     IF k < n THEN LeafRead(d, variants, k).val ELSE Default(Leaves(d)[k])]

\* What has become of an object when m of its leaves have been visited.
Progress(d, variants, m, r) ==
  \E next \in 1 .. m + 1 : \E fault \in Outcomes :
    /\ r = [val |-> ReadBefore(d, variants, next), next |-> next, fault |-> fault]
    /\ \A k \in 1 .. Len(Leaves(d)) : k < next => LeafRead(d, variants, k).fault = ""
    /\ fault = "" => next = m + 1
    /\ fault # "" => next =< m /\ LeafRead(d, variants, next).fault = fault

\* One leaf more.
LEMMA NextLeafRead ==
  ASSUME NEW d, NEW variants, NEW n \in Nat, n = Len(Leaves(d)), NEW m \in 0 .. n, m # n,
         LeafOutcome(d, variants, m + 1), NEW r, Progress(d, variants, m, r)
  PROVE  Progress(d, variants, m + 1, ReadNextLeaf(d, variants, r, m + 1))
<1> DEFINE R(k) == LeafRead(d, variants, k)
<1>1. PICK next \in 1 .. m + 1, fault \in Outcomes :
        /\ r = [val |-> ReadBefore(d, variants, next), next |-> next, fault |-> fault]
        /\ \A k \in 1 .. n : k < next => R(k).fault = ""
        /\ fault = "" => next = m + 1
        /\ fault # "" => next =< m /\ R(next).fault = fault
  BY DEF Progress
<1>2. m + 1 \in 1 .. n /\ m \in Nat
  OBVIOUS
<1> HIDE DEF R
<1>3. CASE fault # ""
  <2>1. r.fault # ""
    BY <1>1, <1>3
  <2>2. ReadNextLeaf(d, variants, r, m + 1) = r
    BY <2>1 DEF ReadNextLeaf
  <2>3. next \in 1 .. (m + 1) + 1 /\ next =< m + 1
    BY <1>2
  <2> QED BY <1>1, <1>3, <2>2, <2>3 DEF Progress, R, Faults, Outcomes
<1>4. CASE fault = ""
  <2>1. /\ r.fault = "" /\ r.next = m + 1 /\ next = m + 1
        /\ r.val = ReadBefore(d, variants, m + 1)
    BY <1>1, <1>4
  <2>2. r.val[m + 1] = Default(Leaves(d)[m + 1])
    <3>1. ~ (m + 1 < m + 1)
      BY <1>2
    <3> QED BY <1>2, <2>1, <3>1 DEF ReadBefore
  <2>3. ReadNextLeaf(d, variants, r, m + 1) =
          [val |-> [r.val EXCEPT ![m + 1] = R(m + 1).val], next |-> R(m + 1).next,
           fault |-> R(m + 1).fault]
    BY <2>1, <2>2 DEF ReadNextLeaf, LeafRead, R
  <2>4. CASE \E y : R(m + 1) = [val |-> y, next |-> (m + 1) + 1, fault |-> ""]
    <3>1. R(m + 1).next = (m + 1) + 1 /\ R(m + 1).fault = ""
      <4>1. PICK y : R(m + 1) = [val |-> y, next |-> (m + 1) + 1, fault |-> ""]
        BY <2>4
      <4>2. PICK q : q = R(m + 1)
        OBVIOUS
      <4>3. q = [val |-> y, next |-> (m + 1) + 1, fault |-> ""]
        BY <4>1, <4>2
      <4>4. q.next = (m + 1) + 1 /\ q.fault = ""
        BY ONLY <4>3
      <4> QED BY <4>2, <4>4
    <3>2. [r.val EXCEPT ![m + 1] = R(m + 1).val] = ReadBefore(d, variants, (m + 1) + 1)
      <4>1. \A k \in 1 .. n : k < (m + 1) + 1 <=> k < m + 1 \/ k = m + 1
        BY <1>2
      <4> QED BY <1>2, <2>1, <4>1 DEF ReadBefore, R
    <3>3. \A k \in 1 .. n : k < (m + 1) + 1 => R(k).fault = ""
      <4>1. \A k \in 1 .. n : k < (m + 1) + 1 => k < m + 1 \/ k = m + 1
        BY <1>2
      <4> QED BY <1>1, <2>1, <3>1, <4>1
    <3>4. (m + 1) + 1 \in 1 .. (m + 1) + 1
      BY <1>2
    <3> QED BY <2>3, <3>1, <3>2, <3>3, <3>4 DEF Progress, R, Faults, Outcomes
  <2>5. CASE \E f \in Faults :
               R(m + 1) = [val |-> Default(Leaves(d)[m + 1]), next |-> m + 1, fault |-> f]
    <3>1. /\ R(m + 1).val = Default(Leaves(d)[m + 1]) /\ R(m + 1).next = m + 1
          /\ R(m + 1).fault \in Faults
      BY <2>5, Fields
    <3>2. [r.val EXCEPT ![m + 1] = R(m + 1).val] = ReadBefore(d, variants, m + 1)
      <4>1. DOMAIN r.val = 1 .. n /\ r.val = [k \in 1 .. n |-> r.val[k]]
        BY <2>1 DEF ReadBefore
      <4> QED BY <2>1, <2>2, <3>1, <4>1
    <3>3. m + 1 \in 1 .. (m + 1) + 1 /\ m + 1 =< m + 1
      BY <1>2
    <3>5. R(m + 1).fault # "" /\ R(m + 1).fault \in Outcomes
      BY <3>1 DEF Faults, Outcomes
    <3>4. ReadNextLeaf(d, variants, r, m + 1) =
            [val |-> ReadBefore(d, variants, m + 1), next |-> m + 1, fault |-> R(m + 1).fault]
      BY <2>3, <3>1, <3>2
    <3> QED BY <1>1, <2>1, <3>3, <3>4, <3>5 DEF Progress, R
  <2> QED BY <2>4, <2>5 DEF LeafOutcome, R
<1> QED BY <1>3, <1>4

\* An object is read leaf by leaf, each from the variant of its number, up to the first
\* failure: the leaf at which it happens and the ones behind it are those of a new object.
LEMMA ObjectRead ==
  ASSUME NEW d, NEW variants, Len(Leaves(d)) \in Nat,
         \A k \in 1 .. Len(Leaves(d)) : LeafOutcome(d, variants, k)
  PROVE  Progress(d, variants, Len(Leaves(d)), ReadObject(d, variants))
<1>0. PICK n \in Nat : n = Len(Leaves(d))
  OBVIOUS
<1> DEFINE Step(k, r) == ReadNextLeaf(d, variants, r, k)
           Run(f, m) == f = [k \in 0 .. m |-> IF k = 0 THEN NothingRead(d) ELSE Step(k, f[k - 1])]
           T == {m \in 0 .. n : \E f : Run(f, m)}
<1>1. ReadObject(d, variants) = (CHOOSE f : Run(f, n))[n]
  BY <1>0 DEF ReadObject
<1>2. \A m \in 0 .. n : m \in T
  <2> HIDE DEF Step
  <2>1. 0 \in T
    <3>1. Run([k \in 0 .. 0 |-> NothingRead(d)], 0) /\ 0 \in 0 .. n
      OBVIOUS
    <3> HIDE DEF Run
    <3> QED BY <3>1
  <2>2. ASSUME NEW m \in 0 .. n, m # n, m \in T PROVE m + 1 \in T
    <3>1. PICK f : Run(f, m)
      BY <2>2
    <3> DEFINE g == [k \in 0 .. m + 1 |-> IF k =< m THEN f[k] ELSE Step(k, f[m])]
    <3>2. Run(g, m + 1)
      <4>1. ASSUME NEW k \in 0 .. m + 1
            PROVE  g[k] = IF k = 0 THEN NothingRead(d) ELSE Step(k, g[k - 1])
        <5>1. CASE k =< m
          <6>1. k \in 0 .. m /\ g[k] = f[k]
            BY <5>1
          <6>2. k # 0 => k - 1 \in 0 .. m + 1 /\ k - 1 =< m
            BY <5>1
          <6>3. k # 0 => g[k - 1] = f[k - 1]
            BY <6>2
          <6>4. f[k] = IF k = 0 THEN NothingRead(d) ELSE Step(k, f[k - 1])
            BY <3>1, <6>1
          <6> QED BY <6>1, <6>3, <6>4
        <5>2. CASE k = m + 1
          <6>1. ~ (k =< m) /\ k # 0 /\ k - 1 = m /\ m \in 0 .. m + 1 /\ m =< m
            BY <5>2
          <6>2. g[k] = Step(k, f[m]) /\ g[m] = f[m]
            BY <5>2, <6>1
          <6> QED BY <6>1, <6>2
        <5> QED BY <5>1, <5>2
      <4>2. g = [k \in 0 .. m + 1 |-> g[k]]
        OBVIOUS
      <4> HIDE DEF g
      <4> QED BY <4>1, <4>2
    <3>3. m + 1 \in 0 .. n
      BY <2>2
    <3> HIDE DEF g, Run
    <3> QED BY <3>2, <3>3
  <2> HIDE DEF T
  <2> QED BY <2>1, <2>2, StepByStep
<1>3. PICK f : Run(f, n) /\ ReadObject(d, variants) = f[n]
  <2> HIDE DEF Run
  <2>1. \E f : Run(f, n)
    <3>1. n \in 0 .. n
      OBVIOUS
    <3> QED BY <1>2, <3>1
  <2> QED BY <1>1, <2>1
<1>4. \A m \in 0 .. n : m \in {k \in 0 .. n : Progress(d, variants, k, f[k])}
  <2> DEFINE P == {k \in 0 .. n : Progress(d, variants, k, f[k])}
  <2>1. 0 \in P
    <3>1. f[0] = NothingRead(d)
      BY <1>3
    <3>2. ReadBefore(d, variants, 1) = [k \in 1 .. n |-> Default(Leaves(d)[k])]
      BY <1>0 DEF ReadBefore
    <3>3. f[0] = [val |-> ReadBefore(d, variants, 1), next |-> 1, fault |-> ""]
      BY <1>0, <3>1, <3>2 DEF NothingRead
    <3>4. 1 \in 1 .. 0 + 1 /\ 1 = 0 + 1 /\ 0 \in 0 .. n /\ \A k \in 1 .. n : ~ (k < 1)
      OBVIOUS
    <3> QED BY <1>0, <3>3, <3>4 DEF Progress, Outcomes
  <2>2. ASSUME NEW m \in 0 .. n, m # n, m \in P PROVE m + 1 \in P
    <3>1. m + 1 \in 0 .. n /\ m + 1 \in 1 .. n /\ m + 1 # 0 /\ (m + 1) - 1 = m
      BY <2>2
    <3>2. f[m + 1] = ReadNextLeaf(d, variants, f[m], m + 1)
      BY <1>3, <3>1
    <3>3. Progress(d, variants, m + 1, f[m + 1])
      BY <1>0, <2>2, <3>1, <3>2, NextLeafRead
    <3> QED BY <3>1, <3>3
  <2> HIDE DEF P
  <2>3. \A m \in 0 .. n : m \in P
    BY <2>1, <2>2, StepByStep
  <2> QED BY <2>3 DEF P
<1>5. n \in 0 .. n
  OBVIOUS
<1> QED BY <1>0, <1>3, <1>4, <1>5

-----------------------------------------------------------------------------
(* What is read has the shape of the receiver's description *)

\* Reading an object or an array as an item gives a value of its shape or fails.
NestedTyped(d) ==
  d.kind # "primitive" =>
    \A x \in WireVariants :
      \E y : \E fault \in Outcomes :
        /\ NestedRead(d, x) = [val |-> y, fault |-> fault]
        /\ fault = "" => HasShape(d, y)

\* The shape of an item of an array.
IsItem(item, y) ==
  IF item.kind = "primitive" THEN IsPrimitive(item.type, y) ELSE NestedShape(item, y)

\* A new leaf has the shape of its description.
LEMMA DefaultShape ==
  ASSUME NEW leaf \in Descriptions, leaf.kind # "complex"
  PROVE  /\ LeafShape(leaf, Default(leaf))
         /\ leaf.kind = "primitive" => IsPrimitive(leaf.type, Default(leaf))
         /\ leaf.kind # "primitive" => leaf.kind = "array" /\ Default(leaf) = <<>>
<1>1. CASE leaf.kind = "primitive"
  <2>1. IsPrimitive(leaf.type, Default(leaf))
    <3>1. CASE leaf.type \in {"int64", "uint64"}
      <4>1. Default(leaf) = <<0, 0>>
        <5>1. leaf.type # "string" /\ leaf.kind # "array"
          BY <1>1, <3>1
        <5> QED BY <3>1, <5>1 DEF Default
      <4> QED BY <3>1, <4>1 DEF IsPrimitive
    <3>2. CASE leaf.type = "string"
      <4>1. Default(leaf) = <<>> /\ <<>> \in Seq(Nat)
        BY <3>2 DEF Default
      <4> QED BY <3>2, <4>1 DEF IsPrimitive
    <3>3. CASE leaf.type \notin {"int64", "uint64", "string"}
      <4>1. Default(leaf) = <<0>>
        BY <1>1, <3>3 DEF Default
      <4> QED BY <3>3, <4>1 DEF IsPrimitive
    <3> QED BY <3>1, <3>2, <3>3
  <2> QED BY <1>1, <2>1 DEF LeafShape
<1>2. CASE leaf.kind # "primitive"
  <2>1. leaf.kind = "array" /\ leaf.type = ""
    BY <1>2, Kinds
  <2>2. Default(leaf) = <<>>
    BY <2>1 DEF Default
  <2>3. DOMAIN <<>> = 1 .. Len(<<>>) /\ \A i \in 1 .. Len(<<>>) : FALSE
    OBVIOUS
  <2>4. LeafShape(leaf, <<>>)
    BY <2>1, <2>3 DEF LeafShape
  <2> QED BY <2>1, <2>2, <2>4
<1> QED BY <1>1, <1>2

\* An item is read as a value of its shape, or the reading fails.
LEMMA ItemTyped ==
  ASSUME NEW item \in Descriptions, NestedTyped(item), NEW x \in WireVariants,
         NEW i \in 1 .. ArrayLength(x)
  PROVE  \E y : \E fault \in Outcomes :
           /\ ReadItem(item, x, i) = [val |-> y, fault |-> fault]
           /\ fault = "" => IsItem(item, y)
<1>1. /\ x.rank = 1 /\ Len(x.data) \in Nat /\ i \in 1 .. Len(x.data)
      /\ FromWire(x)
  <2>1. FromWire(x)
    BY OnWire
  <2>2. x.rank = 1
    <3>1. ASSUME x.rank # 1 PROVE FALSE
      <4>1. ArrayLength(x) = 0
        BY <3>1 DEF ArrayLength
      <4>2. i \in 1 .. 0
        BY <4>1
      <4> QED BY <4>2
    <3> QED BY <3>1
  <2>3. Len(x.data) \in Nat /\ ArrayLength(x) = Len(x.data)
    BY <2>1, <2>2 DEF FromWire, ArrayLength
  <2> QED BY <2>1, <2>2, <2>3
<1>2. CASE x.type # TypeIndex(item)
  <2>1. ReadItem(item, x, i) = [val |-> <<>>, fault |-> "InvalidConversion"]
    BY <1>2 DEF ReadItem, Failure
  <2> QED BY <2>1 DEF Outcomes
<1>3. CASE x.type = TypeIndex(item) /\ item.kind = "primitive"
  <2>1. item.type \in PrimitiveTypes /\ x.type = UaType(item.type)
    BY <1>3, Kinds DEF TypeIndex
  <2>2. \A k \in 1 .. Len(x.data) : IsWireData(UaType(item.type), x.data[k])
    BY <1>1, <2>1 DEF FromWire
  <2>3. IsPrimitive(item.type, LoadItem(item.type, x.data, i))
    BY <1>1, <2>1, <2>2, LoadedItemIsPrimitive
  <2>4. ReadItem(item, x, i) = [val |-> LoadItem(item.type, x.data, i), fault |-> ""]
    BY <1>3 DEF ReadItem
  <2> QED BY <1>3, <2>3, <2>4 DEF IsItem, Outcomes
<1>4. CASE x.type = TypeIndex(item) /\ item.kind = "complex" /\ x.data[1].rank # 1
  <2>1. ReadItem(item, x, i) = [val |-> <<>>, fault |-> "InvalidConversion"]
    BY <1>4 DEF ReadItem, Failure
  <2> QED BY <2>1 DEF Outcomes
<1>5. CASE /\ x.type = TypeIndex(item) /\ item.kind # "primitive"
           /\ ~ (item.kind = "complex" /\ x.data[1].rank # 1)
  <2>1. ReadItem(item, x, i) = NestedRead(item, x.data[i])
    BY <1>5 DEF ReadItem
  <2>2. x.data[i] \in WireVariants
    BY <1>1, <1>5, OnWire DEF TypeIndex
  <2>0. PICK y : \E fault \in Outcomes :
          /\ NestedRead(item, x.data[i]) = [val |-> y, fault |-> fault]
          /\ fault = "" => HasShape(item, y)
    BY <1>5, <2>2 DEF NestedTyped
  <2>3. PICK fault \in Outcomes :
          /\ NestedRead(item, x.data[i]) = [val |-> y, fault |-> fault]
          /\ fault = "" => HasShape(item, y)
    BY <2>0
  <2>4. NestedRead(item, x.data[i]).val = y
    BY <2>3, ItemFields
  <2>5. NestedShape(item, y) <=> HasShape(item, y)
    BY <1>5, <2>2, <2>4, Unfold
  <2> QED BY <1>5, <2>1, <2>3, <2>5 DEF IsItem
<1> QED BY <1>2, <1>3, <1>4, <1>5

\* The number of items of a variant.
LEMMA ItemNumber ==
  ASSUME NEW x \in WireVariants
  PROVE  ArrayLength(x) \in Nat
<1>1. CASE x.rank = 1
  BY <1>1, OnWire DEF ArrayLength, FromWire
<1>2. CASE x.rank # 1
  BY <1>2 DEF ArrayLength
<1> QED BY <1>1, <1>2

\* An array is read as a value of its shape, or the reading fails and leaves it empty.
LEMMA ArrayTyped ==
  ASSUME NEW leaf \in Descriptions, leaf.kind = "array", NestedTyped(leaf.els[1]),
         NEW x \in WireVariants
  PROVE  \/ \E y : /\ ReadArray(leaf.els[1], <<>>, x) = [val |-> y, fault |-> ""]
                   /\ LeafShape(leaf, y)
         \/ \E fault \in Faults :
              ReadArray(leaf.els[1], <<>>, x) = [val |-> <<>>, fault |-> fault]
<1> DEFINE item == leaf.els[1]
           R(i) == ReadItem(item, x, i)
<1>0. item \in Descriptions
  BY Kinds
<1>1. PICK n \in Nat : n = ArrayLength(x)
  BY ItemNumber
<1>2. \A i \in 1 .. n : R(i).fault \in Outcomes /\ (R(i).fault = "" => IsItem(item, R(i).val))
  <2>1. ASSUME NEW i \in 1 .. n
        PROVE  R(i).fault \in Outcomes /\ (R(i).fault = "" => IsItem(item, R(i).val))
    <3>0. PICK y : \E fault \in Outcomes :
            /\ R(i) = [val |-> y, fault |-> fault]
            /\ fault = "" => IsItem(item, y)
      BY <1>0, <1>1, ItemTyped
    <3>1. PICK fault \in Outcomes :
            /\ R(i) = [val |-> y, fault |-> fault]
            /\ fault = "" => IsItem(item, y)
      BY <3>0
    <3>2. R(i).val = y /\ R(i).fault = fault
      <4> HIDE DEF R
      <4> QED BY <3>1, ItemFields
    <3> HIDE DEF R
    <3> QED BY <3>1, <3>2
  <2> HIDE DEF R
  <2> QED BY <2>1
<1>3. CASE \E i \in 1 .. n :
             R(i).fault # "" /\ ReadArray(item, <<>>, x) = [val |-> <<>>, fault |-> R(i).fault]
  <2> HIDE DEF R
  <2>1. PICK i \in 1 .. n :
             R(i).fault # "" /\ ReadArray(item, <<>>, x) = [val |-> <<>>, fault |-> R(i).fault]
    BY <1>3
  <2>2. R(i).fault \in Faults
    BY <1>2, <2>1 DEF Faults, Outcomes
  <2> QED BY <2>1, <2>2
<1>4. CASE /\ \A i \in 1 .. n : R(i).fault = ""
           /\ ReadArray(item, <<>>, x) = [val |-> [i \in 1 .. n |-> R(i).val], fault |-> ""]
  <2> DEFINE y == [i \in 1 .. n |-> R(i).val]
  <2> HIDE DEF R
  <2>1. Len(y) = n /\ DOMAIN y = 1 .. n
    OBVIOUS
  <2>2. \A i \in 1 .. n : y[i] = R(i).val
    OBVIOUS
  <2>3. \A i \in 1 .. n : IsItem(item, y[i])
    BY <1>2, <1>4, <2>2
  <2> HIDE DEF y
  <2>4. LeafShape(leaf, y)
    BY <2>1, <2>3 DEF LeafShape, IsItem
  <2> QED BY <1>4, <2>4 DEF y
<1> QED BY <1>1, <1>3, <1>4, ArrayRead

\* A list of variants as it comes to a receiver.
OnTheWay(variants) ==
  Len(variants) \in Nat /\ \A k \in 1 .. Len(variants) : variants[k] \in WireVariants

\* The items inside the leaves of an object.
LEMMA InnerItems ==
  ASSUME NEW d \in Descriptions, d.kind = "complex", NEW k \in 1 .. Len(Leaves(d))
  PROVE  /\ Leaves(d)[k] \in Descriptions
         /\ Leaves(d)[k].kind # "complex"
         /\ Leaves(d)[k].kind # "primitive" =>
              /\ Leaves(d)[k].kind = "array"
              /\ Leaves(d)[k].els[1] \in Descriptions
              /\ Rank(Leaves(d)[k].els[1]) < Rank(d)
<1>1. /\ Leaves(d) \in Seq(Descriptions)
      /\ Leaves(d)[k].kind # "complex" /\ Rank(Leaves(d)[k]) < Rank(d)
  BY Kinds
<1>2. PICK leaf \in Descriptions : leaf = Leaves(d)[k]
  BY <1>1
<1>3. leaf.kind # "primitive" =>
        leaf.kind = "array" /\ leaf.els[1] \in Descriptions /\ Rank(leaf.els[1]) < Rank(leaf)
  BY <1>1, <1>2, Kinds
<1>4. ASSUME leaf.kind # "primitive" PROVE Rank(leaf.els[1]) < Rank(d)
  <2>1. Rank(leaf) \in Nat /\ Rank(d) \in Nat /\ Rank(leaf.els[1]) \in Nat
    BY <1>3, <1>4, Kinds
  <2> QED BY <1>1, <1>2, <1>3, <1>4, <2>1
<1> QED BY <1>1, <1>2, <1>3, <1>4

\* A leaf is read as a value of its shape, or the reading fails and leaves it as it was.
LEMMA LeafTyped ==
  ASSUME NEW d \in Descriptions, d.kind = "complex", NEW variants, OnTheWay(variants),
         \A e \in Descriptions : Rank(e) < Rank(d) => NestedTyped(e),
         NEW k \in 1 .. Len(Leaves(d))
  PROVE  /\ LeafOutcome(d, variants, k)
         /\ LeafRead(d, variants, k).fault = "" =>
              LeafShape(Leaves(d)[k], LeafRead(d, variants, k).val)
<1>1. PICK leaf \in Descriptions : leaf = Leaves(d)[k]
  BY InnerItems
<1>2. /\ leaf.kind # "complex"
      /\ leaf.kind # "primitive" => leaf.kind = "array" /\ NestedTyped(leaf.els[1])
  BY <1>1, InnerItems
<1>3. PICK r : r = LeafRead(d, variants, k)
  OBVIOUS
<1>4. r = ReadLeaf(leaf, Default(leaf), variants, k)
  BY <1>1, <1>3 DEF LeafRead
<1>5. k \in Nat \ {0}
  <2>1. Leaves(d) \in Seq(Descriptions)
    BY Kinds
  <2>2. Len(Leaves(d)) \in Nat
    BY <2>1
  <2> QED BY <2>2
<1>6. \/ \E y : r = [val |-> y, next |-> k + 1, fault |-> ""] /\ LeafShape(leaf, y)
      \/ \E fault \in Faults : r = [val |-> Default(leaf), next |-> k, fault |-> fault]
  <2>1. CASE leaf.kind = "primitive"
    <3>1. leaf.type \in PrimitiveTypes
      BY <2>1, Kinds
    <3>2. IsPrimitive(leaf.type, Default(leaf))
      BY <1>2, <2>1, DefaultShape
    <3>3. \A i \in 1 .. Len(variants) : FromWire(variants[i])
      BY OnWire DEF OnTheWay
    <3>4. r = ReadPrimitive(leaf.type, Default(leaf), variants, k)
      BY <1>4, <2>1 DEF ReadLeaf
    <3>5. \/ \E y : /\ IsPrimitive(leaf.type, y)
                    /\ r = [val |-> y, next |-> k + 1, fault |-> ""]
          \/ \E fault \in {"assertion", "undefined"} :
               r = [val |-> Default(leaf), next |-> k, fault |-> fault]
      BY <1>5, <3>1, <3>2, <3>3, <3>4, ReadKeepsType DEF OnTheWay
    <3> QED BY <2>1, <3>5 DEF LeafShape, Faults
  <2>2. CASE leaf.kind # "primitive" /\ k > Len(variants)
    <3>1. r = [val |-> Default(leaf), next |-> k, fault |-> "assertion"]
      BY <1>4, <2>2 DEF ReadLeaf
    <3> QED BY <3>1 DEF Faults
  <2>3. CASE leaf.kind # "primitive" /\ ~ (k > Len(variants))
    <3>1. k \in 1 .. Len(variants)
      <4>1. PICK m \in Nat : m = Len(variants)
        BY DEF OnTheWay
      <4> QED BY <1>5, <2>3, <4>1
    <3>2. PICK x \in WireVariants : x = variants[k]
      BY <3>1 DEF OnTheWay
    <3>3. Default(leaf) = <<>>
      BY <1>2, <2>3, DefaultShape
    <3>4. PICK q : q = ReadArray(leaf.els[1], <<>>, x)
      OBVIOUS
    <3>5. r = [val |-> q.val, next |-> IF q.fault = "" THEN k + 1 ELSE k, fault |-> q.fault]
      BY <1>4, <2>3, <3>2, <3>3, <3>4 DEF ReadLeaf
    <3>6. CASE \E y : q = [val |-> y, fault |-> ""] /\ LeafShape(leaf, y)
      <4>1. PICK y : q = [val |-> y, fault |-> ""] /\ LeafShape(leaf, y)
        BY <3>6
      <4>2. q.val = y /\ q.fault = ""
        BY ONLY <4>1
      <4>3. r = [val |-> y, next |-> k + 1, fault |-> ""]
        BY <3>5, <4>2
      <4> QED BY <4>1, <4>3
    <3>7. CASE \E fault \in Faults : q = [val |-> <<>>, fault |-> fault]
      <4>1. PICK fault \in Faults : q = [val |-> <<>>, fault |-> fault]
        BY <3>7
      <4>2. q.val = <<>> /\ q.fault = fault
        BY ONLY <4>1
      <4>3. fault # ""
        BY DEF Faults
      <4>4. r = [val |-> <<>>, next |-> k, fault |-> fault]
        BY <3>5, <4>2, <4>3
      <4> QED BY <3>3, <4>4
    <3> QED BY <1>2, <2>3, <3>4, <3>6, <3>7, ArrayTyped
  <2> QED BY <2>1, <2>2, <2>3
<1>7. LeafOutcome(d, variants, k)
  BY <1>1, <1>3, <1>6 DEF LeafOutcome
<1>8. r.fault = "" => LeafShape(leaf, r.val)
  <2>1. CASE \E y : r = [val |-> y, next |-> k + 1, fault |-> ""] /\ LeafShape(leaf, y)
    <3>1. PICK y : r = [val |-> y, next |-> k + 1, fault |-> ""] /\ LeafShape(leaf, y)
      BY <2>1
    <3>2. r.val = y
      BY ONLY <3>1
    <3> QED BY <3>1, <3>2
  <2>2. CASE \E fault \in Faults : r = [val |-> Default(leaf), next |-> k, fault |-> fault]
    <3>1. PICK fault \in Faults : r = [val |-> Default(leaf), next |-> k, fault |-> fault]
      BY <2>2
    <3>2. r.fault = fault
      BY ONLY <3>1
    <3> QED BY <3>2 DEF Faults
  <2> QED BY <1>6, <2>1, <2>2
<1> QED BY <1>1, <1>3, <1>7, <1>8

\* An object is read as a value of its shape, also if the reading fails in the middle.
LEMMA ObjectTyped ==
  ASSUME NEW d \in Descriptions, d.kind = "complex", NEW variants, OnTheWay(variants),
         \A e \in Descriptions : Rank(e) < Rank(d) => NestedTyped(e)
  PROVE  /\ Progress(d, variants, Len(Leaves(d)), ReadObject(d, variants))
         /\ \E y, next : \E fault \in Outcomes :
              /\ ReadObject(d, variants) = [val |-> y, next |-> next, fault |-> fault]
              /\ HasShape(d, y)
<1>1. PICK n \in Nat : n = Len(Leaves(d))
  <2>1. Leaves(d) \in Seq(Descriptions)
    BY Kinds
  <2> QED BY <2>1
<1>2. Progress(d, variants, n, ReadObject(d, variants))
  BY <1>1, LeafTyped, ObjectRead
<1>3. PICK next \in 1 .. n + 1 : \E fault \in Outcomes :
        /\ ReadObject(d, variants) =
             [val |-> ReadBefore(d, variants, next), next |-> next, fault |-> fault]
        /\ \A k \in 1 .. n : k < next => LeafRead(d, variants, k).fault = ""
  BY <1>1, <1>2 DEF Progress
<1>4. PICK y : y = ReadBefore(d, variants, next)
  OBVIOUS
<1>5. DOMAIN y = 1 .. n
  BY <1>1, <1>4 DEF ReadBefore
<1>6. ASSUME NEW k \in 1 .. n PROVE LeafShape(Leaves(d)[k], y[k])
  <2>1. CASE k < next
    <3>1. y[k] = LeafRead(d, variants, k).val
      BY <1>1, <1>4, <2>1 DEF ReadBefore
    <3> QED BY <1>1, <1>3, <2>1, <3>1, LeafTyped
  <2>2. CASE ~ (k < next)
    <3>1. y[k] = Default(Leaves(d)[k])
      BY <1>1, <1>4, <2>2 DEF ReadBefore
    <3> QED BY <1>1, <3>1, InnerItems, DefaultShape
  <2> QED BY <2>1, <2>2
<1>7. HasShape(d, y)
  BY <1>1, <1>5, <1>6 DEF HasShape
<1> QED BY <1>1, <1>2, <1>3, <1>4, <1>7

\* Whatever is read as an item of an array is of its shape.
LEMMA AllNestedTyped == \A d \in Descriptions : NestedTyped(d)
<1> DEFINE T == {d \in Descriptions : NestedTyped(d)}
<1>1. ASSUME NEW d \in Descriptions, \A e \in Descriptions : Rank(e) < Rank(d) => NestedTyped(e),
             d.kind # "primitive", NEW x \in WireVariants
      PROVE  \E y : \E fault \in Outcomes :
               /\ NestedRead(d, x) = [val |-> y, fault |-> fault]
               /\ fault = "" => HasShape(d, y)
  <2>1. NestedRead(d, x) = ReadNestedItem(d, x)
    BY <1>1, Unfold
  <2>2. CASE d.kind = "array"
    <3>1. NestedTyped(d.els[1])
      BY <1>1, <2>2, Kinds
    <3>2. NestedRead(d, x) = ReadArray(d.els[1], <<>>, x)
      BY <2>1, <2>2 DEF ReadNestedItem
    <3>3. \A y : LeafShape(d, y) <=> HasShape(d, y)
      BY <2>2 DEF HasShape
    <3>4. \A fault \in Faults : fault \in Outcomes /\ fault # ""
      BY DEF Faults, Outcomes
    <3>5. "" \in Outcomes
      BY DEF Outcomes
    <3> QED BY <2>2, <3>1, <3>2, <3>3, <3>4, <3>5, ArrayTyped
  <2>3. CASE d.kind = "complex" /\ ArrayLength(x) > 0 /\ x.type # "variant"
    <3>1. NestedRead(d, x) = [val |-> <<>>, fault |-> "undefined"]
      BY <2>1, <2>3 DEF ReadNestedItem, Failure
    <3> QED BY <3>1 DEF Outcomes
  <2>4. CASE d.kind = "complex" /\ ~ (ArrayLength(x) > 0 /\ x.type # "variant")
    <3> DEFINE variants == IF ArrayLength(x) = 0 THEN <<>> ELSE x.data
    <3>1. OnTheWay(variants)
      <4>1. CASE ArrayLength(x) = 0
        BY <4>1 DEF OnTheWay
      <4>2. CASE ArrayLength(x) # 0
        <5>1. x.type = "variant"
          <6>1. PICK n \in Nat : n = ArrayLength(x)
            BY ItemNumber
          <6> QED BY <2>4, <4>2, <6>1
        <5>2. x.rank = 1 /\ Len(x.data) \in Nat
          BY <5>1, OnWire DEF FromWire
        <5> QED BY <4>2, <5>1, <5>2, OnWire DEF OnTheWay
      <4> QED BY <4>1, <4>2
    <3>2. PICK r : r = ReadObject(d, variants)
      OBVIOUS
    <3> HIDE DEF variants
    <3>3. NestedRead(d, x) = [val |-> r.val, fault |-> r.fault]
      BY <2>1, <2>4, <3>2 DEF ReadNestedItem, variants
    <3>4. PICK y, next : \E fault \in Outcomes :
            r = [val |-> y, next |-> next, fault |-> fault] /\ HasShape(d, y)
      BY <1>1, <2>4, <3>1, <3>2, ObjectTyped
    <3>5. PICK fault \in Outcomes :
            r = [val |-> y, next |-> next, fault |-> fault] /\ HasShape(d, y)
      BY <3>4
    <3>6. r.val = y /\ r.fault = fault
      BY ONLY <3>5
    <3> QED BY <3>3, <3>5, <3>6
  <2> QED BY <1>1, <2>2, <2>3, <2>4, Kinds
<1>2. ASSUME NEW d \in Descriptions, \A e \in Descriptions : Rank(e) < Rank(d) => e \in T
      PROVE  d \in T
  <2>1. \A e \in Descriptions : Rank(e) < Rank(d) => NestedTyped(e)
    BY <1>2
  <2>2. NestedTyped(d)
    BY <1>1, <2>1 DEF NestedTyped
  <2> QED BY <2>2
<1>3. \A d \in Descriptions : d \in T
  <2> HIDE DEF T
  <2> QED BY <1>2, RankInduction
<1> QED BY <1>3

-----------------------------------------------------------------------------
(* What is sent arrives *)

\* An object or an array that survives arrives as an item.
NestedArrives(d) ==
  d.kind # "primitive" =>
    \A v \in Objects(d) :
      Survives(d, v) => NestedRead(d, ToVariant(d, v)) = [val |-> v, fault |-> ""]

\* Survival of an array is survival of its items.
LEMMA SurvivingItems ==
  ASSUME NEW leaf \in Descriptions, leaf.kind = "array", NEW v \in Objects(leaf),
         Survives(leaf, v)
  PROVE  /\ leaf.els[1].type = "int64" =>
              Len(v) =< 1 /\ \A i \in 1 .. Len(v) : v[i][2] = IF v[i][1] < 0 THEN -1 ELSE 0
         /\ leaf.els[1].type = "string" => \A i \in 1 .. Len(v) : CString(v[i]) = v[i]
         /\ leaf.els[1].kind # "primitive" => \A i \in 1 .. Len(v) : Survives(leaf.els[1], v[i])
<1> DEFINE item == leaf.els[1]
<1>1. item \in Descriptions
  BY Kinds
<1>2. item.kind # "primitive" => item.type \notin {"int64", "string"}
  BY <1>1, Kinds
<1>3. CASE item.type = "int64"
  BY <1>2, <1>3 DEF Survives
<1>4. CASE item.type = "string"
  BY <1>2, <1>4 DEF Survives
<1>5. CASE item.kind # "primitive"
  <2>1. \A i \in 1 .. Len(v) : NestedSurvives(item, v[i])
    BY <1>2, <1>5 DEF Survives
  <2>2. \A i \in 1 .. Len(v) : v[i] \in Objects(item)
    BY ArrayOnWire
  <2>3. \A i \in 1 .. Len(v) : Survives(item, v[i])
    BY <1>1, <2>1, <2>2, Unfold
  <2> QED BY <1>2, <1>5, <2>3
<1> QED BY <1>3, <1>4, <1>5

\* Every item of an array that survives arrives.
LEMMA ItemArrives ==
  ASSUME NEW leaf \in Descriptions, leaf.kind = "array", NestedArrives(leaf.els[1]),
         NEW v \in Objects(leaf), Survives(leaf, v), NEW i \in 1 .. Len(v)
  PROVE  ReadItem(leaf.els[1], ToVariant(leaf, v), i) = [val |-> v[i], fault |-> ""]
<1> DEFINE item == leaf.els[1]
<1>1. PICK data :
         /\ ToVariant(leaf, v) = [type |-> TypeIndex(item), rank |-> 1, data |-> data]
         /\ data = [k \in 1 .. Len(v) |-> ArrayItem(item, v[k])]
         /\ Len(v) \in Nat /\ Len(data) = Len(v)
         /\ item \in Descriptions
         /\ \A k \in 1 .. Len(v) : v[k] \in Objects(item)
         /\ item.kind # "primitive" =>
              \A k \in 1 .. Len(v) : data[k] = ToVariant(item, v[k]) /\ data[k] \in WireVariants
  BY ArrayOnWire
<1>2. PICK x : x = ToVariant(leaf, v)
  OBVIOUS
<1>3. x.type = TypeIndex(item) /\ x.data = data
  BY <1>1, <1>2
<1>4. CASE item.kind = "primitive"
  <2>1. item.type \in PrimitiveTypes /\ IsPrimitive(item.type, v[i])
    BY <1>1, <1>4, Kinds, ObjectParts
  <2>2. data = [k \in 1 .. Len(v) |-> StoredItem(item.type, v[k])]
    BY <1>1, <1>4 DEF ArrayItem
  <2>3. ReadItem(item, x, i) = [val |-> LoadItem(item.type, data, i), fault |-> ""]
    BY <1>3, <1>4 DEF ReadItem
  <2>4. LoadItem(item.type, data, i) = v[i]
    <3>1. CASE item.type = "int64"
      <4>1. PICK n \in Nat : n = Len(v)
        BY <1>1
      <4>2. n = 1 /\ i = 1
        BY <3>1, <4>1, SurvivingItems
      <4>3. v[1][2] = IF v[1][1] < 0 THEN -1 ELSE 0
        BY <3>1, <4>2, SurvivingItems
      <4> QED BY <2>1, <2>2, <3>1, <4>1, <4>2, <4>3, Int64Arrives
    <3>2. CASE item.type # "int64"
      <4>1. item.type = "string" => CString(v[i]) = v[i]
        BY SurvivingItems
      <4> QED BY <2>1, <2>2, <3>2, <4>1, ItemsArrive
    <3> QED BY <3>1, <3>2
  <2> QED BY <1>2, <2>3, <2>4
<1>5. CASE item.kind # "primitive"
  <2>1. v[i] \in Objects(item) /\ Survives(item, v[i])
    BY <1>1, <1>5, SurvivingItems
  <2>2. ~ (item.kind = "complex" /\ x.data[1].rank # 1)
    <3>1. ASSUME item.kind = "complex" PROVE x.data[1].rank = 1
      <4>1. 1 \in 1 .. Len(v)
        BY <1>1
      <4>2. x.data[1] = [type |-> "variant", rank |-> 1, data |-> Variants(item, v[1])]
        BY <1>1, <1>3, <1>5, <3>1, <4>1 DEF ToVariant
      <4>3. PICK z : z = x.data[1]
        OBVIOUS
      <4>4. z = [type |-> "variant", rank |-> 1, data |-> Variants(item, v[1])]
        BY <4>2, <4>3
      <4>5. z.rank = 1
        BY ONLY <4>4
      <4> QED BY <4>3, <4>5
    <3> QED BY <3>1
  <2>3. ReadItem(item, x, i) = NestedRead(item, x.data[i])
    BY <1>3, <1>5, <2>2 DEF ReadItem
  <2>4. x.data[i] = ToVariant(item, v[i])
    BY <1>1, <1>3, <1>5
  <2> QED BY <1>2, <1>5, <2>1, <2>3, <2>4 DEF NestedArrives
<1> QED BY <1>4, <1>5

\* An array that survives arrives.
LEMMA ArrayArrives ==
  ASSUME NEW leaf \in Descriptions, leaf.kind = "array", NestedArrives(leaf.els[1]),
         NEW v \in Objects(leaf), Survives(leaf, v)
  PROVE  ReadArray(leaf.els[1], <<>>, ToVariant(leaf, v)) = [val |-> v, fault |-> ""]
<1> DEFINE item == leaf.els[1]
<1>1. PICK x : x = ToVariant(leaf, v)
  OBVIOUS
<1>2. PICK n \in Nat : n = Len(v)
  BY ArrayOnWire
<1>3. ArrayLength(x) = n
  <2>1. PICK data : /\ x = [type |-> TypeIndex(item), rank |-> 1, data |-> data]
                    /\ Len(data) = n
    BY <1>1, <1>2, ArrayOnWire
  <2>2. x.rank = 1 /\ x.data = data
    BY <2>1
  <2> QED BY <2>1, <2>2 DEF ArrayLength
<1>4. ASSUME NEW i \in 1 .. n
      PROVE  ReadItem(item, x, i).val = v[i] /\ ReadItem(item, x, i).fault = ""
  <2>1. ReadItem(item, x, i) = [val |-> v[i], fault |-> ""]
    BY <1>1, <1>2, ItemArrives
  <2>2. PICK q : q = ReadItem(item, x, i)
    OBVIOUS
  <2>3. q = [val |-> v[i], fault |-> ""]
    BY <2>1, <2>2
  <2>4. q.val = v[i] /\ q.fault = ""
    BY ONLY <2>3
  <2> QED BY <2>2, <2>4
<1>5. /\ \A i \in 1 .. n : ReadItem(item, x, i).fault = ""
      /\ ReadArray(item, <<>>, x) =
           [val |-> [i \in 1 .. n |-> ReadItem(item, x, i).val], fault |-> ""]
  BY <1>3, <1>4, ArrayRead
<1>6. v = [i \in 1 .. n |-> v[i]]
  <2>1. v \in Seq(Objects(item))
    BY ObjectParts
  <2> QED BY <1>2, <2>1
<1>7. [i \in 1 .. n |-> ReadItem(item, x, i).val] = [i \in 1 .. n |-> v[i]]
  BY <1>4
<1> QED BY <1>1, <1>5, <1>6, <1>7

\* A leaf that survives arrives, and the next one gets the next variant.
LEMMA LeafArrives ==
  ASSUME NEW leaf \in Descriptions, leaf.kind # "complex",
         leaf.kind = "array" => NestedArrives(leaf.els[1]),
         NEW v \in Objects(leaf), Survives(leaf, v),
         NEW variants, Len(variants) \in Nat, NEW k \in 1 .. Len(variants),
         variants[k] = ToVariant(leaf, v)
  PROVE  ReadLeaf(leaf, Default(leaf), variants, k) =
           [val |-> v, next |-> k + 1, fault |-> ""]
<1>0. ~ (k > Len(variants))
  <2>1. PICK n \in Nat : n = Len(variants)
    OBVIOUS
  <2> QED BY <2>1
<1>1. CASE leaf.kind = "primitive"
  <2>1. leaf.type \in PrimitiveTypes /\ IsPrimitive(leaf.type, v)
    BY <1>1, Kinds, ObjectParts
  <2>2. LoadScalar(leaf.type, Stored(leaf.type, v)) = v
    BY <1>1, <2>1, ScalarArrives DEF Survives
  <2>3. PICK x : x = ToVariant(leaf, v)
    OBVIOUS
  <2>4. x = [type |-> UaType(leaf.type), rank |-> -1, data |-> Stored(leaf.type, v)]
    BY <1>1, <2>3 DEF ToVariant, ScalarVariant
  <2>5. x.type = UaType(leaf.type) /\ x.rank = -1 /\ x.data = Stored(leaf.type, v)
    BY ONLY <2>4
  <2>6. FirstData(x) = Stored(leaf.type, v)
    BY <2>5 DEF FirstData
  <2>7. x.type = UaType(leaf.type) /\ x.rank # 1
    BY <2>5
  <2>8. ReadScalar(leaf.type, Default(leaf), x, k) =
          [val |-> LoadScalar(leaf.type, FirstData(x)), next |-> k + 1, fault |-> ""]
    BY <2>7 DEF ReadScalar
  <2>9. ReadLeaf(leaf, Default(leaf), variants, k) = ReadScalar(leaf.type, Default(leaf), x, k)
    BY <1>0, <1>1, <2>3 DEF ReadLeaf, ReadPrimitive
  <2> QED BY <2>2, <2>6, <2>8, <2>9
<1>2. CASE leaf.kind # "primitive"
  <2>1. leaf.kind = "array" /\ Default(leaf) = <<>>
    BY <1>2, DefaultShape
  <2>2. PICK q : q = ReadArray(leaf.els[1], <<>>, variants[k])
    OBVIOUS
  <2>3. q = [val |-> v, fault |-> ""]
    BY <2>1, <2>2, ArrayArrives
  <2>4. q.val = v /\ q.fault = ""
    BY ONLY <2>3
  <2>5. ReadLeaf(leaf, Default(leaf), variants, k) =
          [val |-> q.val, next |-> IF q.fault = "" THEN k + 1 ELSE k, fault |-> q.fault]
    BY <1>0, <1>2, <2>1, <2>2 DEF ReadLeaf
  <2> QED BY <2>4, <2>5
<1> QED BY <1>1, <1>2

\* Survival of an object is survival of its leaves.
LEMMA SurvivingLeaves ==
  ASSUME NEW d \in Descriptions, d.kind = "complex", NEW v \in Objects(d), Survives(d, v),
         NEW k \in 1 .. Len(Leaves(d))
  PROVE  Survives(Leaves(d)[k], v[k])
<1>1. NestedSurvives(Leaves(d)[k], v[k])
  BY DEF Survives
<1>2. Leaves(d)[k] \in Descriptions /\ v[k] \in Objects(Leaves(d)[k])
  BY InnerItems, ObjectParts
<1> QED BY <1>1, <1>2, Unfold

\* A leaf of a receiver takes over what the sender has at the same place, if both have the same
\* description there and the value survives.
LEMMA LeafTakesOver ==
  ASSUME NEW d \in Descriptions, d.kind = "complex", NEW v \in Objects(d),
         NEW e \in Descriptions, e.kind = "complex",
         NEW k \in 1 .. Len(Leaves(d)), k \in 1 .. Len(Leaves(e)), Leaves(e)[k] = Leaves(d)[k],
         Leaves(d)[k].kind = "array" => NestedArrives(Leaves(d)[k].els[1]),
         Survives(Leaves(d)[k], v[k])
  PROVE  LeafRead(e, Variants(d, v), k) = [val |-> v[k], next |-> k + 1, fault |-> ""]
<1>1. /\ Len(Variants(d, v)) = Len(Leaves(d)) /\ Len(Leaves(d)) \in Nat
      /\ Variants(d, v)[k] = ToVariant(Leaves(d)[k], v[k])
  BY VariantsOnWire
<1>2. /\ Leaves(d)[k] \in Descriptions /\ Leaves(d)[k].kind # "complex"
      /\ v[k] \in Objects(Leaves(d)[k])
  BY InnerItems, ObjectParts
<1>3. PICK leaf \in Descriptions : leaf = Leaves(d)[k]
  BY <1>2
<1>4. PICK variants : variants = Variants(d, v)
  OBVIOUS
<1>5. ReadLeaf(leaf, Default(leaf), variants, k) = [val |-> v[k], next |-> k + 1, fault |-> ""]
  BY <1>1, <1>2, <1>3, <1>4, LeafArrives
<1> QED BY <1>3, <1>4, <1>5 DEF LeafRead

\* An object that survives arrives.
LEMMA ObjectArrives ==
  ASSUME NEW d \in Descriptions, d.kind = "complex", NEW v \in Objects(d), Survives(d, v),
         \A e \in Descriptions : Rank(e) < Rank(d) => NestedArrives(e)
  PROVE  ReadObject(d, Variants(d, v)) =
           [val |-> v, next |-> Len(Leaves(d)) + 1, fault |-> ""]
<1> DEFINE variants == Variants(d, v)
<1>1. PICK n \in Nat : n = Len(Leaves(d))
  BY VariantsOnWire
<1>2. ASSUME NEW k \in 1 .. n
      PROVE  LeafRead(d, variants, k) = [val |-> v[k], next |-> k + 1, fault |-> ""]
  <2>1. Leaves(d)[k].kind = "array" => NestedArrives(Leaves(d)[k].els[1])
    BY <1>1, InnerItems
  <2> QED BY <1>1, <2>1, SurvivingLeaves, LeafTakesOver
<1> HIDE DEF variants
<1>3. ASSUME NEW k \in 1 .. n
      PROVE  LeafRead(d, variants, k).val = v[k] /\ LeafRead(d, variants, k).fault = ""
  <2>1. PICK q : q = LeafRead(d, variants, k)
    OBVIOUS
  <2>2. q = [val |-> v[k], next |-> k + 1, fault |-> ""]
    BY <1>2, <2>1
  <2>3. q.val = v[k] /\ q.fault = ""
    BY ONLY <2>2
  <2> QED BY <2>1, <2>3
<1>4. Progress(d, variants, n, ReadObject(d, variants))
  <2>1. \A k \in 1 .. n : LeafOutcome(d, variants, k)
    BY <1>2 DEF LeafOutcome
  <2> QED BY <1>1, <2>1, ObjectRead
<1>5. PICK next \in 1 .. n + 1 : \E fault \in Outcomes :
        /\ ReadObject(d, variants) =
             [val |-> ReadBefore(d, variants, next), next |-> next, fault |-> fault]
        /\ fault = "" => next = n + 1
        /\ fault # "" => next =< n /\ LeafRead(d, variants, next).fault = fault
  BY <1>4 DEF Progress
<1>6. PICK fault \in Outcomes :
        /\ ReadObject(d, variants) =
             [val |-> ReadBefore(d, variants, next), next |-> next, fault |-> fault]
        /\ fault = "" => next = n + 1
        /\ fault # "" => next =< n /\ LeafRead(d, variants, next).fault = fault
  BY <1>5
<1>7. fault = ""
  <2>1. ASSUME fault # "" PROVE FALSE
    <3>1. next =< n
      BY <1>6, <2>1
    <3>2. next \in 1 .. n
      BY <3>1
    <3> QED BY <1>3, <1>6, <2>1, <3>2
  <2> QED BY <2>1
<1>8. next = n + 1
  BY <1>6, <1>7
<1>9. ReadBefore(d, variants, next) = v
  <2>1. v = [k \in 1 .. n |-> v[k]]
    BY <1>1, ObjectParts
  <2>2. \A k \in 1 .. n : k < next
    BY <1>8
  <2>3. ReadBefore(d, variants, next) = [k \in 1 .. n |-> v[k]]
    BY <1>1, <1>3, <2>2 DEF ReadBefore
  <2> QED BY <2>1, <2>3
<1> QED BY <1>1, <1>6, <1>7, <1>8, <1>9 DEF variants

\* Whatever survives as an item of an array arrives.
LEMMA AllNestedArrive == \A d \in Descriptions : NestedArrives(d)
<1> DEFINE T == {d \in Descriptions : NestedArrives(d)}
<1>1. ASSUME NEW d \in Descriptions, \A e \in Descriptions : Rank(e) < Rank(d) => NestedArrives(e),
             d.kind # "primitive", NEW v \in Objects(d), Survives(d, v)
      PROVE  NestedRead(d, ToVariant(d, v)) = [val |-> v, fault |-> ""]
  <2>1. PICK x : x = ToVariant(d, v)
    OBVIOUS
  <2>2. x \in WireVariants
    BY <2>1 DEF WireVariants
  <2>3. NestedRead(d, x) = ReadNestedItem(d, x)
    BY <1>1, <2>2, Unfold
  <2>4. CASE d.kind = "array"
    <3>1. NestedArrives(d.els[1])
      BY <1>1, <2>4, Kinds
    <3>2. NestedRead(d, x) = ReadArray(d.els[1], <<>>, x)
      BY <2>3, <2>4 DEF ReadNestedItem
    <3> QED BY <1>1, <2>1, <2>4, <3>1, <3>2, ArrayArrives
  <2>5. CASE d.kind = "complex"
    <3>1. x.type = "variant" /\ x.rank = 1 /\ x.data = Variants(d, v)
      BY <2>1, <2>5 DEF ToVariant
    <3>2. PICK n \in Nat : n = Len(Leaves(d)) /\ ArrayLength(x) = n
      BY <2>5, <3>1, VariantsOnWire DEF ArrayLength
    <3>3. (IF ArrayLength(x) = 0 THEN <<>> ELSE x.data) = Variants(d, v)
      <4>1. CASE n = 0
        <5>1. Variants(d, v) = <<>>
          BY <3>2, <4>1 DEF Variants
        <5> QED BY <3>2, <4>1, <5>1
      <4>2. CASE n # 0
        BY <3>1, <3>2, <4>2
      <4> QED BY <4>1, <4>2
    <3>4. PICK r : r = ReadObject(d, Variants(d, v))
      OBVIOUS
    <3>5. NestedRead(d, x) = [val |-> r.val, fault |-> r.fault]
      BY <2>3, <2>5, <3>1, <3>3, <3>4 DEF ReadNestedItem
    <3>6. r = [val |-> v, next |-> Len(Leaves(d)) + 1, fault |-> ""]
      BY <1>1, <2>5, <3>4, ObjectArrives
    <3>7. r.val = v /\ r.fault = ""
      BY ONLY <3>6
    <3> QED BY <2>1, <3>5, <3>7
  <2> QED BY <1>1, <2>4, <2>5, Kinds
<1>2. ASSUME NEW d \in Descriptions, \A e \in Descriptions : Rank(e) < Rank(d) => e \in T
      PROVE  d \in T
  <2>1. \A e \in Descriptions : Rank(e) < Rank(d) => NestedArrives(e)
    BY <1>2
  <2>2. NestedArrives(d)
    BY <1>1, <2>1 DEF NestedArrives
  <2> QED BY <2>2
<1>3. \A d \in Descriptions : d \in T
  <2> HIDE DEF T
  <2> QED BY <1>2, RankInduction
<1> QED BY <1>3

\* Every object that may be sent has the shape of its description.
LEMMA ObjectShape == \A d \in Descriptions : \A v \in Objects(d) : HasShape(d, v)
<1> DEFINE Shaped(d) == \A v \in Objects(d) : HasShape(d, v)
           T == {d \in Descriptions : Shaped(d)}
<1>1. ASSUME NEW leaf \in Descriptions, leaf.kind # "complex", NEW v \in Objects(leaf),
             leaf.kind = "array" => Shaped(leaf.els[1])
      PROVE  LeafShape(leaf, v)
  <2>1. CASE leaf.kind = "primitive"
    BY <1>1, <2>1, ObjectParts DEF LeafShape
  <2>2. CASE leaf.kind = "array"
    <3>1. v \in Seq(Objects(leaf.els[1])) /\ leaf.els[1] \in Descriptions
      BY <1>1, <2>2, ObjectParts, Kinds
    <3>2. DOMAIN v = 1 .. Len(v) /\ \A i \in 1 .. Len(v) : v[i] \in Objects(leaf.els[1])
      BY <3>1
    <3>3. ASSUME leaf.els[1].kind = "primitive", NEW i \in 1 .. Len(v)
          PROVE  IsPrimitive(leaf.els[1].type, v[i])
      BY <3>1, <3>2, <3>3, ObjectParts
    <3>4. ASSUME leaf.els[1].kind # "primitive", NEW i \in 1 .. Len(v)
          PROVE  NestedShape(leaf.els[1], v[i])
      BY <1>1, <2>2, <3>1, <3>2, Unfold
    <3> QED BY <2>2, <3>2, <3>3, <3>4 DEF LeafShape
  <2> QED BY <1>1, <2>1, <2>2, Kinds
<1>2. ASSUME NEW d \in Descriptions, \A e \in Descriptions : Rank(e) < Rank(d) => e \in T
      PROVE  d \in T
  <2>1. \A e \in Descriptions : Rank(e) < Rank(d) => Shaped(e)
    BY <1>2
  <2> HIDE DEF Shaped
  <2>2. ASSUME NEW v \in Objects(d) PROVE HasShape(d, v)
    <3>1. CASE d.kind # "complex"
      <4>1. d.kind = "array" => Shaped(d.els[1])
        BY <2>1, <3>1, Kinds
      <4> QED BY <1>1, <3>1, <4>1 DEF HasShape
    <3>2. CASE d.kind = "complex"
      <4>1. DOMAIN v = 1 .. Len(Leaves(d))
        BY <3>2, ObjectParts
      <4>2. ASSUME NEW k \in 1 .. Len(Leaves(d)) PROVE LeafShape(Leaves(d)[k], v[k])
        <5>1. PICK leaf \in Descriptions : leaf = Leaves(d)[k]
          BY <3>2, InnerItems
        <5>2. leaf.kind # "complex" /\ (leaf.kind = "array" => Shaped(leaf.els[1]))
          BY <2>1, <3>2, <5>1, InnerItems
        <5>3. v[k] \in Objects(leaf)
          BY <3>2, <5>1, ObjectParts
        <5> QED BY <1>1, <5>1, <5>2, <5>3
      <4> QED BY <3>2, <4>1, <4>2 DEF HasShape
    <3> QED BY <3>1, <3>2
  <2> QED BY <2>2 DEF Shaped
<1>3. \A d \in Descriptions : d \in T
  <2> HIDE DEF T
  <2> QED BY <1>2, RankInduction
<1> QED BY <1>3

-----------------------------------------------------------------------------
(* The journey *)

\* What the client of a push server has, in the order of the monitored nodes.
Pushed == [k \in 1 .. Len(NodeIds(sender)) |-> Variants(sender, object)[NodeIds(sender)[k]]]

\* The variants pass the check of the server.
Accepted ==
  /\ Len(wire) = Len(Arguments(receiver))
  /\ \A i \in 1 .. Len(wire) : Acceptable(wire[i], Arguments(receiver)[i])

\* The inductive invariant: what is on the way and what has been read follow from the object
\* and the descriptions.
Inv ==
  /\ path \in Paths /\ sender \in Roots /\ receiver \in Roots
  /\ object \in Objects(sender)
  /\ stage \in {"object", "sent", "accepted", "rejected", "read"}
  /\ path = "push" => receiver = sender
  /\ (stage # "object" /\ path # "push") => wire = Variants(sender, object)
  /\ (stage # "object" /\ path = "push") => wire = Pushed
  /\ stage # "read" => result = NothingRead(receiver)
  /\ stage = "read" => result = ReadObject(receiver, wire)
  /\ stage \in {"accepted", "rejected"} => path = "request"
  /\ (path = "request" /\ stage \in {"accepted", "read"}) => Accepted
  /\ stage = "rejected" => ~ Accepted

LEMMA InvHolds == Spec => []Inv
<1>1. Init => Inv
  BY DEF Init, Inv
<1>2. Inv /\ [Next]_vars => Inv'
  <2> SUFFICES ASSUME Inv, [Next]_vars PROVE Inv'
    OBVIOUS
  <2>1. CASE Serialize
    BY <2>1 DEF Inv, Serialize
  <2>2. CASE Publish
    BY <2>2 DEF Inv, Publish, Pushed
  <2>3. CASE CheckArguments
    <3>1. stage' = IF Accepted THEN "accepted" ELSE "rejected"
      BY <2>3 DEF CheckArguments, Accepted
    <3>2. UNCHANGED <<path, sender, receiver, object, wire, result>>
      BY <2>3 DEF CheckArguments
    <3>3. stage = "sent" /\ path = "request"
      BY <2>3 DEF CheckArguments
    <3>4. (Accepted' <=> Accepted) /\ Pushed' = Pushed
      BY <3>2 DEF Accepted, Pushed
    <3> QED BY <3>1, <3>2, <3>3, <3>4 DEF Inv
  <2>4. CASE Deserialize
    <3>1. UNCHANGED <<path, sender, receiver, object, wire>>
      BY <2>4 DEF Deserialize
    <3>2. stage' = "read" /\ result' = ReadObject(receiver, wire)
      BY <2>4 DEF Deserialize
    <3>3. IF path = "request" THEN stage = "accepted" ELSE stage = "sent"
      BY <2>4 DEF Deserialize
    <3>4. (Accepted' <=> Accepted) /\ Pushed' = Pushed
      BY <3>1 DEF Accepted, Pushed
    <3> QED BY <3>1, <3>2, <3>3, <3>4 DEF Inv
  <2>5. CASE UNCHANGED vars
    <3>1. UNCHANGED <<path, sender, receiver, object, wire, result, stage>>
      BY <2>5 DEF vars
    <3>2. (Accepted' <=> Accepted) /\ Pushed' = Pushed
      BY <3>1 DEF Accepted, Pushed
    <3> QED BY <3>1, <3>2 DEF Inv
  <2> QED BY <2>1, <2>2, <2>3, <2>4, <2>5 DEF Next
<1> QED BY <1>1, <1>2, PTL DEF Spec

\* The roots are objects.
LEMMA RootKind ==
  ASSUME NEW d \in Roots
  PROVE  d \in Descriptions /\ d.kind = "complex" /\ Len(Leaves(d)) \in Nat
<1>1. d \in Descriptions /\ d.kind = "complex"
  BY DescriptionsAssumption
<1>2. Leaves(d) \in Seq(Descriptions)
  BY <1>1, Kinds
<1> QED BY <1>1, <1>2

\* What is on the way are variants of leaves of the object.
LEMMA WireOnTheWay ==
  ASSUME Inv, stage # "object"
  PROVE  OnTheWay(wire)
<1>1. sender \in Roots /\ object \in Objects(sender)
  BY DEF Inv
<1>2. PICK n \in Nat : n = Len(Leaves(sender))
  BY <1>1, RootKind
<1>3. /\ Len(Variants(sender, object)) = n
      /\ \A k \in 1 .. n : Variants(sender, object)[k] \in WireVariants
  BY <1>1, <1>2, RootKind, VariantsOnWire
<1>4. CASE path # "push"
  <2>1. wire = Variants(sender, object)
    BY <1>4 DEF Inv
  <2> QED BY <1>3, <2>1 DEF OnTheWay
<1>5. CASE path = "push"
  <2>1. wire = Pushed
    BY <1>5 DEF Inv
  <2>2. PICK ids \in Seq(1 .. n) : ids = NodeIds(sender)
    BY <1>1, <1>2, NodeIdsAssumption
  <2>3. wire = [k \in 1 .. Len(ids) |-> Variants(sender, object)[ids[k]]]
    BY <2>1, <2>2 DEF Pushed
  <2>4. Len(wire) = Len(ids) /\ Len(ids) \in Nat
    BY <2>3
  <2>5. \A k \in 1 .. Len(ids) : ids[k] \in 1 .. n
    OBVIOUS
  <2>6. \A k \in 1 .. Len(ids) : wire[k] \in WireVariants
    BY <1>3, <2>3, <2>5
  <2> QED BY <2>4, <2>6 DEF OnTheWay
<1> QED BY <1>4, <1>5

\* What the receiver has read.
LEMMA ResultRead ==
  ASSUME Inv, stage = "read"
  PROVE  /\ receiver \in Descriptions /\ receiver.kind = "complex"
         /\ \A k \in 1 .. Len(Leaves(receiver)) : LeafOutcome(receiver, wire, k)
         /\ Progress(receiver, wire, Len(Leaves(receiver)), result)
         /\ HasShape(receiver, result.val) /\ result.fault \in Outcomes
<1>1. receiver \in Roots /\ OnTheWay(wire) /\ result = ReadObject(receiver, wire)
  BY WireOnTheWay DEF Inv
<1>2. receiver \in Descriptions /\ receiver.kind = "complex"
  BY <1>1, RootKind
<1>3. \A e \in Descriptions : NestedTyped(e)
  BY AllNestedTyped
<1>4. \A k \in 1 .. Len(Leaves(receiver)) : LeafOutcome(receiver, wire, k)
  BY <1>1, <1>2, <1>3, LeafTyped
<1>5. /\ Progress(receiver, wire, Len(Leaves(receiver)), result)
      /\ \E y, next : \E fault \in Outcomes :
           result = [val |-> y, next |-> next, fault |-> fault] /\ HasShape(receiver, y)
  BY <1>1, <1>2, <1>3, ObjectTyped
<1>6. HasShape(receiver, result.val) /\ result.fault \in Outcomes
  <2>1. PICK y, next : \E fault \in Outcomes :
           result = [val |-> y, next |-> next, fault |-> fault] /\ HasShape(receiver, y)
    BY <1>5
  <2>2. PICK fault \in Outcomes :
           result = [val |-> y, next |-> next, fault |-> fault] /\ HasShape(receiver, y)
    BY <2>1
  <2>3. result.val = y /\ result.fault = fault
    BY ONLY <2>2
  <2> QED BY <2>2, <2>3
<1> QED BY <1>2, <1>4, <1>5, <1>6

\* For descriptions of any size and depth: whatever the variants hold, what the receiver has
\* is an object of its description, with 8-bit numbers in their range (the conversions in
\* UaVariantArrayToCommObject.cpp and UaVariantToCommObjArray.cpp).
THEOREM TypeCorrect == Spec => []TypeOK
<1>1. Inv => TypeOK
  <2> SUFFICES ASSUME Inv PROVE TypeOK
    OBVIOUS
  <2>1. HasShape(sender, object)
    BY RootKind, ObjectShape DEF Inv
  <2>2. HasShape(receiver, result.val) /\ result.fault \in Outcomes
    <3>1. CASE stage = "read"
      BY <3>1, ResultRead
    <3>2. CASE stage # "read"
      <4>1. receiver \in Roots /\ result = NothingRead(receiver)
        BY <3>2 DEF Inv
      <4>2. receiver \in Descriptions /\ receiver.kind = "complex"
        BY <4>1, RootKind
      <4>3. /\ result.val = [k \in 1 .. Len(Leaves(receiver)) |-> Default(Leaves(receiver)[k])]
            /\ result.fault = ""
        BY <4>1 DEF NothingRead
      <4>4. \A k \in 1 .. Len(Leaves(receiver)) :
              LeafShape(Leaves(receiver)[k], Default(Leaves(receiver)[k]))
        BY <4>2, InnerItems, DefaultShape
      <4> QED BY <4>2, <4>3, <4>4 DEF HasShape, Outcomes
    <3> QED BY <3>1, <3>2
  <2> QED BY <2>1, <2>2 DEF TypeOK, Inv, Outcomes
<1> QED BY <1>1, InvHolds, PTL

\* For descriptions of any size and depth and for all values: an object that survives the
\* readers arrives as it was sent, on every path.
THEOREM Arrival == Spec => []ArrivesUnchanged
<1>1. Inv => ArrivesUnchanged
  <2> SUFFICES ASSUME Inv, stage = "read", sender = receiver, Survives(sender, object),
                      path = "push" => Unmixed(sender)
               PROVE  result = [val |-> object, next |-> Len(wire) + 1, fault |-> ""]
    BY DEF ArrivesUnchanged
  <2>1. sender \in Roots /\ object \in Objects(sender) /\ result = ReadObject(receiver, wire)
    BY DEF Inv
  <2>2. sender \in Descriptions /\ sender.kind = "complex"
    BY <2>1, RootKind
  <2>3. /\ Len(Variants(sender, object)) = Len(Leaves(sender))
        /\ Variants(sender, object) =
             [k \in 1 .. Len(Leaves(sender)) |-> Variants(sender, object)[k]]
    BY <2>1, <2>2, VariantsOnWire
  <2>4. wire = Variants(sender, object)
    <3>1. CASE path # "push"
      BY <3>1 DEF Inv
    <3>2. CASE path = "push"
      <4>1. wire = Pushed
        BY <3>2 DEF Inv
      <4>2. PICK n \in Nat : n = Len(Leaves(sender))
        BY <2>1, RootKind
      <4>3. NodeIds(sender) = [k \in 1 .. n |-> k]
        BY <2>1, <3>2, <4>2, NodeIdsAssumption
      <4>4. PICK ids : ids = NodeIds(sender)
        OBVIOUS
      <4>5. Len(ids) = n /\ \A k \in 1 .. n : ids[k] = k
        BY <4>3, <4>4
      <4>6. wire = [k \in 1 .. n |-> Variants(sender, object)[k]]
        BY <4>1, <4>4, <4>5 DEF Pushed
      <4> QED BY <2>3, <4>2, <4>6
    <3> QED BY <3>1, <3>2
  <2>5. ReadObject(sender, Variants(sender, object)) =
          [val |-> object, next |-> Len(Leaves(sender)) + 1, fault |-> ""]
    BY <2>1, <2>2, AllNestedArrive, ObjectArrives
  <2> QED BY <2>1, <2>3, <2>4, <2>5
<1> QED BY <1>1, InvHolds, PTL

\* Where the reading ended, and what the leaves are before and behind it.
LEMMA ResultParts ==
  ASSUME Inv, stage = "read", NEW n, n = Len(Leaves(receiver))
  PROVE  /\ n \in Nat /\ result.next \in 1 .. n + 1
         /\ \A k \in 1 .. n :
              /\ k < result.next =>
                   /\ result.val[k] = LeafRead(receiver, wire, k).val
                   /\ LeafRead(receiver, wire, k).fault = ""
              /\ ~ (k < result.next) => result.val[k] = Default(Leaves(receiver)[k])
         /\ result.fault = "" => result.next = n + 1
         /\ result.fault # "" =>
              result.next \in 1 .. n /\ LeafRead(receiver, wire, result.next).fault = result.fault
<1>1. n \in Nat
  BY RootKind DEF Inv
<1>2. PICK next \in 1 .. n + 1 : \E fault \in Outcomes :
        /\ result = [val |-> ReadBefore(receiver, wire, next), next |-> next, fault |-> fault]
        /\ \A k \in 1 .. n : k < next => LeafRead(receiver, wire, k).fault = ""
        /\ fault = "" => next = n + 1
        /\ fault # "" => next =< n /\ LeafRead(receiver, wire, next).fault = fault
  BY ResultRead DEF Progress
<1>3. PICK fault \in Outcomes :
        /\ result = [val |-> ReadBefore(receiver, wire, next), next |-> next, fault |-> fault]
        /\ \A k \in 1 .. n : k < next => LeafRead(receiver, wire, k).fault = ""
        /\ fault = "" => next = n + 1
        /\ fault # "" => next =< n /\ LeafRead(receiver, wire, next).fault = fault
  BY <1>2
<1>4. PICK y : y = ReadBefore(receiver, wire, next)
  OBVIOUS
<1>5. result = [val |-> y, next |-> next, fault |-> fault]
  BY <1>3, <1>4
<1>6. result.val = y /\ result.next = next /\ result.fault = fault
  BY ONLY <1>5
<1>7. \A k \in 1 .. n :
        y[k] = IF k < next THEN LeafRead(receiver, wire, k).val ELSE Default(Leaves(receiver)[k])
  BY <1>4 DEF ReadBefore
<1>8. fault # "" => next \in 1 .. n
  <2>1. ASSUME next =< n PROVE next \in 1 .. n
    BY <1>1, <2>1
  <2> QED BY <1>3, <2>1
<1>9. \A k \in 1 .. n :
        /\ k < next => y[k] = LeafRead(receiver, wire, k).val /\ LeafRead(receiver, wire, k).fault = ""
        /\ ~ (k < next) => y[k] = Default(Leaves(receiver)[k])
  BY <1>3, <1>7
<1> QED BY <1>1, <1>3, <1>6, <1>8, <1>9

\* A position in the receiver's list that the sender's list has too.
LEMMA CommonPosition ==
  ASSUME NEW n \in Nat, NEW m \in Nat, NEW i \in 1 .. n, i =< m
  PROVE  i \in 1 .. m /\ i < n + 1
  OBVIOUS

\* For any two descriptions of any size: what has been read is in its place, however many
\* leaves before it did not match (m_nextIndex is increased for a wrong type too).
THEOREM Alignment == Spec => []StaysAligned
<1>1. Inv => StaysAligned
  <2> SUFFICES ASSUME Inv, stage = "read", path # "push", NEW i \in 1 .. Len(Leaves(receiver)),
                      result.fault = "" \/ i < result.next,
                      i =< Len(Leaves(sender)), Leaves(receiver)[i] = Leaves(sender)[i],
                      Survives(Leaves(sender)[i], object[i])
               PROVE  result.val[i] = object[i]
    BY DEF StaysAligned
  <2>1. /\ sender \in Descriptions /\ sender.kind = "complex"
        /\ receiver \in Descriptions /\ receiver.kind = "complex"
        /\ object \in Objects(sender) /\ wire = Variants(sender, object)
    BY RootKind DEF Inv
  <2>2. PICK n \in Nat : n = Len(Leaves(receiver))
    BY RootKind DEF Inv
  <2>3. PICK m \in Nat : m = Len(Leaves(sender))
    BY RootKind DEF Inv
  <2>4. i \in 1 .. m /\ i \in 1 .. n /\ i < n + 1
    <3>1. i \in 1 .. n /\ i =< m
      BY <2>2, <2>3
    <3> QED BY ONLY <3>1, n \in Nat, m \in Nat, CommonPosition
  <2>5. i < result.next
    <3>1. CASE result.fault = ""
      <4>1. result.next = n + 1
        BY <2>2, <3>1, ResultParts
      <4> QED BY <2>4, <4>1
    <3>2. CASE i < result.next
      BY <3>2
    <3> QED BY <3>1, <3>2
  <2>6. result.val[i] = LeafRead(receiver, wire, i).val
    BY <2>2, <2>5, ResultParts
  <2>7. Leaves(sender)[i].kind = "array" => NestedArrives(Leaves(sender)[i].els[1])
    BY <2>1, <2>3, <2>4, InnerItems, AllNestedArrive
  <2>8. LeafRead(receiver, wire, i) = [val |-> object[i], next |-> i + 1, fault |-> ""]
    BY <2>1, <2>2, <2>3, <2>4, <2>7, LeafTakesOver
  <2>9. PICK q : q = LeafRead(receiver, wire, i)
    OBVIOUS
  <2>10. q = [val |-> object[i], next |-> i + 1, fault |-> ""]
    BY <2>8, <2>9
  <2>11. q.val = object[i]
    BY ONLY <2>10
  <2> QED BY <2>6, <2>9, <2>11
<1> QED BY <1>1, InvHolds, PTL

\* For descriptions of any size and depth: a failure leaves the leaf at which it happens and
\* all later ones as the receiver created them (ToCommObjArrayVisitor sets the vector last).
THEOREM FaultIsolation == Spec => []FaultSparesRest
<1>1. Inv => FaultSparesRest
  <2> SUFFICES ASSUME Inv, stage = "read", NEW i \in 1 .. Len(Leaves(receiver)), i >= result.next
               PROVE  result.val[i] = Default(Leaves(receiver)[i])
    BY DEF FaultSparesRest
  <2>1. PICK n \in Nat : n = Len(Leaves(receiver))
    BY RootKind DEF Inv
  <2>2. result.next \in 1 .. n + 1
    BY <2>1, ResultParts
  <2>3. ~ (i < result.next)
    BY <2>1, <2>2
  <2> QED BY <2>1, <2>3, ResultParts
<1> QED BY <1>1, InvHolds, PTL

\* The variant of a leaf is the argument that is declared for it.
LEMMA VariantFitsArgument ==
  ASSUME NEW leaf \in Descriptions, leaf.kind # "complex", NEW v
  PROVE  Acceptable(ToVariant(leaf, v), Argument(leaf))
<1>1. PICK x, a : x = ToVariant(leaf, v) /\ a = Argument(leaf)
  OBVIOUS
<1>2. CASE leaf.kind = "primitive"
  <2>1. x.type = UaType(leaf.type) /\ x.rank = -1
    BY <1>1, <1>2 DEF ToVariant, ScalarVariant
  <2>2. a.type = UaType(leaf.type) /\ a.rank = -1
    BY <1>1, <1>2 DEF Argument
  <2> QED BY <1>1, <2>1, <2>2 DEF Acceptable
<1>3. CASE leaf.kind = "array"
  <2>1. x.type = TypeIndex(leaf.els[1]) /\ x.rank = 1
    BY <1>1, <1>3 DEF ToVariant, ArrayToValue
  <2>2. a.type = TypeIndex(leaf.els[1]) /\ a.rank = 1
    BY <1>1, <1>3 DEF Argument
  <2> QED BY <1>1, <2>1, <2>2 DEF Acceptable
<1> QED BY <1>2, <1>3, Kinds

\* For descriptions of any size and depth: the server accepts every request of a client that
\* has its description (CommObjectToUaArgument declares what CommObjectToUaVariantArray sends).
THEOREM Acceptance == Spec => []RequestsAreAccepted
<1>1. Inv => RequestsAreAccepted
  <2> SUFFICES ASSUME Inv, sender = receiver, stage = "rejected" PROVE FALSE
    BY DEF RequestsAreAccepted
  <2>1. /\ sender \in Descriptions /\ sender.kind = "complex" /\ object \in Objects(sender)
        /\ wire = Variants(sender, object)
    BY RootKind DEF Inv
  <2>2. PICK n \in Nat : n = Len(Leaves(sender))
    BY RootKind DEF Inv
  <2>3. Arguments(receiver) = [k \in 1 .. n |-> Argument(Leaves(sender)[k])]
    BY <2>2 DEF Arguments
  <2>4. wire = [k \in 1 .. n |-> ToVariant(Leaves(sender)[k], object[k])]
    BY <2>1, <2>2, VariantsOnWire
  <2>5. Len(Arguments(receiver)) = n /\ Len(wire) = n
    BY <2>3, <2>4
  <2>6. ASSUME NEW k \in 1 .. n PROVE Acceptable(wire[k], Arguments(receiver)[k])
    <3>1. Leaves(sender)[k] \in Descriptions /\ Leaves(sender)[k].kind # "complex"
      BY <2>1, <2>2, InnerItems
    <3> QED BY <2>3, <2>4, <3>1, VariantFitsArgument
  <2>7. Accepted
    BY <2>5, <2>6 DEF Accepted
  <2> QED BY <2>7 DEF Inv
<1> QED BY <1>1, InvHolds, PTL

\* A leaf that is no array of objects or arrays is read from any variant its argument accepts.
LEMMA AcceptedLeaf ==
  ASSUME NEW leaf \in Descriptions, leaf.kind # "complex",
         Argument(leaf) # [type |-> "variant", rank |-> 1], NEW variants, OnTheWay(variants),
         NEW k \in 1 .. Len(variants), Acceptable(variants[k], Argument(leaf))
  PROVE  \E y : ReadLeaf(leaf, Default(leaf), variants, k) =
                  [val |-> y, next |-> k + 1, fault |-> ""]
<1>0. ~ (k > Len(variants))
  <2>1. PICK n \in Nat : n = Len(variants)
    BY DEF OnTheWay
  <2> QED BY <2>1
<1>1. PICK x \in WireVariants : x = variants[k]
  BY DEF OnTheWay
<1>2. PICK a : a = Argument(leaf)
  OBVIOUS
<1>3. x.rank = a.rank /\ (a.type = x.type \/ a.type = "variant")
  BY <1>1, <1>2 DEF Acceptable
<1>4. CASE leaf.kind = "primitive"
  <2>1. a.type = UaType(leaf.type) /\ a.rank = -1
    BY <1>2, <1>4 DEF Argument
  <2>2. leaf.type \in PrimitiveTypes
    BY <1>4, Kinds
  <2>3. x.type = UaType(leaf.type) /\ x.rank # 1
    BY <1>3, <2>1, <2>2, NoPrimitiveVariant
  <2>4. ReadScalar(leaf.type, Default(leaf), x, k) =
          [val |-> LoadScalar(leaf.type, FirstData(x)), next |-> k + 1, fault |-> ""]
    BY <2>3 DEF ReadScalar
  <2>5. ReadLeaf(leaf, Default(leaf), variants, k) = ReadScalar(leaf.type, Default(leaf), x, k)
    BY <1>0, <1>1, <1>4 DEF ReadLeaf, ReadPrimitive
  <2> QED BY <2>4, <2>5
<1>5. CASE leaf.kind = "array"
  <2> DEFINE item == leaf.els[1]
  <2>1. a = [type |-> TypeIndex(item), rank |-> 1]
    BY <1>2, <1>5 DEF Argument
  <2>2. item.kind = "primitive"
    <3>1. ASSUME item.kind # "primitive" PROVE FALSE
      <4>1. TypeIndex(item) = "variant"
        BY <3>1 DEF TypeIndex
      <4> QED BY <1>2, <2>1, <4>1
    <3> QED BY <3>1
  <2>3. item \in Descriptions /\ item.type \in PrimitiveTypes
    BY <1>5, <2>2, Kinds
  <2>4. a.type = TypeIndex(item) /\ TypeIndex(item) # "variant"
    BY <2>1, <2>2, <2>3, NoPrimitiveVariant DEF TypeIndex
  <2>5. x.type = TypeIndex(item)
    BY <1>3, <2>4
  <2>6. ASSUME NEW i PROVE ReadItem(item, x, i).fault = ""
    <3>1. PICK q : q = ReadItem(item, x, i)
      OBVIOUS
    <3>2. q = [val |-> LoadItem(item.type, x.data, i), fault |-> ""]
      BY <2>2, <2>5, <3>1 DEF ReadItem
    <3>3. q.fault = ""
      BY ONLY <3>2
    <3> QED BY <3>1, <3>3
  <2>7. PICK y : ReadArray(item, <<>>, x) = [val |-> y, fault |-> ""]
    BY <2>6, ItemNumber, ArrayRead
  <2>8. PICK q : q = ReadArray(item, <<>>, x)
    OBVIOUS
  <2>9. q = [val |-> y, fault |-> ""]
    BY <2>7, <2>8
  <2>10. q.val = y /\ q.fault = ""
    BY ONLY <2>9
  <2>11. Default(leaf) = <<>>
    BY <1>5, DefaultShape
  <2>12. ReadLeaf(leaf, Default(leaf), variants, k) =
          [val |-> q.val, next |-> IF q.fault = "" THEN k + 1 ELSE k, fault |-> q.fault]
    BY <1>0, <1>1, <1>5, <2>8, <2>11 DEF ReadLeaf
  <2> QED BY <2>10, <2>12
<1> QED BY <1>4, <1>5, Kinds

\* For descriptions of any size and depth: a request that the server accepted is read without
\* a failure, unless the receiver's description has an array of objects or arrays.
THEOREM Readability == Spec => []AcceptedIsReadable
<1>1. Inv => AcceptedIsReadable
  <2> SUFFICES ASSUME Inv, path = "request", stage = "read", result.fault # "",
                      \A i \in 1 .. Len(Arguments(receiver)) :
                        Arguments(receiver)[i] # [type |-> "variant", rank |-> 1]
               PROVE  FALSE
    BY DEF AcceptedIsReadable
  <2>1. receiver \in Descriptions /\ receiver.kind = "complex" /\ Accepted /\ OnTheWay(wire)
    BY RootKind, WireOnTheWay DEF Inv
  <2>2. PICK n \in Nat : n = Len(Leaves(receiver))
    BY RootKind DEF Inv
  <2>3. PICK next \in 1 .. n : next = result.next /\ LeafRead(receiver, wire, next).fault # ""
    BY <2>2, ResultParts
  <2>4. Arguments(receiver) = [k \in 1 .. n |-> Argument(Leaves(receiver)[k])]
    BY <2>2 DEF Arguments
  <2>5. Len(Arguments(receiver)) = n
    <3>1. n \in Nat
      OBVIOUS
    <3> QED BY ONLY <2>4, <3>1
  <2>6. PICK leaf \in Descriptions : leaf = Leaves(receiver)[next] /\ leaf.kind # "complex"
    BY <2>1, <2>2, InnerItems
  <2>7. Argument(leaf) # [type |-> "variant", rank |-> 1] /\ Arguments(receiver)[next] = Argument(leaf)
    BY <2>4, <2>5, <2>6
  <2>8. next \in 1 .. Len(wire) /\ Acceptable(wire[next], Argument(leaf))
    BY <2>1, <2>5, <2>7 DEF Accepted
  <2>9. PICK y : LeafRead(receiver, wire, next) = [val |-> y, next |-> next + 1, fault |-> ""]
    BY <2>1, <2>6, <2>7, <2>8, AcceptedLeaf DEF LeafRead
  <2>10. PICK q : q = LeafRead(receiver, wire, next)
    OBVIOUS
  <2>11. q = [val |-> y, next |-> next + 1, fault |-> ""]
    BY <2>9, <2>10
  <2>12. q.fault = ""
    BY ONLY <2>11
  <2> QED BY <2>3, <2>10, <2>12
<1> QED BY <1>1, InvHolds, PTL
=============================================================================
