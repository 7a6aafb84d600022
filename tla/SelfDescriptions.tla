--------------------------- MODULE SelfDescriptions ---------------------------
(***************************************************************************)
(* The self descriptions of communication objects as the trees they are:   *)
(* the leaves in which the visitors meet them, the order in which a push   *)
(* client monitors their variables, and the objects there are of them.     *)
(* These operators are recursive; Converters has them as constants.        *)
(***************************************************************************)
EXTENDS Converters

CONSTANTS
  ValuesOf(_),     \* the values of a primitive type that are sent
  MaxLength        \* bound: items of an array

\* CommObjectToListOfPrimitivDescriptions: the visitors go into an object as
\* they meet it.
RECURSIVE LeavesOf(_)
LeavesOf(d) ==
  IF d.kind # "complex" THEN <<d>>
  ELSE FlattenSeq([i \in DOMAIN d.els |-> LeavesOf(d.els[i])])

RECURSIVE Depth(_)
Depth(d) ==
  CASE d.kind = "primitive" -> 0
    [] d.kind = "array" -> 1 + Depth(d.els[1])
    [] d.kind = "complex" -> 1 + Max({0} \cup {Depth(leaf) : leaf \in ToSet(LeavesOf(d))})

\* A description with those of its leaves and of the items of its arrays.
RECURSIVE Within(_)
Within(d) ==
  {d} \cup (CASE d.kind = "primitive" -> {}
              [] d.kind = "array" -> Within(d.els[1])
              [] d.kind = "complex" -> UNION {Within(leaf) : leaf \in ToSet(LeavesOf(d))})

\* All values an element of this description can have within the bounds.
RECURSIVE ObjectsOf(_)
ObjectsOf(d) ==
  CASE d.kind = "primitive" -> ValuesOf(d.type)
    [] d.kind = "complex" ->
         FoldLeft(LAMBDA prefixes, leaf :
                    {Append(v, x) : v \in prefixes, x \in ObjectsOf(leaf)},
                  {<<>>}, LeavesOf(d))
    [] d.kind = "array" -> BoundedSeq(ObjectsOf(d.els[1]), MaxLength)

-----------------------------------------------------------------------------
(* The variables of a push server and the order the client reads them in.
   A variable is named by the position of its leaf. *)

\* CommObjectToPushModel: an object hangs on its parent by Organizes, a
\* primitive or an array by HasComponent.
Reference(d) == IF d.kind = "complex" THEN "Organizes" ELSE "HasComponent"

\* Browsing a node lists its references by reference type, the types in the
\* order of their first use and the targets of a type in the order they were
\* added; the converter goes into objects as it meets them.
RECURSIVE Browse(_)
Browse(d) ==
  IF d.kind # "complex" THEN <<1>>
  ELSE LET n == Len(d.els)
           offset(i) == Len(LeavesOf(Complex(SubSeq(d.els, 1, i - 1))))
           block(i) == LET b == Browse(d.els[i])
                       IN  [k \in DOMAIN b |-> offset(i) + b[k]]
           kind == Reference(d.els[1])
           blocks(is) == FlattenSeq([k \in DOMAIN is |-> block(is[k])])
           numbers == [i \in 1..n |-> i]
       IN  IF n = 0 THEN <<>>
           ELSE blocks(SelectSeq(numbers, LAMBDA i : Reference(d.els[i]) = kind))
                \o blocks(SelectSeq(numbers, LAMBDA i : Reference(d.els[i]) # kind))

\* std::list::sort is stable: an element goes before the first one it has to
\* precede.
Sort(s, Before(_, _)) ==
  FoldLeft(LAMBDA done, x :
             LET i == SelectInSeq(done, LAMBDA y : Before(x, y))
             IN  InsertAt(done, IF i = 0 THEN Len(done) + 1 ELSE i, x),
           <<>>, s)

\* subscribe: the browsed nodes are sorted with a comparison that looks for
\* the left description twice, in a map of the descriptions of another
\* SelfDescription call.
MonitoredNodes(d) ==
  LET flat == [k \in DOMAIN LeavesOf(d) |-> [call |-> 2, leaf |-> k]]
      browsed == [k \in DOMAIN Browse(d) |-> [call |-> 1, leaf |-> Browse(d)[k]]]
      find(description) == SelectInSeq(flat, LAMBDA f : f = description)
      compare(left, right) ==
        LET leftIter == find(left)
            rightIter == find(left)
        IN  IF leftIter = 0 \/ rightIter = 0 THEN leftIter # 0
            ELSE leftIter < rightIter
      sorted == Sort(browsed, compare)
  IN  [k \in DOMAIN sorted |-> sorted[k].leaf]

\* No object has both objects and other elements.
RECURSIVE IsUnmixed(_)
IsUnmixed(d) ==
  d.kind = "complex" =>
    \A i, j \in DOMAIN d.els :
      Reference(d.els[i]) = Reference(d.els[j]) /\ IsUnmixed(d.els[i])
=============================================================================
