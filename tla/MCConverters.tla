----------------------------- MODULE MCConverters -----------------------------
(* Descriptions and values for TLC: every primitive type alone and in an
   array, and the shapes in which types, arrays and objects meet. *)
EXTENDS SelfDescriptions

\* Values at the limits of the types and of their 32-bit words.
BoundaryValues(type) ==
  CASE type = "int8" -> {<<-128>>, <<127>>}
    [] type = "uint8" -> {<<0>>, <<255>>}
    [] type = "int64" -> {<<1, 0>>, <<-1, -1>>, <<2, 1>>}
    [] type = "uint64" -> {<<1, 0>>, <<-1, 0>>, <<2, 1>>}
    [] type = "string" -> {<<>>, <<7>>, <<7, 0, 7>>}
    [] OTHER -> {<<1>>, <<2>>}

I == Primitive("int32")
S == Primitive("string")
B == Primitive("int8")
U == Primitive("uint64")

Singles ==
  {Complex(<<Primitive(t)>>) : t \in PrimitiveTypes}
    \cup {Complex(<<ArrayOf(Primitive(t))>>) : t \in PrimitiveTypes}

Shapes ==
  { Complex(<<I, S>>), Complex(<<S, I>>), Complex(<<I, S, I>>), Complex(<<B, U, I>>),
    Complex(<<ArrayOf(I), S, I>>), Complex(<<I, ArrayOf(S), I>>),
    Complex(<<Complex(<<I, S>>), Complex(<<I>>)>>),
    Complex(<<I, Complex(<<I>>), I>>),
    Complex(<<Complex(<<I, S>>), I>>),
    Complex(<<I, ArrayOf(Complex(<<I, I>>))>>),
    Complex(<<I, ArrayOf(Complex(<<I, I, I>>)), I>>),
    Complex(<<I, ArrayOf(Complex(<<I, ArrayOf(I)>>))>>),
    Complex(<<I, ArrayOf(ArrayOf(I))>>),
    Complex(<<I, ArrayOf(ArrayOf(S)), S>>),
    Complex(<<ArrayOf(Complex(<<I>>))>>) }

AllRoots == Singles \cup Shapes

AllWithin == UNION {Within(d) : d \in AllRoots}

\* The recursive calls, which a configuration gives to Converters as constants.  They are
\* written with LET, where TLC's coverage statistics stop: through plain applications they
\* would follow the circle of calls for ever.
CallToVariant(d, v) == LET variant == ToVariant(d, v) IN variant
CallReadNestedItem(item, x) == LET read == ReadNestedItem(item, x) IN read
CallSurvives(d, v) == LET survives == Survives(d, v) IN survives
CallHasShape(d, v) == LET fits == HasShape(d, v) IN fits
=============================================================================
