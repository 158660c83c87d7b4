----------------------------- MODULE MCBuiltins -----------------------------
(***************************************************************************)
(* Small values of every type for Builtins. The texts are chosen for their *)
(* characters: a combining mark, a sharp s, three halves of flags, quotes, *)
(* a character cut by hex decoding, digits and a sign.                     *)
(***************************************************************************)
EXTENDS Builtins

A == <<97>>
MCTexts == {<<>>, A, <<97, 769>>, <<769, 97>>, <<223, 32, 97>>, <<127462, 127462, 127462>>,
            <<97, 44, 34>>, <<97, 13, 10>>,
            <<97, 10, 13, 97>>, <<45, 49>>, <<52, 195>>, <<37, 52, 49>>}

MCFloats == {0, 1, 2}
Of(t, values) == {<<t, v>> : v \in values}
TextList(parts) == List([i \in DOMAIN parts |-> String(parts[i])])
IntList(ns) == List([i \in DOMAIN ns |-> Int64(ns[i])])

MCFunctions ==
  [positive |-> FunctionOf(<<IntT>>, BoolT), double |-> FunctionOf(<<IntT>>, IntT),
   label |-> FunctionOf(<<IntT>>, StrT), twice |-> FunctionOf(<<IntT>>, Strings),
   total |-> FunctionOf(<<StrT, IntT>>, StrT), blank |-> FunctionOf(<<StrT>>, BoolT),
   size |-> FunctionOf(<<StrT>>, IntT), small |-> FunctionOf(<<StrT, IntT>>, BoolT)]

\* A body fails on a value that a wildcard let through.
MCApply(f, a) ==
  IF \E i \in DOMAIN a : ~HasType(a[i], MCFunctions[f][2][i]) THEN Fails
  ELSE CASE f = "positive" -> Truth(a[1][2] > 0)
         [] f = "double" -> BinaryOp(a[1], "*", Int64(2))
         [] f = "label" -> Str(Decimal(Remainder(a[1][2], 2)))
         [] f = "twice" -> Texts(<<Decimal(a[1][2]), A>>)
         [] f = "total" -> Str(a[1][2] \o Decimal(a[2][2]))
         [] f = "blank" -> Truth(a[1][2] = <<>>)
         [] f = "size" -> Whole(Len(a[1][2]))
         [] f = "small" -> Truth(a[2][2] < 2)

MCSamples ==
  Of(IntT, {Int64(n) : n \in {MinInt, -1, 2, MaxInt}})
  \cup Of(UintT, {Uint64(n) : n \in {1, MaxUint}})
  \cup Of(StrT, {String(A), String(<<>>), String(<<769>>)})
  \cup Of(FloatT, {Float64(1), Float64(2)})
  \cup Of(ListOf(IntT), {IntList(<<1, 0>>)})
  \cup Of(Strings, {TextList(<<A, A>>)})
  \cup Of(SetOf(IntT), {Set(<<Int64(2), Int64(1)>>)})
  \cup Of(MapOf(StrT, IntT), {Map(<<<<String(A), Int64(2)>>, <<String(<<49>>), Int64(1)>>>>)})
  \cup Of(BytesT, {Bytes(<<195>>)})
  \cup {<<MCFunctions[f], <<"function", f>>>> : f \in DOMAIN MCFunctions}

MCStrays == {Int64(2), String(A), Optional(<<>>)}

MCInputs ==
  {x \in MCSamples : Kind(x[1]) \notin {"function", "uint64", "float64"}}
  \cup Of(StrT, {String(s) : s \in MCTexts})
  \cup Of(BytesT, {Bytes(<<195, 159>>), Bytes(<<10>>)})
  \cup Of(ListOf(IntT), {IntList(<<>>), IntList(<<1, -1, 1>>), IntList(<<MaxInt, 1, -2>>)})
  \cup Of(ListOf(UintT), {List(<<Uint64(1), Uint64(0)>>)})
  \cup Of(ListOf(FloatT), {List(<<>>), List(<<Float64(2), Float64(1)>>)})
  \cup Of(Strings, {TextList(<<<<49>>, A, <<97, 97>>, <<>>>>)})
  \cup Of(ListOf(Strings), {List(<<TextList(<<<<49>>, A>>), TextList(<<A>>)>>),
                            
                            List(<<TextList(<<<<49>>, A>>), TextList(<<A, A>>), TextList(<<<<49>>, <<>>>>)>>),
                            List(<<TextList(<<A, A>>), TextList(<<<<44>>, <<34>>>>)>>)})
  \cup Of(OptionalOf(IntT), {Optional(<<>>)})
  \cup Of(BoolT, {Bool(TRUE)})

MCTypeArgs ==
  {<<ErrorT, ErrorT>>, <<IntT, StrT>>, <<StrT, IntT>>, <<FloatT, FloatT>>, <<UintT, UintT>>}
=============================================================================
