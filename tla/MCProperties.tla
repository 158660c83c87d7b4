---------------------------- MODULE MCProperties ----------------------------
(***************************************************************************)
(* The runner of property blocks on the values that are generated for the  *)
(* types it is given.                                                      *)
(***************************************************************************)
EXTENDS PropertyBlocks, PropertyValues

Word  == <<"int", WordMin, WordMax>>
Int8  == <<"int", -64, 63>>      \* narrower than the word
Uint8 == <<"uint", 63>>
Kinds == <<"enum", << <<"Low", <<>>, <<>> >>, <<"High", <<3>>, <<>> >>, <<"Next", <<>>, <<>> >>,
                      <<"Of", <<>>, << Uint8, <<"bool">> >> >> >> >>
Header == <<"struct", << <<"bits", 3>>, <<"bitsEnum", 2, Kinds[2]>> >> >>

\* Blocks with one given, and with two whose pools differ in length.
SmallBlocks ==
  { <<Word>>, <<Int8>>, <<Uint8>>, << <<"uint64">> >>, << <<"float">> >>, << <<"string">> >>,
    << <<"bytes">> >>, << <<"nothing">> >>, << <<"refined", Word, -42>> >>,
    << <<"list", <<"refined", Word, 1>> >> >>,
    << <<"set", Uint8>> >>, << <<"map", Uint8, <<"bool">> >> >>,
    << <<"optional", Uint8>> >>, << <<"result", Uint8, <<"string">> >> >>,
    <<Kinds>>, <<Header>>, << <<"function">> >>,
    << <<"list", <<"function">> >> >>, <<<<"bool">>, <<"string">>>>,
    <<Uint8, <<"bytes">>>> }


\* The pools of the types and the candidates of every value that MaxSteps
\* simplifications reach, computed once.
GivenTypes == UNION {Range(block) : block \in SmallBlocks}
Pools == [type \in GivenTypes |-> Generate(type)]
Reached ==
  LET reached[k \in 0 .. MaxSteps] ==
        IF k = 0 THEN UNION {Range(Pools[type]) : type \in GivenTypes}
        ELSE LET before == reached[k - 1]
             IN before \union UNION {Range(ShrinkValue(v)) : v \in before}
  IN reached[MaxSteps]
Shrunk == [v \in Reached |-> ShrinkValue(v)]
Negating == {v \in Reached : NegatesLeast(v)}

PoolOf(type) == Pools[type]
CandidatesOf(v) == Shrunk[v]
OverflowsOn(v) == v \in Negating

-----------------------------------------------------------------------------
SumOf(f) == FoldFunction(LAMBDA a, b : a + b, 0, f)

RECURSIVE Weight(_)
\* How complex a value is: its elements and the magnitude of its numbers, of
\* which a negative one is the more complex.
Weight(v) ==
  CASE Kind(v) \in {"int", "uint"} -> 2 * Magnitude(v[2]) + (IF v[2] < 0 THEN 1 ELSE 0)
    [] Kind(v) = "float" ->
         2 * Magnitude(v[2]) * 2^(MaxSteps + 2 - v[3]) + (IF v[2] < 0 THEN 1 ELSE 0)
    [] Kind(v) \in {"text", "bytes"} -> Len(v[2])
    [] Kind(v) \in {"ok", "fail"} -> Weight(v[2])
    [] Kind(v) = "some" -> 1 + Weight(v[2])
    [] Kind(v) \in {"list", "set"} -> Len(v[2]) + SumOf([i \in DOMAIN v[2] |-> Weight(v[2][i])])
    [] Kind(v) = "map" ->
         Len(v[2]) + SumOf([i \in DOMAIN v[2] |-> Weight(v[2][i][1]) + Weight(v[2][i][2])])
    [] Kind(v) = "enum" -> SumOf([i \in DOMAIN v[3] |-> Weight(v[3][i])])
    [] Kind(v) = "struct" -> SumOf([i \in DOMAIN v[2] |-> Weight(v[2][i])])
    [] OTHER -> 0

WeightOf(values) == SumOf([i \in DOMAIN values |-> Weight(values[i])])

\* Every simplification that is taken makes the inputs simpler, so shrinking
\* cannot go round in a circle through simplifications that undo each other
\* (n + 1, n - 1, -n, n / 2). Only a whole float, which is its own floor, and
\* the least integer, which is its own negation, are taken again unchanged.
Simpler ==
  [][steps' # steps => WeightOf(inputs') < WeightOf(inputs) \/ inputs' = inputs]_vars

RECURSIVE Inhabits(_, _)
\* The value is one of the type, whose integers may also be -lo (the negation
\* that shrink_value tries) and whose refinement is not checked.
Inhabits(v, type) ==
  CASE Kind(type) = "int" -> Kind(v) = "int" /\ v[2] \in (type[2] .. type[3]) \union {-type[2]}
    [] Kind(type) = "uint" -> Kind(v) = "int" /\ v[2] \in 0 .. type[2]
    [] Kind(type) = "uint64" -> Kind(v) = "uint" /\ v[2] \in 0 .. 2 * WordMax + 1
    [] Kind(type) = "bits" -> Kind(v) = "int" /\ v[2] \in 0 .. 2^type[2] - 1
    [] Kind(type) = "refined" -> Inhabits(v, type[2])
    [] Kind(type) = "list" -> Kind(v) = "list" /\ \A i \in DOMAIN v[2] : Inhabits(v[2][i], type[2])
    [] Kind(type) = "set" ->
         /\ Kind(v) = "set"
         /\ \A i \in DOMAIN v[2] : Inhabits(v[2][i], type[2])
         /\ \A i, j \in DOMAIN v[2] : v[2][i] = v[2][j] => i = j
    [] Kind(type) = "map" ->
         /\ Kind(v) = "map"
         /\ \A i \in DOMAIN v[2] : Inhabits(v[2][i][1], type[2]) /\ Inhabits(v[2][i][2], type[3])
         /\ \A i, j \in DOMAIN v[2] : v[2][i][1] = v[2][j][1] => i = j
    [] Kind(type) = "optional" -> Kind(v) = "none" \/ (Kind(v) = "some" /\ Inhabits(v[2], type[2]))
    [] Kind(type) = "result" ->
         \/ Kind(v) = "ok" /\ Inhabits(v[2], type[2])
         \/ Kind(v) = "fail" /\ Inhabits(v[2], type[3])
    [] Kind(type) = "enum" ->
         \E i \in DOMAIN type[2] :
           /\ v[2] = type[2][i][1]
           /\ DOMAIN v[3] = DOMAIN type[2][i][3]
           /\ \A j \in DOMAIN v[3] : Inhabits(v[3][j], type[2][i][3][j])
    [] Kind(type) = "bitsEnum" ->
         \E i \in DOMAIN type[3] : v = <<"enum", type[3][i][1], <<>> >>
                                   /\ Discriminants(type[3])[i] < 2^type[2]
    [] Kind(type) = "struct" ->
         /\ DOMAIN v[2] = DOMAIN type[2]
         /\ \A j \in DOMAIN v[2] : Inhabits(v[2][j], type[2][j])
    [] Kind(type) = "string" -> Kind(v) = "text"
    [] OTHER -> Kind(v) = Kind(type)

\* Shrinking stays inside the types of the givens, so a counterexample can be
\* put back into a test: sets and maps keep their elements and keys apart,
\* bitfields their widths, enums the fields of their variants.
CounterexampleTyped ==
  stage = "shrinking" \/ report = "failed" => \A i \in Givens : Inhabits(inputs[i], givens[i])
=============================================================================
