--------------------------- MODULE PropertyValues ---------------------------
(***************************************************************************)
(* The values that property blocks are run on (shrink_value, unique_values *)
(* and the generate_* functions of crates/jett_comptime/src/verify.rs):    *)
(* the pool generated for a type, and what a value shrinks to.             *)
(*                                                                         *)
(* A value is a tuple of its kind and contents:                            *)
(*   <<"int", n>>, <<"uint", n>>, <<"float", n, e>> (n / 2^e in lowest     *)
(*   terms), <<"bool", b>>, <<"nothing">>, <<"text", s>>, <<"bytes", s>>,  *)
(*   <<"none">>, <<"some", v>>, <<"ok", v>>, <<"fail", v>>, <<"list", s>>, *)
(*   <<"set", s>>, <<"map", s>> (s of <<key, value>>),                     *)
(*   <<"enum", variant, fields>>, <<"struct", fields>>.                    *)
(* A type is a tuple of its kind and parameters, with aliases, namespaces  *)
(* and type arguments resolved:                                            *)
(*   <<"int", lo, hi>>, <<"uint", hi>> (the unsigned types narrower than   *)
(*   the word), <<"uint64">>, <<"float">>, <<"string">>, <<"bool">>,       *)
(*   <<"bytes">>, <<"nothing">>, <<"refined", T, least>>, <<"list", T>>,   *)
(*   <<"set", T>>, <<"map", K, V>>, <<"optional", T>>, <<"result", T, E>>, *)
(*   <<"enum", variants>> (variants of <<name, discriminant, types>>, the  *)
(*   discriminant <<>> or <<n>>), <<"struct", types>>, <<"bits", width>>,  *)
(*   <<"bitsEnum", width, variants>>, <<"function">>.                      *)
(***************************************************************************)
EXTENDS Integers, SequencesExt

CONSTANT WordMax    \* i64::MAX

ASSUME WordIsNumber == WordMax \in Nat

WordMin == -WordMax - 1    \* i64::MIN

Kind(v) == v[1]
Each(kind, contents) == [i \in DOMAIN contents |-> <<kind, contents[i]>>]

\* The first three elements, or all when there are fewer.
Take3(s) == SubSeq(s, 1, IF Len(s) < 3 THEN Len(s) ELSE 3)

-----------------------------------------------------------------------------
(* Shrinking                                                               *)

\* Duplicates are kept.
KeepAll(s) == s
UniqueValues(s) ==
  FoldLeft(LAMBDA kept, x : IF Contains(kept, x) THEN kept ELSE Append(kept, x), <<>>, s)

\* Two's complement: the least integer is its own negation.
Negated(n) == IF n = WordMin THEN WordMin ELSE -n

\* The negative integers are taken further from zero.
AwayFromZero(n) ==
  (IF n # 0 THEN <<0>> ELSE <<>>)
  \o (IF n > 1 THEN <<n \div 2, n - 1>> ELSE <<>>)
  \o (IF n < -1 THEN <<-((-n) \div 2), n - 1, Negated(n)>> ELSE <<>>)
  \o (IF n = -1 THEN <<1>> ELSE <<>>)

ShrinkInteger(n) ==
  (IF n # 0 THEN <<0>> ELSE <<>>)
  \o (IF n > 1 THEN <<n \div 2, n - 1>> ELSE <<>>)
  \o (IF n < -1 THEN <<-((-n) \div 2), n + 1, Negated(n)>> ELSE <<>>)
  \o (IF n = -1 THEN <<1>> ELSE <<>>)

ShrinkUnsigned(n) ==
  (IF n # 0 THEN <<0>> ELSE <<>>) \o (IF n > 1 THEN <<n \div 2, n - 1>> ELSE <<>>)

Magnitude(n) == IF n < 0 THEN -n ELSE n
Half(n, e) == IF n % 2 = 0 /\ e = 0 THEN <<"float", n \div 2, 0>> ELSE <<"float", n, e + 1>>
FloorOf(n, e) == <<"float", n \div 2^e, 0>>

ShrinkFloat(n, e) ==
  (IF n # 0 THEN << <<"float", 0, 0>> >> ELSE <<>>)
  \o (IF Magnitude(n) > 2^e THEN <<Half(n, e), FloorOf(n, e)>> ELSE <<>>)
  \o (IF n < 0 THEN << <<"float", -n, e>> >> ELSE <<>>)

FirstHalf(s) == SubSeq(s, 1, Len(s) \div 2)
SecondHalf(s) == SubSeq(s, (Len(s) \div 2) + 1, Len(s))

\* The shorter sequences, with the halves in the order given.
Shorter(s, half, otherHalf) ==
  CASE Len(s) = 0 -> <<>>
    [] Len(s) = 1 -> << <<>> >>
    [] OTHER -> << <<>>, half, otherHalf, Front(s) >>

RECURSIVE ShrinkValue(_)

\* One element replaced by what it shrinks to, element by element.
Within(s) ==
  FlattenSeq([i \in DOMAIN s |->
    LET shrunk == ShrinkValue(s[i]) IN [j \in DOMAIN shrunk |-> [s EXCEPT ![i] = shrunk[j]]]])

\* The same for the entries of a map: first the key, unless another entry has it.
WithinEntries(s) ==
  FlattenSeq([i \in DOMAIN s |->
    LET others == {s[j][1] : j \in DOMAIN s \ {i}}
        keys   == SelectSeq(ShrinkValue(s[i][1]), LAMBDA k : k \notin others)
        values == ShrinkValue(s[i][2])
    IN [j \in DOMAIN keys |-> [s EXCEPT ![i][1] = keys[j]]]
       \o [j \in DOMAIN values |-> [s EXCEPT ![i][2] = values[j]]]])

\* What a value shrinks to, in the order in which it is tried.
ShrinkValue(v) ==
  CASE Kind(v) = "int" -> Each("int", ShrinkInteger(v[2]))
    [] Kind(v) = "uint" -> Each("uint", ShrinkUnsigned(v[2]))
    [] Kind(v) = "float" -> ShrinkFloat(v[2], v[3])
    [] Kind(v) \in {"text", "bytes"} ->
         Each(Kind(v), Shorter(v[2], SecondHalf(v[2]), FirstHalf(v[2])))
    [] Kind(v) = "some" -> << <<"none">> >> \o Each("some", ShrinkValue(v[2]))
    [] Kind(v) \in {"ok", "fail"} -> Each(Kind(v), ShrinkValue(v[2]))
    [] Kind(v) = "list" ->
         Each("list", Shorter(v[2], FirstHalf(v[2]), SecondHalf(v[2])) \o Within(v[2]))
    [] Kind(v) = "set" ->
         LET within == Within(v[2])
         IN Each("set", Shorter(v[2], FirstHalf(v[2]), SecondHalf(v[2]))
                        \o [i \in DOMAIN within |-> UniqueValues(within[i])])
    [] Kind(v) = "map" ->
         Each("map", Shorter(v[2], FirstHalf(v[2]), SecondHalf(v[2])) \o WithinEntries(v[2]))
    [] Kind(v) = "enum" ->
         LET within == Within(v[3]) IN [i \in DOMAIN within |-> <<"enum", v[2], within[i]>>]
    [] Kind(v) = "struct" -> Each("struct", Within(v[2]))
    [] OTHER -> <<>>

\* Shrinking the value negates the least integer, at any depth.
RECURSIVE NegatesLeast(_)
NegatesLeast(v) ==
  CASE Kind(v) = "int" -> v[2] = WordMin
    [] Kind(v) \in {"some", "ok", "fail"} -> NegatesLeast(v[2])
    [] Kind(v) \in {"list", "set", "struct"} -> \E i \in DOMAIN v[2] : NegatesLeast(v[2][i])
    [] Kind(v) = "map" -> \E i \in DOMAIN v[2], j \in 1 .. 2 : NegatesLeast(v[2][i][j])
    [] Kind(v) = "enum" -> \E i \in DOMAIN v[3] : NegatesLeast(v[3][i])
    [] OTHER -> FALSE

-----------------------------------------------------------------------------
(* Generation                                                              *)

InRange(lo, hi, samples) ==
  Each("int", UniqueValues(SelectSeq(samples, LAMBDA n : lo <= n /\ n <= hi)))

SignedValues(lo, hi) == InRange(lo, hi, <<0, 1, -1, 42, -42, 100, hi, lo>>)
UnsignedValues(hi) == InRange(0, hi, <<0, 1, 42, 100, hi>>)
Uint64Values ==
  Each("uint", UniqueValues(<<0, 1, 42, 100, WordMax, WordMax + 1, 2 * WordMax + 1>>))

\* 0, 1, -1, pi (13/4 here) and -0, which equals 0.
FloatValues ==
  << <<"float", 0, 0>>, <<"float", 1, 0>>, <<"float", -1, 0>>, <<"float", 13, 2>>, <<"float", 0, 0>> >>

\* "", "a", "hello", "hello world" and "123", up to the characters they hold.
StringValues == Each("text", << <<>>, <<1>>, [i \in 1 .. 5 |-> i], [i \in 1 .. 11 |-> i], <<7, 8, 9>> >>)
BytesValues == Each("bytes", << <<>>, <<0>>, [i \in 1 .. 5 |-> i], <<0, 1, 2, 127, 255>> >>)

BitWidthValues(width) ==
  LET most  == IF 2^width - 1 > WordMax THEN WordMax ELSE 2^width - 1
      least(n) == IF n < most THEN n ELSE most
  IN IF width = 0 THEN <<>> ELSE Each("int", UniqueValues(<<0, least(1), least(42), most>>))

\* A variant without a discriminant follows the one before it.
Discriminants(variants) ==
  LET number[i \in DOMAIN variants] ==
        IF variants[i][2] # <<>> THEN variants[i][2][1]
        ELSE IF i = 1 THEN 0 ELSE number[i - 1] + 1
  IN number

\* The variants that fit the bits of a bitfield's field.
BitfieldEnumValues(width, variants) ==
  LET fits == SelectSeq([i \in DOMAIN variants |-> i],
                LAMBDA i : variants[i][3] = <<>> /\ Discriminants(variants)[i] \in 0 .. 2^width - 1)
  IN [i \in DOMAIN fits |-> <<"enum", variants[fits[i]][1], <<>> >>]

\* Up to three combinations of the fields' values: every pool is cycled through
\* at the same pace, and a field without values leaves none.
Samples(pools) ==
  IF \E i \in DOMAIN pools : pools[i] = <<>> THEN <<>>
  ELSE IF pools = <<>> THEN << <<>> >>
  ELSE Take3([k \in 1 .. Max({Len(pools[i]) : i \in DOMAIN pools}) |->
               [i \in DOMAIN pools |-> pools[i][((k - 1) % Len(pools[i])) + 1]]])

ListValues(pool) ==
  IF pool = <<>> THEN <<>>
  ELSE Each("list", << <<>>, <<pool[1]>> >>
                    \o (IF Len(pool) > 1 THEN <<Take3(pool), <<pool[2], pool[2], pool[2]>> >> ELSE <<>>))

SetValues(pool) ==
  LET unique == UniqueValues(pool)
  IN IF pool = <<>> THEN <<>>
     ELSE Each("set", << <<>>, <<unique[1]>> >>
                      \o (IF Len(unique) > 1 THEN <<Take3(unique)>> ELSE <<>>))

MapValues(keyPool, pool) ==
  LET keys  == Take3(UniqueValues(keyPool))
      entry == [i \in DOMAIN keys |-> <<keys[i], pool[((i - 1) % Len(pool)) + 1]>>]
  IN IF keyPool = <<>> \/ pool = <<>> THEN <<>>
     ELSE Each("map", << <<>>, <<entry[1]>> >> \o (IF Len(keys) > 1 THEN <<entry>> ELSE <<>>))

OptionalValues(pool) ==
  IF pool = <<>> THEN <<>> ELSE << <<"none">> >> \o Each("some", Take3(pool))

ResultValues(okPool, errorPool) ==
  IF okPool = <<>> \/ errorPool = <<>> THEN <<>>
  ELSE Each("ok", Take3(okPool)) \o Each("fail", Take3(errorPool))

\* One variant that has no values leaves the enum none.
EnumValues(variants, fieldSamples) ==
  IF \E i \in DOMAIN variants : fieldSamples[i] = <<>> THEN <<>>
  ELSE FlattenSeq([i \in DOMAIN variants |->
         [k \in DOMAIN fieldSamples[i] |-> <<"enum", variants[i][1], fieldSamples[i][k]>>]])

RECURSIVE Generate(_)

FieldSamples(types) == Samples([i \in DOMAIN types |-> Generate(types[i])])

\* The pool of values of a type.
Generate(type) ==
  CASE Kind(type) = "int" -> SignedValues(type[2], type[3])
    [] Kind(type) = "uint" -> UnsignedValues(type[2])
    [] Kind(type) = "uint64" -> Uint64Values
    [] Kind(type) = "float" -> FloatValues
    [] Kind(type) = "string" -> StringValues
    [] Kind(type) = "bool" -> Each("bool", <<TRUE, FALSE>>)
    [] Kind(type) = "bytes" -> BytesValues
    [] Kind(type) = "nothing" -> << <<"nothing">> >>
    [] Kind(type) = "refined" -> SelectSeq(Generate(type[2]), LAMBDA v : v[2] >= type[3])
    [] Kind(type) = "list" -> ListValues(Generate(type[2]))
    [] Kind(type) = "set" -> SetValues(Generate(type[2]))
    [] Kind(type) = "map" -> MapValues(Generate(type[2]), Generate(type[3]))
    [] Kind(type) = "optional" -> OptionalValues(Generate(type[2]))
    [] Kind(type) = "result" -> ResultValues(Generate(type[2]), Generate(type[3]))
    [] Kind(type) = "enum" ->
         EnumValues(type[2], [i \in DOMAIN type[2] |-> FieldSamples(type[2][i][3])])
    [] Kind(type) = "struct" -> Each("struct", FieldSamples(type[2]))
    [] Kind(type) = "bits" -> BitWidthValues(type[2])
    [] Kind(type) = "bitsEnum" -> BitfieldEnumValues(type[2], type[3])
    [] Kind(type) = "function" -> <<>>
=============================================================================
