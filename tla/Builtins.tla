------------------------------ MODULE Builtins ------------------------------
(***************************************************************************)
(* The built-in functions of Jett: the types the checker gives them        *)
(* (builtin_signature in crates/jett_typecheck/src/checker.rs) and what    *)
(* the interpreter computes (call_builtin, call_higher_order_builtin and   *)
(* call_fn_value in crates/jett_comptime/src/interpreter.rs), under a      *)
(* program that calls one after the other, each on what the last one gave. *)
(*                                                                         *)
(* A type is a tuple of its kind and its parameters: <<"int64">>,          *)
(* <<"list", T>>, <<"map", K, V>>, <<"result", T, E>>, ... <<"error">> is  *)
(* the checker's wildcard, which is compatible with every type: it stands  *)
(* for type arguments that are left out. <<"function", params, result>> is *)
(* the type of a function value <<"function", name>>.                      *)
(***************************************************************************)
EXTENDS Text, Collections, Numbers

CONSTANTS
  Inputs,          \* the <<type, value>> a program may start from
  TypeArgs,        \* the types that calls name explicitly
  Samples,         \* the values of a type that are passed as further arguments
  Strays,          \* the values that are passed where every type is accepted
  Floats,          \* the float64 that float arithmetic may give
  Functions,       \* the function values: a type for every name
  Apply(_, _),     \* the outcome of a function on a tuple of arguments
  MaxCalls         \* how many calls the program makes

VARIABLES
  value, type,     \* what the last call gave, and its declared type
  wild,            \* whether a wildcard has been part of a declared type
  loose,           \* whether a built-in declared another type than it gives
  dupes,           \* whether a map was built that may repeat a key
  status,          \* "running", or how the last call ended
  left             \* the calls still to be made

vars == <<value, type, wild, loose, dupes, status, left>>

-----------------------------------------------------------------------------
(* Types                                                                   *)

IntT == <<"int64">>
UintT == <<"uint64">>
FloatT == <<"float64">>
BoolT == <<"bool">>
StrT == <<"string">>
BytesT == <<"bytes">>
NothingT == <<"nothing">>
ErrorT == <<"error">>
ListOf(t) == <<"list", t>>
SetOf(t) == <<"set", t>>
MapOf(k, v) == <<"map", k, v>>
OptionalOf(t) == <<"optional", t>>
ResultOf(t, e) == <<"result", t, e>>
FunctionOf(params, result) == <<"function", params, result>>

Strings == ListOf(StrT)

\* types_compatible: equal up to wildcards.
RECURSIVE Compatible(_, _)
Compatible(expected, got) ==
  \/ ErrorT \in {expected, got}
  \/ /\ Kind(expected) = Kind(got)
     /\ CASE Kind(expected) \in {"list", "set", "optional"} -> Compatible(expected[2], got[2])
          [] Kind(expected) \in {"map", "result"} ->
               Compatible(expected[2], got[2]) /\ Compatible(expected[3], got[3])
          [] Kind(expected) = "function" ->
               /\ Len(expected[2]) = Len(got[2])
               /\ \A i \in DOMAIN got[2] : Compatible(expected[2][i], got[2][i])
               /\ Compatible(expected[3], got[3])
          [] OTHER -> TRUE

RECURSIVE HasWildcard(_)
HasWildcard(t) ==
  CASE t = ErrorT -> TRUE
    [] Kind(t) \in {"list", "set", "optional"} -> HasWildcard(t[2])
    [] Kind(t) \in {"map", "result"} -> HasWildcard(t[2]) \/ HasWildcard(t[3])
    [] OTHER -> FALSE

RECURSIVE HasType(_, _)
HasType(v, t) ==
  CASE t = ErrorT -> TRUE
    [] Kind(t) \in {"list", "set", "optional"} ->
         Kind(v) = Kind(t) /\ \A i \in DOMAIN Contents(v) : HasType(Contents(v)[i], t[2])
    [] Kind(t) = "map" ->
         /\ Kind(v) = "map"
         /\ \A i \in DOMAIN Contents(v) :
              HasType(Contents(v)[i][1], t[2]) /\ HasType(Contents(v)[i][2], t[3])
    [] Kind(t) = "result" ->
         \/ Kind(v) = "ok" /\ HasType(Contents(v), t[2])
         \/ Kind(v) = "fail" /\ HasType(Contents(v), t[3])
    [] OTHER -> Kind(v) = Kind(t)

-----------------------------------------------------------------------------
(* Signatures                                                              *)

\* The functions that take and give the same types.
Over(names, params, result) ==
  {[name |-> n, params |-> params, result |-> result] : n \in names}

ConversionSignatures ==
  Over({"int64.from_string"}, <<StrT>>, ResultOf(IntT, StrT))
  \cup Over({"uint64.from_string"}, <<StrT>>, ResultOf(UintT, StrT))
  \cup Over({"float64.from_string"}, <<StrT>>, ResultOf(FloatT, StrT))
  \cup Over({"string.from_int64"}, <<IntT>>, StrT)
  \cup Over({"string.from_uint64"}, <<UintT>>, StrT)
  \cup Over({"string.from_float64"}, <<FloatT>>, StrT)
  \cup Over({"string.from_bool"}, <<BoolT>>, StrT)
  \cup Over({"float64.from_int64"}, <<IntT>>, FloatT)
  \cup Over({"string.length", "string.char_count"}, <<StrT>>, IntT)
  \cup Over({"string.contains", "string.starts_with", "string.ends_with"}, <<StrT, StrT>>, BoolT)
  \cup Over({"string.trim", "string.upper", "string.lower"}, <<StrT>>, StrT)
  \cup Over({"string.replace"}, <<StrT, StrT, StrT>>, StrT)
  \cup Over({"string.split"}, <<StrT, StrT>>, Strings)
  \cup Over({"string.join"}, <<Strings, StrT>>, StrT)

BytesSignatures ==
  Over({"bytes.new"}, <<>>, BytesT)
  \cup Over({"bytes.length"}, <<BytesT>>, IntT)
  \cup Over({"bytes.slice"}, <<BytesT, IntT, IntT>>, BytesT)
  \cup Over({"bytes.concat"}, <<BytesT, BytesT>>, BytesT)
  \cup Over({"bytes.from_string"}, <<StrT>>, BytesT)
  \cup Over({"bytes.to_string"}, <<BytesT>>, ResultOf(StrT, StrT))
  \cup Over({"bytes.get"}, <<BytesT, IntT>>, OptionalOf(IntT))
  \cup Over({"bytes.to_hex"}, <<BytesT>>, StrT)
  \cup Over({"bytes.from_hex"}, <<StrT>>, ResultOf(BytesT, StrT))

\* t is the type argument, or a wildcard.
ListSignatures(t) ==
  Over({"list.new"}, <<>>, ListOf(t))
  \cup Over({"list.append"}, <<ListOf(t), t>>, ListOf(t))
  \cup Over({"list.length"}, <<ListOf(t)>>, IntT)
  \cup Over({"list.get"}, <<ListOf(t), IntT>>, OptionalOf(t))
  \cup Over({"list.reverse", "list.sort", "list.unique", "list.flatten"}, <<ListOf(t)>>, ListOf(t))
  \cup Over({"list.is_empty"}, <<ListOf(t)>>, BoolT)
  \cup Over({"list.skip", "list.take", "list.remove"}, <<ListOf(t), IntT>>, ListOf(t))
  \cup Over({"list.contains"}, <<ListOf(t), t>>, BoolT)
  \cup Over({"list.index_of"}, <<ListOf(t), t>>, OptionalOf(IntT))
  \cup Over({"list.concat"}, <<ListOf(t), ListOf(t)>>, ListOf(t))

ZipSignature(t, u) ==
  Over({"list.zip"}, <<ListOf(t), ListOf(u)>>, ListOf(ListOf(ErrorT)))

\* average and median take floats when their type argument is left out.
MathSignatures(t) ==
  Over({"math.sqrt", "math.log", "math.log2", "math.log10", "math.floor", "math.ceil",
        "math.round", "math.sin", "math.cos", "math.tan", "math.to_radians",
        "math.to_degrees"}, <<FloatT>>, FloatT)
  \cup Over({"math.pow"}, <<FloatT, FloatT>>, FloatT)
  \cup Over({"math.clamp"}, <<FloatT, FloatT, FloatT>>, FloatT)
  \cup Over({"math.average", "math.median"},
          <<ListOf(IF t = ErrorT THEN FloatT ELSE t)>>, FloatT)
  \cup Over({"math.pi", "math.e"}, <<>>, FloatT)
  \cup Over({"math.mod", "math.gcd", "math.lcm"}, <<IntT, IntT>>, IntT)
  \cup Over({"math.is_even", "math.is_odd"}, <<IntT>>, BoolT)
  \cup Over({"math.factorial", "math.sign"}, <<IntT>>, IntT)
  \cup Over({"math.sum"}, <<ListOf(IntT)>>, IntT)

\* The number is an int64 or a float64, and the result of the same type.
AbsSignature(t) == Over({"math.abs"}, <<t>>, t)
MinMaxSignature(t) == Over({"math.min", "math.max"}, <<t, t>>, t)
RangeSignature(arity) ==
  Over({"range", "list.range"}, [i \in 1..arity |-> IntT], ListOf(IntT))

TextSignatures ==
  Over({"string.reverse", "string.trim_start", "string.trim_end", "string.slugify"}, <<StrT>>, StrT)
  \cup Over({"string.after", "string.before"}, <<StrT, StrT>>, StrT)
  \cup Over({"string.chars", "string.words", "string.lines"}, <<StrT>>, Strings)
  \cup Over({"string.is_empty", "string.is_not_empty"}, <<StrT>>, BoolT)
  \cup Over({"string.repeat"}, <<StrT, IntT>>, StrT)
  \cup Over({"string.slice"}, <<StrT, IntT, IntT>>, StrT)
  \cup Over({"string.pad_left", "string.pad_start", "string.pad_end", "string.truncate"},
            <<StrT, IntT, StrT>>, StrT)
  \cup Over({"string.between"}, <<StrT, StrT, StrT>>, StrT)

CharSignatures ==
  Over({"string.take_chars", "string.take_last_chars", "string.drop_chars", "string.center",
        "string.ljust", "string.rjust", "string.zfill"}, <<StrT, IntT>>, StrT)
  \cup Over({"string.char_at"}, <<StrT, IntT>>, OptionalOf(StrT))
  \cup Over({"string.index_of"}, <<StrT, StrT>>, OptionalOf(IntT))
  \cup Over({"string.count"}, <<StrT, StrT>>, IntT)
  \cup Over({"string.to_upper_first", "string.to_lower_first"}, <<StrT>>, StrT)
  \cup Over({"string.remove_prefix", "string.remove_suffix"}, <<StrT, StrT>>, StrT)
  \cup Over({"string.is_numeric", "string.is_alpha"}, <<StrT>>, BoolT)

\* Mutant: a choice from an empty list is forgotten.
RandomSignaturesTotal(t) ==
  Over({"random.choice"}, <<ListOf(t)>>, t) \cup Over({"random.shuffle"}, <<ListOf(t)>>, ListOf(t))

RandomSignatures(t) ==
  Over({"random.int64"}, <<IntT, IntT>>, IntT)
  \cup Over({"random.float64"}, <<>>, FloatT)
  \cup Over({"random.bool"}, <<>>, BoolT)
  \cup Over({"random.choice"}, <<ListOf(t)>>, OptionalOf(t))
  \cup Over({"random.shuffle"}, <<ListOf(t)>>, ListOf(t))

EncodingSignatures ==
  Over({"encoding.base64_encode", "encoding.base64_decode", "encoding.hex_encode",
        "encoding.hex_decode", "encoding.url_encode", "encoding.url_decode"}, <<StrT>>, StrT)
  \cup Over({"csv.parse"}, <<StrT>>, ListOf(Strings))
  \cup Over({"csv.stringify"}, <<ListOf(Strings)>>, StrT)
  \cup Over({"csv.parse_with_header"}, <<StrT>>, ListOf(MapOf(StrT, StrT)))

MapSignatures(k, v) ==
  Over({"map.new"}, <<>>, MapOf(k, v))
  \cup Over({"map.length"}, <<MapOf(k, v)>>, IntT)
  \cup Over({"map.is_empty"}, <<MapOf(k, v)>>, BoolT)
  \cup Over({"map.has", "map.contains_key"}, <<MapOf(k, v), k>>, BoolT)
  \cup Over({"map.get"}, <<MapOf(k, v), k>>, OptionalOf(v))
  \cup Over({"map.insert", "map.set"}, <<MapOf(k, v), k, v>>, MapOf(k, v))
  \cup Over({"map.remove"}, <<MapOf(k, v), k>>, MapOf(k, v))
  \cup Over({"map.keys"}, <<MapOf(k, v)>>, ListOf(k))
  \cup Over({"map.values"}, <<MapOf(k, v)>>, ListOf(v))

MapMoreSignatures(k, v) ==
  Over({"map.get_or"}, <<MapOf(k, v), k, v>>, v)
  \cup Over({"map.merge"}, <<MapOf(k, v), MapOf(k, v)>>, MapOf(k, v))
  \cup Over({"map.from_lists"}, <<ListOf(k), ListOf(v)>>, MapOf(k, v))
  \cup Over({"map.entries"}, <<MapOf(k, v)>>, ListOf(ListOf(ErrorT)))
  \cup Over({"map.filter"}, <<MapOf(k, v), FunctionOf(<<k, v>>, BoolT)>>, MapOf(k, v))
  \cup Over({"map.map_values"}, <<MapOf(k, v), FunctionOf(<<v>>, v)>>, MapOf(k, v))
  \cup Over({"map.for_each"}, <<MapOf(k, v), FunctionOf(<<k, v>>, ErrorT)>>, NothingT)

SetSignatures(t) ==
  Over({"set.new"}, <<>>, SetOf(t))
  \cup Over({"set.add", "set.remove"}, <<SetOf(t), t>>, SetOf(t))
  \cup Over({"set.contains"}, <<SetOf(t), t>>, BoolT)
  \cup Over({"set.length"}, <<SetOf(t)>>, IntT)
  \cup Over({"set.is_empty"}, <<SetOf(t)>>, BoolT)
  \cup Over({"set.to_list"}, <<SetOf(t)>>, ListOf(t))
  \cup Over({"set.union", "set.intersection", "set.difference"},
            <<SetOf(t), SetOf(t)>>, SetOf(t))

\* A result of another type than the list's is named by the second argument.
HigherOrderSignatures(t, u) ==
  Over({"list.first", "list.last"}, <<ListOf(t)>>, OptionalOf(t))
  \cup Over({"list.filter"}, <<ListOf(t), FunctionOf(<<t>>, BoolT)>>, ListOf(t))
  \cup Over({"list.map"}, <<ListOf(t), FunctionOf(<<t>>, u)>>, ListOf(u))
  \cup Over({"list.find"}, <<ListOf(t), FunctionOf(<<t>>, BoolT)>>, OptionalOf(t))
  \cup Over({"list.sort_by"}, <<ListOf(t), FunctionOf(<<t>>, IntT)>>, ListOf(t))
  \cup Over({"list.all", "list.any"}, <<ListOf(t), FunctionOf(<<t>>, BoolT)>>, BoolT)
  \cup Over({"list.count"}, <<ListOf(t), FunctionOf(<<t>>, BoolT)>>, IntT)
  \cup Over({"list.sum"}, <<ListOf(t)>>, t)
  \cup Over({"list.group_by"}, <<ListOf(t), FunctionOf(<<t>>, StrT)>>, MapOf(StrT, ListOf(t)))
  \cup Over({"list.reduce"}, <<ListOf(t), u, FunctionOf(<<u, t>>, u)>>, u)
  \cup Over({"list.flat_map"}, <<ListOf(t), FunctionOf(<<t>>, ListOf(u))>>, ListOf(u))

ListMoreSignatures(t) ==
  Over({"list.chunk"}, <<ListOf(t), IntT>>, ListOf(ListOf(t)))
  \cup Over({"list.sort_by_index", "list.remove_at"}, <<ListOf(t), IntT>>, ListOf(t))
  \cup Over({"list.is_sorted"}, <<ListOf(t)>>, BoolT)
  \cup Over({"list.all_elements_in"}, <<ListOf(t), ListOf(t)>>, BoolT)
  \cup Over({"list.enumerate"}, <<ListOf(t)>>, ListOf(ListOf(ErrorT)))
  \cup Over({"list.from_set"}, <<SetOf(t)>>, ListOf(t))
  \cup Over({"list.repeat"}, <<t, IntT>>, ListOf(t))
  \cup Over({"list.last_index_of"}, <<ListOf(t), t>>, OptionalOf(IntT))
  \cup Over({"list.insert_at"}, <<ListOf(t), IntT, t>>, ListOf(t))
  \cup Over({"list.swap"}, <<ListOf(t), IntT, IntT>>, ListOf(t))

PlainSignatures ==
  ConversionSignatures \cup BytesSignatures \cup TextSignatures \cup CharSignatures
  \cup EncodingSignatures
  \cup UNION {RangeSignature(n) : n \in 1..3}
  \cup UNION {AbsSignature(t) \cup MinMaxSignature(t) : t \in {IntT, FloatT}}

\* Everything a program can call by naming the types t and u, or neither.
Signatures(t, u) ==
  ListSignatures(t) \cup ZipSignature(t, u) \cup MathSignatures(t) \cup RandomSignatures(t)
  \cup MapSignatures(t, u) \cup MapMoreSignatures(t, u) \cup SetSignatures(t)
  \cup HigherOrderSignatures(t, u) \cup ListMoreSignatures(t)

\* These three are refused without their type argument.
Explicit == {"list.new", "list.append", "list.get"}

-----------------------------------------------------------------------------
(* The dispatch on the name                                                *)

\* Every arm first looks at the kinds of its arguments; where the parameter
\* has the type named in the call, any value is taken.
Taken(v, param) ==
  \/ param = ErrorT
  \/ Kind(v) = Kind(param)
  \/ Kind(param) = "uint64" /\ Kind(v) = "int64" /\ Contents(v) >= 0

Dispatch == PlainSignatures \cup Signatures(ErrorT, ErrorT)
Patterns ==
  [name \in {s.name : s \in Dispatch} |-> {s.params : s \in {s \in Dispatch : s.name = name}}]

Matched(name, a) ==
  \E params \in Patterns[name] :
    Len(params) = Len(a) /\ \A i \in DOMAIN a : Taken(a[i], params[i])

\* The text or integer of the i-th argument.
Arg(a, i) == Contents(a[i])
Str(s) == Gives(String(s))
Whole(n) == Gives(Int64(n))
Truth(b) == Gives(Bool(b))
Items(items) == Gives(List(items))
Texts(parts) == Gives(List([i \in DOMAIN parts |-> String(parts[i])]))

\* The value of a tuple of at most one, or a failure the program can handle.
OrFail(held) == Gives(IF held = <<>> THEN ResultFail(String(<<>>)) ELSE ResultOk(held[1]))
OrError(held) == IF held = <<>> THEN Fails ELSE Gives(held[1])

\* The arms are grouped as they stand in the code; what a group does not know
\* is left to the one before it.
ConversionCall(name, a) ==
  CASE name = "int64.from_string" ->
         LET n == ParseInteger(Arg(a, 1), MinInt, MaxInt)
         IN OrFail([i \in DOMAIN n |-> Int64(n[i])])
    [] name = "uint64.from_string" ->
         LET n == ParseInteger(Arg(a, 1), 0, MaxUint)
         IN OrFail([i \in DOMAIN n |-> Uint64(n[i])])
    [] name = "string.from_int64" -> Str(Decimal(Arg(a, 1)))
    [] name = "string.from_uint64" -> Str(Decimal(Arg(a, 1)))
    [] name = "float64.from_int64" -> Gives(Float64(Arg(a, 1)))
    [] name = "string.from_bool" -> Str(IF Arg(a, 1) THEN <<116, 114, 117, 101>> ELSE <<102, 97, 108, 115, 101>>)
    [] name = "string.from_float64" -> Str(Decimal(Arg(a, 1)))
    [] name = "float64.from_string" ->
         LET n == ParseInteger(Arg(a, 1), MinInt, MaxInt)
         IN OrFail([i \in DOMAIN n |-> Float64(n[i])])

\* length to pad_end of the first part of the string built-ins
StringCall(name, a) ==
  CASE name \in {"string.length", "string.char_count"} -> Whole(CharCount(Arg(a, 1)))
    [] name = "string.contains" -> Truth(ContainsText(Arg(a, 1), Arg(a, 2)))
    [] name = "string.trim" -> Str(Trim(Arg(a, 1)))
    [] name = "string.upper" -> Str(Upper(Arg(a, 1)))
    [] name = "string.lower" -> Str(Lower(Arg(a, 1)))
    [] name = "string.replace" -> Str(Replace(Arg(a, 1), Arg(a, 2), Arg(a, 3)))
    [] name = "string.split" -> Texts(Split(Arg(a, 1), Arg(a, 2)))
    [] name = "string.join" ->
         LET parts == Arg(a, 1)
         IN IF \A i \in DOMAIN parts : Kind(parts[i]) = "string"
            THEN Str(Join([i \in DOMAIN parts |-> Contents(parts[i])], Arg(a, 2))) ELSE Fails
    [] name = "string.starts_with" -> Truth(StartsWith(Arg(a, 1), Arg(a, 2)))
    [] name = "string.ends_with" -> Truth(EndsWith(Arg(a, 1), Arg(a, 2)))
    [] name = "string.is_empty" -> Truth(Arg(a, 1) = Empty)
    [] name = "string.is_not_empty" -> Truth(Arg(a, 1) # Empty)
    [] OTHER -> ConversionCall(name, a)

StringShapeCall(name, a) ==
  CASE name = "string.slice" -> Str(SliceText(Arg(a, 1), Arg(a, 2), Arg(a, 3)))
    [] name = "string.repeat" -> Str(Repeated(Arg(a, 1), Arg(a, 2)))
    [] name \in {"string.pad_left", "string.pad_start"} ->
         Str(PadLeft(Arg(a, 1), Arg(a, 2), Arg(a, 3)))
    [] name = "string.pad_end" -> Str(PadEnd(Arg(a, 1), Arg(a, 2), Arg(a, 3)))
    [] name = "string.slugify" -> Str(Slugify(Arg(a, 1)))
    [] name = "string.truncate" -> Str(Truncate(Arg(a, 1), Arg(a, 2), Arg(a, 3)))
    [] name = "string.between" -> Str(Between(Arg(a, 1), Arg(a, 2), Arg(a, 3)))
    [] OTHER -> StringCall(name, a)

StringPartCall(name, a) ==
  CASE name = "string.reverse" -> Str(ReverseText(Arg(a, 1)))
    [] name = "string.after" -> Str(After(Arg(a, 1), Arg(a, 2)))
    [] name = "string.before" -> Str(Before(Arg(a, 1), Arg(a, 2)))
    [] name = "string.trim_start" -> Str(TrimStart(Arg(a, 1)))
    [] name = "string.trim_end" -> Str(TrimEnd(Arg(a, 1)))
    [] name = "string.chars" -> Texts(Graphemes(Arg(a, 1)))
    [] name = "string.words" -> Texts(Words(Arg(a, 1)))
    [] name = "string.lines" -> Texts(Lines(Arg(a, 1)))
    [] OTHER -> StringShapeCall(name, a)

StringCharCall(name, a) ==
  CASE name = "string.take_chars" -> Str(TakeChars(Arg(a, 1), Arg(a, 2)))
    [] name = "string.take_last_chars" -> Str(TakeLastChars(Arg(a, 1), Arg(a, 2)))
    [] name = "string.drop_chars" -> Str(DropChars(Arg(a, 1), Arg(a, 2)))
    [] name = "string.char_at" ->
         LET c == CharAt(Arg(a, 1), Arg(a, 2))
         IN Gives(Optional([i \in DOMAIN c |-> String(c[i])]))
    [] name = "string.index_of" ->
         LET m == FindMatch(Arg(a, 1), Arg(a, 2))
         IN Gives(Optional([i \in DOMAIN m |-> Int64(m[i].index)]))
    [] name = "string.count" -> Whole(CountMatches(Arg(a, 1), Arg(a, 2)))
    [] name = "string.to_upper_first" -> Str(ToUpperFirst(Arg(a, 1)))
    [] name = "string.to_lower_first" -> Str(ToLowerFirst(Arg(a, 1)))
    [] OTHER -> StringPartCall(name, a)

StringFormatCall(name, a) ==
  CASE name = "string.center" -> Str(Center(Arg(a, 1), Arg(a, 2)))
    [] name = "string.ljust" -> Str(PadEnd(Arg(a, 1), Arg(a, 2), Empty))
    [] name = "string.rjust" -> Str(PadLeft(Arg(a, 1), Arg(a, 2), Empty))
    [] name = "string.zfill" -> Str(Zfill(Arg(a, 1), Arg(a, 2)))
    [] name = "string.remove_prefix" -> Str(RemovePrefix(Arg(a, 1), Arg(a, 2)))
    [] name = "string.remove_suffix" -> Str(RemoveSuffix(Arg(a, 1), Arg(a, 2)))
    [] name = "string.is_numeric" -> Truth(IsNumeric(Arg(a, 1)))
    [] name = "string.is_alpha" -> Truth(IsAlpha(Arg(a, 1)))
    [] OTHER -> StringCharCall(name, a)

EncodingCall(name, a) ==
  LET asString(held) == [i \in DOMAIN held |-> String(held[i])]
  IN CASE name = "encoding.base64_encode" -> Str(Base64Encode(Utf8(Arg(a, 1))))
       [] name = "encoding.base64_decode" -> OrError(asString(Base64Decode(Arg(a, 1))))
       [] name = "encoding.hex_encode" -> Str(HexEncode(Arg(a, 1)))
       [] name = "encoding.hex_decode" ->
            IF HexCuts(Arg(a, 1)) THEN Panics
            ELSE OrError(asString(HexDecode(Arg(a, 1))))
       [] name = "encoding.url_encode" -> Str(UrlEncode(Arg(a, 1)))
       [] name = "encoding.url_decode" -> OrError(asString(UrlDecode(Arg(a, 1))))
       [] OTHER -> StringFormatCall(name, a)

\* How values other than strings and integers are displayed is left out.
Display(v) == CASE Kind(v) = "string" -> Contents(v)
                [] Kind(v) \in IntKinds -> Decimal(Contents(v))
                [] OTHER -> <<Quote>>

\* Cells beyond the header have no key; a header may repeat one.
CsvCall(name, a) ==
  LET texts(row) == [i \in DOMAIN row |-> String(row[i])]
      records == ParseCsv(Arg(a, 1))
      rows == Arg(a, 1)
  IN CASE name = "csv.parse" -> Items([r \in DOMAIN records |-> List(texts(records[r]))])
       [] name = "csv.parse_with_header" ->
            Items([r \in 1..Len(records) - 1 |->
                     Map(MapFromLists(texts(records[1]), texts(records[r + 1])))])
       [] name = "csv.stringify" ->
            IF \E r \in DOMAIN rows : Kind(rows[r]) # "list" THEN Fails
            ELSE Str(StringifyCsv([r \in DOMAIN rows |->
                       [f \in DOMAIN Contents(rows[r]) |-> Display(Contents(rows[r])[f])]]))
       [] OTHER -> EncodingCall(name, a)

BytesCall(name, a) ==
  CASE name = "bytes.new" -> Gives(Bytes(<<>>))
    [] name = "bytes.length" -> Whole(Len(Arg(a, 1)))
    [] name = "bytes.slice" -> Gives(Bytes(Slice(Arg(a, 1), Arg(a, 2), Arg(a, 3))))
    [] name = "bytes.concat" -> Gives(Bytes(Arg(a, 1) \o Arg(a, 2)))
    [] name = "bytes.from_string" -> Gives(Bytes(Utf8(Arg(a, 1))))
    [] name = "bytes.to_string" ->
         LET s == FromUtf8(Arg(a, 1)) IN OrFail([i \in DOMAIN s |-> String(s[i])])
    [] name = "bytes.to_hex" -> Str(ToHex(Arg(a, 1)))
    [] name = "bytes.from_hex" ->
         LET b == ParseHexBytes(Arg(a, 1)) IN OrFail([i \in DOMAIN b |-> Bytes(b[i])])
    [] name = "bytes.get" ->
         LET b == Arg(a, 1)
         IN Gives(Optional(IF Within(b, Arg(a, 2)) THEN <<Int64(b[Arg(a, 2) + 1])>> ELSE <<>>))
    [] OTHER -> CsvCall(name, a)

ListCall(name, a) ==
  CASE name = "list.new" -> Items(<<>>)
    [] name = "list.length" -> Whole(Len(Arg(a, 1)))
    [] name = "list.append" -> Items(Append(Arg(a, 1), a[2]))
    [] name = "list.get" -> Gives(ListGet(Arg(a, 1), Arg(a, 2)))
    [] name = "list.first" -> Gives(ListFirst(Arg(a, 1)))
    [] name = "list.last" -> Gives(ListLast(Arg(a, 1)))
    [] name = "list.is_empty" -> Truth(Arg(a, 1) = <<>>)
    [] name = "list.skip" -> Items(ListSkip(Arg(a, 1), Arg(a, 2)))
    [] name = "list.take" -> Items(ListTake(Arg(a, 1), Arg(a, 2)))
    [] name = "list.reverse" -> Items(Reverse(Arg(a, 1)))
    [] name = "list.contains" -> Truth(Contains(Arg(a, 1), a[2]))
    [] name = "list.index_of" -> Gives(IndexOf(Arg(a, 1), a[2]))
    [] OTHER -> BytesCall(name, a)

ListJoinCall(name, a) ==
  CASE name = "list.remove" -> RemoveAtIndex(Arg(a, 1), Arg(a, 2))
    [] name = "list.concat" -> Items(Arg(a, 1) \o Arg(a, 2))
    [] name = "list.flatten" -> Items(Flatten(Arg(a, 1)))
    [] name = "list.unique" -> Items(Distinct(Arg(a, 1)))
    [] name = "list.zip" -> Items(ZipPairs(Arg(a, 1), Arg(a, 2)))
    [] OTHER -> ListCall(name, a)

ListRowsCall(name, a) ==
  CASE name = "list.chunk" -> Items(Chunks(Arg(a, 1), Arg(a, 2)))
    [] name = "list.is_sorted" -> Truth(IsSortedList(Arg(a, 1)))
    [] name = "list.all_elements_in" -> Truth(ToSet(Arg(a, 1)) \subseteq ToSet(Arg(a, 2)))
    [] OTHER -> ListJoinCall(name, a)

ListPlaceCall(name, a) ==
  CASE name = "list.enumerate" -> Items(Enumerated(Arg(a, 1)))
    [] name = "list.from_set" -> Items(Arg(a, 1))
    [] name = "list.repeat" -> Items([i \in 1..Arg(a, 2) |-> a[1]])
    [] name = "list.last_index_of" -> Gives(LastIndexOf(Arg(a, 1), a[2]))
    [] name = "list.insert_at" -> InsertAtIndex(Arg(a, 1), Arg(a, 2), a[3])
    [] name = "list.remove_at" -> RemoveAtIndex(Arg(a, 1), Arg(a, 2))
    [] name = "list.swap" -> Swap(Arg(a, 1), Arg(a, 2), Arg(a, 3))
    [] OTHER -> ListRowsCall(name, a)

MapCall(name, a) ==
  CASE name = "map.new" -> Gives(Map(<<>>))
    [] name = "map.length" -> Whole(Len(Arg(a, 1)))
    [] name \in {"map.has", "map.contains_key"} -> Truth(HasKey(Arg(a, 1), a[2]))
    [] name = "map.get" -> Gives(Optional(MapGet(Arg(a, 1), a[2])))
    [] name \in {"map.insert", "map.set"} -> Gives(Map(MapInsert(Arg(a, 1), a[2], a[3])))
    [] name = "map.remove" -> Gives(Map(MapRemove(Arg(a, 1), a[2])))
    [] name = "map.keys" -> Items(Keys(Arg(a, 1)))
    [] name = "map.values" -> Items(Vals(Arg(a, 1)))
    [] name = "map.is_empty" -> Truth(Arg(a, 1) = <<>>)
    [] name = "map.get_or" ->
         Gives(IF HasKey(Arg(a, 1), a[2]) THEN MapGet(Arg(a, 1), a[2])[1] ELSE a[3])
    [] name = "map.merge" -> Gives(Map(MapMerge(Arg(a, 1), Arg(a, 2))))
    [] name = "map.from_lists" -> Gives(Map(MapFromLists(Arg(a, 1), Arg(a, 2))))
    [] OTHER -> ListPlaceCall(name, a)

SetCall(name, a) ==
  CASE name = "map.entries" -> Items(MapEntries(Arg(a, 1)))
    [] name = "set.new" -> Gives(Set(<<>>))
    [] name = "set.add" -> Gives(Set(SetAdd(Arg(a, 1), a[2])))
    [] name = "set.remove" -> Gives(Set(SetRemove(Arg(a, 1), a[2])))
    [] name = "set.contains" -> Truth(Contains(Arg(a, 1), a[2]))
    [] name = "set.length" -> Whole(Len(Arg(a, 1)))
    [] name = "set.is_empty" -> Truth(Arg(a, 1) = <<>>)
    [] name = "set.to_list" -> Items(Arg(a, 1))
    [] name = "set.union" -> Gives(Set(SetUnion(Arg(a, 1), Arg(a, 2))))
    [] name = "set.intersection" -> Gives(Set(SetIntersection(Arg(a, 1), Arg(a, 2))))
    [] name = "set.difference" -> Gives(Set(SetDifference(Arg(a, 1), Arg(a, 2))))
    [] OTHER -> MapCall(name, a)

-----------------------------------------------------------------------------
(* Calls of function values                                                *)

\* call_fn_value: the number of arguments must be that of the parameters.
Applied(f, args) ==
  IF Kind(f) = "function" /\ Len(args) = Len(Functions[Contents(f)][2])
  THEN Apply(Contents(f), args) ELSE Fails

\* What the function gives for each member of the list, or value of the map.
OfMembers(f, members) == [i \in DOMAIN members |-> Applied(f, <<members[i]>>)]

HigherOrderCall(name, a) ==
  LET outcomes == OfMembers(a[2], Arg(a, 1))
  IN CASE name = "list.filter" -> ListFilter(Arg(a, 1), outcomes)
       [] name = "list.map" -> ListMap(outcomes)
       [] name = "list.find" -> ListFind(Arg(a, 1), outcomes)
       [] name = "list.sort_by" -> ListSortBy(Arg(a, 1), outcomes)
       [] name = "list.all" -> ListAll(outcomes)
       [] name = "list.any" -> ListAny(outcomes)
       [] OTHER -> SetCall(name, a)

\* The function takes what the last call gave and the next member.
Reduced(items, initial, f) ==
  FoldLeft(LAMBDA acc, x : IF Gave(acc) THEN Applied(f, <<acc[2], x>>) ELSE acc,
           Gives(initial), items)

FoldCall(name, a) ==
  LET outcomes == OfMembers(a[2], Arg(a, 1))
  IN CASE name = "list.count" -> ListCount(Arg(a, 1), outcomes)
       [] name = "list.group_by" -> ListGroupBy(Arg(a, 1), outcomes)
       [] name = "list.reduce" -> Reduced(Arg(a, 1), a[2], a[3])
       [] name = "list.flat_map" -> ListFlatMap(outcomes)
       [] OTHER -> HigherOrderCall(name, a)

MapFunctionCall(name, a) ==
  LET entries == Arg(a, 1)
      outcomes == [i \in DOMAIN entries |-> Applied(a[2], entries[i])]
  IN CASE name = "map.filter" -> MapFilter(entries, outcomes)
       [] name = "map.map_values" -> MapMapValues(entries, OfMembers(a[2], Vals(entries)))
       [] name = "map.for_each" -> MapForEach(outcomes)
       [] OTHER -> FoldCall(name, a)

-----------------------------------------------------------------------------
(* Calls with several outcomes: overflow, floats and chance                *)

\* The built-ins that may leave any order, on lists of at most SortBound members.
Arranging == {"list.sort", "list.sort_by_index", "random.shuffle"}
SortBound == 4

\* sort_by with an order that is none, because values of one kind are alike to
\* values of others, may panic or leave any order.
SortCall(name, a) ==
  LET items == Arg(a, 1)
      outcomes(sorted, kinds, Of(_)) ==
        IF \/ \A i \in DOMAIN items : Of(items[i]) \notin kinds
           \/ Cardinality({Of(items[i]) : i \in DOMAIN items}) = 1
        THEN {Items(sorted)}
        ELSE {Panics} \cup {Items([i \in DOMAIN items |-> items[p[i]]]) :
                               p \in Permutations(DOMAIN items)}
      at(row) == IF Kind(row) = "list" /\ Within(Contents(row), Arg(a, 2))
                 THEN Kind(Contents(row)[Arg(a, 2) + 1]) ELSE "none"
  IN CASE name = "list.sort" -> outcomes(Sorted(items), SortKinds, Kind)
       [] name = "list.sort_by_index" ->
            outcomes(SortedByIndex(items, Arg(a, 2)), IndexedKinds, at)
       [] OTHER -> {MapFunctionCall(name, a)}

\* The results of float arithmetic are not told apart.
SomeFloat == {Gives(Float64(x)) : x \in Floats}

\* clamp panics when its bounds are the wrong way round.
RoundingCall(name, a) ==
  LET num(x) == Gives(<<Kind(a[1]), x>>)
  IN CASE name = "math.abs" ->
            IF Kind(a[1]) = "int64" THEN AbsOutcomes(Arg(a, 1)) ELSE {num(Abs(Arg(a, 1)))}
       [] name = "math.min" -> {num(IF Arg(a, 2) < Arg(a, 1) THEN Arg(a, 2) ELSE Arg(a, 1))}
       [] name = "math.max" -> {num(IF Arg(a, 2) > Arg(a, 1) THEN Arg(a, 2) ELSE Arg(a, 1))}
       [] name \in {"math.sqrt", "math.pow", "math.floor", "math.ceil", "math.round"} -> SomeFloat
       [] name = "math.clamp" ->
            IF Arg(a, 2) > Arg(a, 3) THEN {Panics}
            ELSE {num(Clamp(Arg(a, 1), Arg(a, 2), Arg(a, 3)))}
       [] OTHER -> SortCall(name, a)

MathCall(name, a) ==
  CASE name \in {"math.average", "math.median"} -> IF Arg(a, 1) = <<>> THEN {Fails} ELSE SomeFloat
    [] name \in {"math.log", "math.log2", "math.log10", "math.pi", "math.e", "math.sin",
                 "math.cos", "math.tan"} -> SomeFloat
    [] OTHER -> RoundingCall(name, a)

IntegerCall(name, a) ==
  CASE name = "math.mod" -> ModOutcomes(Arg(a, 1), Arg(a, 2))
    [] name = "math.is_even" -> {Truth(Arg(a, 1) % 2 = 0)}
    [] name = "math.is_odd" -> {Truth(Arg(a, 1) % 2 # 0)}
    [] name = "math.sum" ->
         IF \A i \in DOMAIN Arg(a, 1) : Kind(Arg(a, 1)[i]) = "int64"
         THEN SumOutcomes(Arg(a, 1)) ELSE {Fails}
    [] name = "math.gcd" -> GcdOutcomes(Arg(a, 1), Arg(a, 2))
    [] name = "math.lcm" -> LcmOutcomes(Arg(a, 1), Arg(a, 2))
    [] name = "math.factorial" -> {Factorial(Arg(a, 1))}
    [] name = "math.sign" -> {Whole(Sign(Arg(a, 1)))}
    [] name \in {"math.to_radians", "math.to_degrees"} -> SomeFloat
    [] OTHER -> MathCall(name, a)

\* range: from zero, from a start, or by a step.
RangeCall(name, a) ==
  IF name \notin {"range", "list.range"} THEN IntegerCall(name, a)
  ELSE CASE Len(a) = 1 -> RangeOutcomes(0, Arg(a, 1), 1)
         [] Len(a) = 2 -> RangeOutcomes(Arg(a, 1), Arg(a, 2), 1)
         [] Len(a) = 3 -> RangeOutcomes(Arg(a, 1), Arg(a, 2), Arg(a, 3))

\* The kind of the first member decides; the sum of none is an int64.
SumCall(name, a) ==
  LET items == Arg(a, 1)
      kinds == {Kind(items[i]) : i \in DOMAIN items}
  IN IF name # "list.sum" THEN RangeCall(name, a)
     ELSE CASE items = <<>> -> {Whole(0)}
            [] kinds = {"int64"} -> SumOutcomes(items)
            [] kinds = {"float64"} -> SomeFloat
            [] OTHER -> {Fails}

RandomCall(name, a) ==
  CASE name = "random.int64" ->
         IF Arg(a, 1) >= Arg(a, 2) THEN {Fails}
         ELSE {Whole(n) : n \in Arg(a, 1)..Arg(a, 2) - 1}
    [] name = "random.float64" -> SomeFloat
    [] name = "random.bool" -> {Truth(TRUE), Truth(FALSE)}
    [] name = "random.choice" ->
         IF Arg(a, 1) = <<>> THEN {Gives(Optional(<<>>))}
         ELSE {Gives(Optional(<<x>>)) : x \in ToSet(Arg(a, 1))}
    [] name = "random.shuffle" ->
         {Items([i \in DOMAIN Arg(a, 1) |-> Arg(a, 1)[p[i]]]) :
            p \in Permutations(DOMAIN Arg(a, 1))}
    [] OTHER -> SumCall(name, a)

-----------------------------------------------------------------------------
(* The program                                                             *)

\* What calls name explicitly, or leave out.
Callable == PlainSignatures \cup UNION {Signatures(named[1], named[2]) : named \in TypeArgs}

Init ==
  /\ \E input \in Inputs : type = input[1] /\ value = input[2]
  /\ wild = FALSE /\ loose = FALSE /\ dupes = FALSE
  /\ status = "running"
  /\ left = MaxCalls

\* The arguments the checker accepts for a parameter.
Fitting ==
  [param \in UNION {ToSet(s.params) : s \in Callable} |->
     IF param = ErrorT THEN Strays
     ELSE {sample[2] : sample \in {x \in Samples : Compatible(param, x[1])}}]

\* The first argument is what the last call gave.
Arguments(s) ==
  CASE Len(s.params) = 0 -> {<<>>}
    [] Len(s.params) = 1 -> {<<value>>}
    [] Len(s.params) = 2 -> {<<value, y>> : y \in Fitting[s.params[2]]}
    [] Len(s.params) = 3 ->
         {<<value, y, z>> : y \in Fitting[s.params[2]], z \in Fitting[s.params[3]]}

\* The memory is full before a length is no int64.
Stored(outcome) ==
  Gave(outcome) /\ Kind(outcome[2]) \in {"string", "bytes", "list", "map", "set"}
    => Len(Contents(outcome[2])) <= MaxInt

\* A call that the checker accepts.
Call(s) ==
  /\ status = "running" /\ left > 0
  /\ ~(s.name \in Explicit /\ HasWildcard(s.result))
  /\ s.params # <<>> => Compatible(s.params[1], type)
  /\ s.name \in Arranging /\ Kind(value) = "list" => Len(Contents(value)) <= SortBound
  /\ wild' = (wild \/ HasWildcard(s.result) \/ \E i \in DOMAIN s.params : HasWildcard(s.params[i]))
  /\ loose' = (loose \/ s.name \in {"list.flatten", "list.sum"})
  /\ dupes' = (dupes \/ s.name \in {"map.from_lists", "csv.parse_with_header"})
  /\ type' = s.result
  /\ left' = left - 1
  /\ \E a \in Arguments(s) :
       IF ~Matched(s.name, a) THEN status' = "mismatch" /\ UNCHANGED value
       ELSE \E outcome \in RandomCall(s.name, a) :
              CASE outcome = Fails -> status' = "failed" /\ UNCHANGED value
                [] outcome = Panics \/ ~Stored(outcome) -> status' = "panicked" /\ UNCHANGED value
                [] OTHER -> value' = outcome[2] /\ status' = "running"

Next == \E s \in Callable : Call(s)

Spec == Init /\ [][Next]_vars

-----------------------------------------------------------------------------
(* Properties of what a program holds                                      *)

\* The samples of a type, and those of a type that the value has.
SamplesOf(t) == {x[2] : x \in {x \in Samples : x[1] = t}}
SampleTexts == {Contents(v) : v \in SamplesOf(StrT)}
Known == status = "running"
Is(kind) == Known /\ Kind(value) = kind

\* A program that the checker accepts and that names its types never reaches a
\* built-in with an argument it does not know, and what a built-in gives has
\* the declared type to the last element, from the second call on as well as
\* from the first. list.flatten and list.sum are the exceptions.
DeclaredTypeKept ==
  ~(wild \/ loose) => status # "mismatch" /\ (Known => HasType(value, type))

\* However sets and maps are built, merged, grouped and filtered, no member and
\* no key comes twice: searching from the front finds the only one. Building a
\* map from two lists of keys and values is the exception.
NoRepeats ==
  ~dupes =>
    /\ Is("set") => IsInjective(Contents(value))
    /\ Is("map") => IsInjective(Keys(Contents(value)))

\* What a map stands for.
AsFunction(entries) == [k \in ToSet(Keys(entries)) |-> MapGet(entries, k)[1]]

\* Maps that repeat no key act as functions: insertion overrides one key and
\* keeps the others, removal takes one away, and of two merged maps the second
\* decides.
MapActsAsFunction ==
  Is("map") /\ ~dupes =>
    LET m == Contents(value)
    IN /\ \A k \in SamplesOf(StrT), v \in SamplesOf(IntT) :
            /\ AsFunction(MapInsert(m, k, v)) = (k :> v) @@ AsFunction(m)
            /\ AsFunction(MapRemove(m, k)) = Restrict(AsFunction(m), ToSet(Keys(m)) \ {k})
       /\ \A other \in SamplesOf(MapOf(StrT, IntT)) :
            AsFunction(MapMerge(m, Contents(other))) = AsFunction(Contents(other)) @@ AsFunction(m)

-----------------------------------------------------------------------------
(* Laws of lists, texts and numbers, on whatever a program has built       *)

Arrangement(s, t) == \E p \in Permutations(DOMAIN s) : t = [i \in DOMAIN s |-> s[p[i]]]

\* Sorting lists of int64, float64 or strings leaves an arrangement that
\* is_sorted agrees with and that sorting again keeps; sorting rows by a column
\* keeps the order of the rows that are equal there.
SortingSorts ==
  Is("list") /\ Len(Contents(value)) <= SortBound =>
    LET items == Contents(value)
        kinds == {Kind(items[i]) : i \in DOMAIN items}
        column(row) == Contents(row)[1]
        first == RandomCall("list.sort_by_index", <<value, Int64(0)>>)
    IN /\ \E k \in SortedKinds : kinds \subseteq {k} =>
            /\ Arrangement(items, Sorted(items))
            /\ IsSortedList(Sorted(items))
            /\ Sorted(Sorted(items)) = Sorted(items)
       /\ kinds = {"list"} /\ Panics \notin first =>
            \A outcome \in first :
              /\ Arrangement(items, Contents(outcome[2]))
              /\ \A row \in ToSet(items) :
                   row[2] # <<>> =>
                     LET same(r) == r[2] # <<>> /\ column(r) = column(row)
                     IN SelectSeq(Contents(outcome[2]), same) = SelectSeq(items, same)

\* What takes a list apart and what puts it together undo each other, at every
\* index, negative and past the end ones too.
ListsReassemble ==
  Is("list") =>
    LET items == Contents(value)
    IN \A n \in {Contents(v) : v \in SamplesOf(IntT)} :
         /\ ListTake(items, n) \o ListSkip(items, n) = items
         /\ Flatten(Chunks(items, n)) = items
         /\ Gave(InsertAtIndex(items, n, Int64(0))) =>
              RemoveAtIndex(Contents(InsertAtIndex(items, n, Int64(0))[2]), n) = Gives(value)
         /\ \A m \in {Contents(v) : v \in SamplesOf(IntT)} :
              Gave(Swap(items, n, m)) => Swap(Contents(Swap(items, n, m)[2]), m, n) = Gives(value)



\* Sets and maps are what a program takes them for, although they are vectors,
\* and sorting and cutting a list keep its elements.
CollectionLaws ==
  NoRepeats /\ MapActsAsFunction /\ SortingSorts /\ ListsReassemble

\* Cutting a text at a marker, at a number of characters or into characters
\* never cuts a character in two and never loses one: the parts are the text.
TextsReassemble ==
  Is("string") =>
    LET s == Contents(value)
    IN /\ \A marker \in SampleTexts :
            /\ ContainsText(s, marker) => Before(s, marker) \o marker \o After(s, marker) = s
            /\ Join(Split(s, marker), marker) = s
       /\ \A n \in {Contents(v) : v \in SamplesOf(IntT)} :
            /\ TakeChars(s, n) \o DropChars(s, n) = s
            /\ TakeLastChars(s, n) = DropChars(s, CharCount(s) - AtLeast(n, 0))

\* The questions one can ask about a part of a text have one answer.
TextQueriesAgree ==
  Is("string") =>
    LET s == Contents(value)
    IN \A part \in SampleTexts \ {Empty} :
         /\ ContainsText(s, part) <=> CountMatches(s, part) > 0
         /\ StartsWith(s, part) => FindMatch(s, part)[1].index = 0
         /\ EndsWith(s, part) => RemoveSuffix(s, part) \o part = s
         /\ StartsWith(s, part) <=> RemovePrefix(s, part) # s
         /\ CountMatches(s, part) <= Len(Split(s, part)) - 1

\* What is encoded decodes to what it was, whatever the text or bytes.
EncodingsDecode ==
  /\ Is("string") =>
       LET s == Contents(value)
       IN /\ HexDecode(HexEncode(s)) = <<s>>
          /\ UrlDecode(UrlEncode(s)) = <<s>>
          /\ Base64Decode(Base64Encode(Utf8(s))) = <<s>>
  /\ Is("bytes") => ParseHexBytes(ToHex(Contents(value))) = <<Contents(value)>>

\* Rows written as CSV are read back as they were, quotes, commas and line ends
\* in the fields included. A row of no field, or of one that is empty, is a line
\* with nothing on it, which is no row.
CsvReadsWhatItWrote ==
  Is("list") /\ HasType(value, ListOf(Strings)) =>
    LET rows == [r \in DOMAIN Contents(value) |->
                   [f \in DOMAIN Contents(Contents(value)[r]) |->
                      Contents(Contents(Contents(value)[r])[f])]]
    IN ParseCsv(StringifyCsv(rows)) = SelectSeq(rows, LAMBDA row : row \notin {<<>>, <<Empty>>})

\* Texts survive cutting, asking, encoding and writing as CSV.
TextLaws == TextsReassemble /\ TextQueriesAgree /\ EncodingsDecode /\ CsvReadsWhatItWrote


\* The integer operators are exact or fail: a quotient and its remainder make up
\* the dividend, what is added can be taken away, and any two integers, int64
\* or uint64, stand in exactly one order.
OperatorsExact ==
  Known /\ Kind(value) \in IntKinds =>
    \A other \in SamplesOf(IntT) \cup SamplesOf(UintT) :
      LET a == Contents(value)
          b == Contents(other)
          q == BinaryOp(value, "/", other)
          r == BinaryOp(value, "%", other)
          sum == BinaryOp(value, "+", other)
      IN /\ Gave(q) <=> Gave(r)
         /\ Gave(q) => /\ Contents(q[2]) * b + Contents(r[2]) = a
                       /\ Abs(Contents(r[2])) < Abs(b)
         /\ Gave(sum) => /\ Gave(BinaryOp(sum[2], "-", other))
                         /\ Contents(BinaryOp(sum[2], "-", other)[2]) = a
         /\ Cardinality({op \in {"<", "==", ">"} : BinaryOp(value, op, other) = Yes}) = 1

\* Greatest common divisors and least common multiples are that, unless the
\* least integer is involved or the product of the two overflows.
DivisorsExact ==
  Is("int64") =>
    \A other \in SamplesOf(IntT) :
      LET a == Contents(value)
          b == Contents(other)
          divides(d, n) == IF d = 0 THEN n = 0 ELSE n % Abs(d) = 0
      IN /\ MinInt \notin {a, b} =>
              LET g == Contents((CHOOSE x \in GcdOutcomes(a, b) : TRUE)[2])
              IN /\ divides(g, a) /\ divides(g, b)
                 /\ \A d \in 1..MaxInt : divides(d, a) /\ divides(d, b) /\ {a, b} # {0} => d <= g
         /\ Panics \notin LcmOutcomes(a, b) =>
              LET l == Contents((CHOOSE x \in LcmOutcomes(a, b) : TRUE)[2])
              IN /\ divides(a, l) /\ divides(b, l)
                 /\ \A m \in 1..MaxInt : divides(a, m) /\ divides(b, m) => l <= m

\* A range goes from its start by its step and stops before its end, and says so
\* when a step leaves the integers.
RangesStop ==
  Is("int64") =>
    \A other \in SamplesOf(IntT), step \in SamplesOf(IntT) :
      \A outcome \in RangeOutcomes(Contents(value), Contents(other), Contents(step)) :
        Gave(outcome) =>
          LET ns == [i \in DOMAIN Contents(outcome[2]) |-> Contents(Contents(outcome[2])[i])]
              n == Contents(step)
              inside(x) == IF n > 0 THEN x < Contents(other) ELSE x > Contents(other)
          IN /\ \A i \in DOMAIN ns : ns[i] = Contents(value) + (i - 1) * n /\ inside(ns[i])
             /\ ~inside(Contents(value) + Len(ns) * n)

\* Integers are those of mathematics as long as they fit, at the ends of the
\* word as well as in its middle.
NumberLaws == OperatorsExact /\ DivisorsExact /\ RangesStop


=============================================================================
