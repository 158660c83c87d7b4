------------------------------- MODULE Values -------------------------------
(***************************************************************************)
(* The values of a running Jett program (crates/jett_comptime/src/value.rs)*)
(* that the built-in functions take and give, and what a call comes to.    *)
(*                                                                         *)
(* A value is a tuple of its kind and its contents: <<"int64", n>>,        *)
(* <<"uint64", n>>, <<"bool", b>>, <<"string", code points>>,              *)
(* <<"bytes", seq>>, <<"list", seq>>, <<"set", seq>>, <<"map", seq of      *)
(* <<key, value>> >>, <<"optional", <<>> >> and <<"optional", <<v>> >>,    *)
(* <<"ok", v>>, <<"fail", v>>, <<"nothing">>, and <<"float64", n>>, of     *)
(* which only the order is kept. As in the code, equality is that of the   *)
(* kind and contents: two sets of the same members in another order differ.*)
(***************************************************************************)
EXTENDS Integers, Sequences

Kind(v) == v[1]
Contents(v) == v[2]

Int64(n) == <<"int64", n>>
Uint64(n) == <<"uint64", n>>
Float64(n) == <<"float64", n>>
Bool(b) == <<"bool", b>>
String(s) == <<"string", s>>
Bytes(b) == <<"bytes", b>>
List(items) == <<"list", items>>
Set(items) == <<"set", items>>
Map(entries) == <<"map", entries>>
Nothing == <<"nothing">>

\* none, or some of what the tuple holds
Optional(held) == <<"optional", held>>
ResultOk(v) == <<"ok", v>>
ResultFail(v) == <<"fail", v>>

\* What a call comes to: a value, a run-time error, or a panic of the
\* interpreter itself.
Gives(v) == <<"gives", v>>
Fails == <<"fails">>
Panics == <<"panics">>

Gave(outcome) == outcome[1] = "gives"

\* str::cmp: the first difference decides, and a prefix comes first.
LexBefore(s, t) ==
  \E i \in 0..Len(s) :
    /\ i < Len(t)
    /\ SubSeq(s, 1, i) = SubSeq(t, 1, i)
    /\ i = Len(s) \/ s[i + 1] < t[i + 1]

=============================================================================
