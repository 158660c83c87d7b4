---------------------------- MODULE Declarations ----------------------------
(***************************************************************************)
(* The types that a Jett program declares, as the interpreter finds them   *)
(* by name, and what reflection says of them                               *)
(* (crates/jett_comptime/src/interpreter.rs).                              *)
(*                                                                         *)
(* A type is a record of the namespace written before its name, the name,  *)
(* its arguments and, for a machine, the state it is at. The interpreter   *)
(* keeps types as they are written and looks their names up again wherever *)
(* it meets them, in the namespace of the function that runs: Expand and   *)
(* Substitute are where a name may come to mean another type.              *)
(***************************************************************************)
EXTENDS Integers, SequencesExt, Values

CONSTANTS
  Types,       \* the types that are declared, with their declarations
  WordBits,    \* the bits of the largest number: 64
  ByteBits     \* the bits of a byte: 8

ASSUME WordHoldsBytes == WordBits \in Nat /\ ByteBits \in Nat \ {0} /\ WordBits > ByteBits

\* The registries: the declaration of every declared type.
Decls == Types

\* No namespace, no state.
None == ""

Type(ns, name) == [ns |-> ns, name |-> name, args |-> <<>>, at |-> None]
Generic(name, args) == [ns |-> None, name |-> name, args |-> args, at |-> None]
At(t, state) == [t EXCEPT !.at = state]

\* type_expr_name: the state is left out.
Base(t) == [t EXCEPT !.at = None]

Int64T == Type(None, "int64")
Uint64T == Type(None, "uint64")
BytesT == Generic("list", <<Type(None, "uint8")>>)
BuiltinTypes == {"int64", "uint64", "uint8", "list", "secret"}

-----------------------------------------------------------------------------
(* Names                                                                   *)

Registered(t) == Base(t) \in DOMAIN Decls

Qualify(t, ns) ==
  LET own == [t EXCEPT !.ns = ns]
  IN IF t.ns = None /\ ns # None /\ t.name \notin BuiltinTypes /\ Registered(own) THEN own ELSE t

RECURSIVE Expand(_, _)
\* expand_type_ident, on a type and its arguments.
Expand(t, ns) ==
  [Qualify(t, ns) EXCEPT !.args = [i \in DOMAIN t.args |-> Expand(t.args[i], ns)]]

\* Where the names in the declaration of t are looked up.
HomeOf(t, ns) == IF t.ns # None THEN t.ns ELSE ns

RECURSIVE Substitute(_, _, _)
\* substitute_type_expr: a type parameter stands for what it is bound to, which
\* is substituted in its turn, and whose names are looked up once more.
Substitute(t, bound, ns) ==
  IF t.at # None THEN At(Substitute(Base(t), bound, ns), t.at)
  ELSE IF t.ns = None /\ t.args = <<>> /\ t.name \in DOMAIN bound
  THEN Substitute(bound[t.name], bound, ns)
  ELSE [Qualify(t, ns) EXCEPT
          !.args = [i \in DOMAIN t.args |-> Substitute(t.args[i], bound, ns)]]

\* registry_name, among the aliases, and else the name itself.
AliasNamed(t, ns) ==
  IF t.ns = None /\ ns # None /\ Registered([t EXCEPT !.ns = ns])
     /\ Decls[[t EXCEPT !.ns = ns]].kind \in {"alias", "refinement"}
  THEN [t EXCEPT !.ns = ns] ELSE t

IsDeclared(t, kinds) == t.at = None /\ t \in DOMAIN Decls /\ Decls[t].kind \in kinds
IsAlias(t) == IsDeclared(t, {"alias", "refinement"})

\* type_expr_kind, of a type whose names have been looked up.
KindOf(t) ==
  CASE t.at # None -> "machine_state"
    [] t.at = None /\ t \in DOMAIN Decls -> Decls[t].kind
    [] t.at = None /\ t \notin DOMAIN Decls /\ t.args # <<>> -> t.name
    [] t.at = None /\ t \notin DOMAIN Decls /\ t.args = <<>> ->
         IF t.ns = None /\ t.name \in BuiltinTypes THEN "primitive" ELSE "named"

\* reflection_compare_type_name: what is left of a type once every alias in it
\* has been replaced by its base. seen keeps an alias of itself from going on.
RECURSIVE Unaliased(_, _, _)
Unaliased(t, ns, seen) ==
  IF t \in seen THEN t
  ELSE IF IsAlias(t)
  THEN Unaliased(Expand(Decls[t].base, HomeOf(t, ns)), ns, seen \cup {t})
  ELSE [t EXCEPT !.args = [i \in DOMAIN t.args |-> Unaliased(t.args[i], ns, seen \cup {t})]]

SameType(t, u, ns) == Unaliased(t, ns, {}) = Unaliased(u, ns, {})

-----------------------------------------------------------------------------
(* Refinements: the constraint of a type and of all it is an alias of      *)

RECURSIVE Refined(_, _, _)
\* check_refinement. A name that is no alias has no constraint.
Refined(t, ns, v) ==
  LET alias == AliasNamed(t, ns)
  IN IsAlias(alias) =>
       /\ Refined(Expand(Decls[alias].base, HomeOf(alias, ns)), ns, v)
       /\ Decls[alias].kind = "refinement" => Contents(v) \in Decls[alias].range

\* normalize_value_for_type_name, <<>> where it fails: only the name uint64
\* itself changes the carrier of an integer, an alias of it does not.
Normalized(t, v) ==
  IF t = Uint64T /\ Kind(v) = "int64"
  THEN IF Contents(v) >= 0 THEN <<Uint64(Contents(v))>> ELSE <<>>
  ELSE <<v>>

-----------------------------------------------------------------------------
(* Fields, variants and states, as reflection describes them               *)

\* A bit field has a width and perhaps an enum; a payload has no width.
Bits(name, width) == [name |-> name, width |-> width, as |-> <<>>]
EnumBits(name, width, t) == [name |-> name, width |-> width, as |-> <<t>>]
Payload(name) == [name |-> name, width |-> 0, as |-> <<>>]
IsPayload(field) == field.width = 0
IsPlain(field) == field.width # 0 /\ field.as = <<>>

\* Discriminants go on from the one before, from zero; value is the one
\* declared, if any.
RECURSIVE Discriminant(_, _)
Discriminant(variants, i) ==
  IF variants[i].value # <<>> THEN variants[i].value[1]
  ELSE IF i = 1 THEN 0 ELSE Discriminant(variants, i - 1) + 1

Described(fields, home) ==
  [i \in DOMAIN fields |-> [name |-> fields[i].name, type |-> Expand(fields[i].type, home)]]

\* What the checker recorded for a field of a bitfield, and what is made of the
\* declaration where the checker recorded nothing: there a field as wide as a
\* word is no uint64, and the names of enums are not looked up.
BitType(field, home, checked) ==
  CASE IsPayload(field) -> BytesT
    [] IsPlain(field) -> IF checked /\ field.width = WordBits THEN Uint64T ELSE Int64T
    [] field.as # <<>> -> IF checked THEN Expand(field.as[1], home) ELSE field.as[1]

\* type_expr_fields, type_expr_variants and type_expr_machine, of the home of
\* the declaration.
DescribedFields(t, home, checked) ==
  IF ~Registered(t) THEN <<>>
  ELSE LET d == Decls[Base(t)]
       IN CASE d.kind = "struct" -> Described(d.fields, home)
            [] d.kind = "bitfield" ->
                 [i \in DOMAIN d.fields |->
                    [name |-> d.fields[i].name, type |-> BitType(d.fields[i], home, checked)]]
            [] OTHER -> <<>>

DescribedVariants(t, home) ==
  IF ~IsDeclared(Base(t), {"enum"}) THEN <<>>
  ELSE LET variants == Decls[Base(t)].variants
       IN [i \in DOMAIN variants |->
             [name |-> variants[i].name,
              discriminant |-> Discriminant(variants, i),
              fields |-> Described(variants[i].fields, home)]]

DescribedStates(t, home) ==
  IF ~IsDeclared(Base(t), {"machine"}) THEN <<>>
  ELSE LET states == Decls[Base(t)].states
       IN [i \in DOMAIN states |->
             [name |-> states[i].name, fields |-> Described(states[i].fields, home)]]

\* ReflectionMetadata: what the checker recorded of every type.
RecordedOf(t) ==
  [fields |-> DescribedFields(t, HomeOf(t, None), TRUE),
   variants |-> DescribedVariants(t, HomeOf(t, None)),
   states |-> DescribedStates(t, HomeOf(t, None))]
Recorded == [t \in DOMAIN Decls |-> RecordedOf(t)]

Fields(t, ns, checked) ==
  IF checked /\ Registered(t) THEN Recorded[Base(t)].fields ELSE DescribedFields(t, HomeOf(t, ns), FALSE)
Variants(t, ns, checked) ==
  IF checked /\ Registered(t) THEN Recorded[Base(t)].variants ELSE DescribedVariants(t, HomeOf(t, ns))
States(t, ns, checked) ==
  IF checked /\ Registered(t) THEN Recorded[Base(t)].states ELSE DescribedStates(t, HomeOf(t, ns))

\* The first of the parts that has the name, as a sequence of one or none.
NamedPart(parts, name) == SelectSeq(parts, LAMBDA p : p.name = name)

-----------------------------------------------------------------------------
(* Metadata values: what type.fields, type.variants and the others give    *)

\* TypeField, TypeVariant and TypeMachineState.
FieldInfos(owner, member, fields) ==
  [i \in DOMAIN fields |->
     [index |-> i, owner |-> owner, member |-> member,
      name |-> fields[i].name, type |-> fields[i].type]]

FieldMetadata(t, ns, checked) == FieldInfos(t, None, Fields(t, ns, checked))

VariantInfos(owner, variants) ==
  [i \in DOMAIN variants |->
     [index |-> i, owner |-> owner, name |-> variants[i].name,
      discriminant |-> variants[i].discriminant,
      fields |-> FieldInfos(owner, variants[i].name, variants[i].fields)]]

VariantMetadata(t, ns, checked) == VariantInfos(t, Variants(t, ns, checked))

StateInfos(owner, states) ==
  [i \in DOMAIN states |->
     [index |-> i, owner |-> owner, name |-> states[i].name,
      fields |-> FieldInfos(owner, states[i].name, states[i].fields)]]

\* The states of a machine belong to the machine, whatever state it is at.
StateMetadata(t, ns, checked) == StateInfos(Base(t), States(t, ns, checked))

-----------------------------------------------------------------------------
(* Secrets                                                                 *)

\* The types that occur in a type whose names have been looked up in ns.
Parts(t, ns) ==
  LET home == HomeOf(t, ns)
      flat(parts) == UNION {{p.fields[i].type : i \in DOMAIN p.fields} : p \in ToSet(parts)}
      enums(fields) == {f.as[1] : f \in {f \in ToSet(fields) : f.as # <<>>}}
      d == Decls[Base(t)]
  IN IF ~Registered(t) THEN ToSet(t.args)
     ELSE CASE d.kind \in {"alias", "refinement"} -> {Expand(d.base, ns)}
            [] d.kind = "struct" -> {Expand(f.type, home) : f \in ToSet(d.fields)}
            [] d.kind = "enum" -> {Expand(u, home) : u \in flat(d.variants)}
            [] d.kind = "bitfield" -> {Expand(u, home) : u \in enums(d.fields)}
            [] d.kind = "machine" ->
                 {Expand(u, home) : u \in flat(IF t.at = None THEN d.states
                                                ELSE NamedPart(d.states, t.at))}

RECURSIVE Visit(_, _, _)
\* type_expr_has_secret_inner, depth first: what was visited is left out, and
\* what is found last of all is a secret. The result is <<found, visited>>.
Visit(pending, ns, visited) ==
  IF pending = <<>> THEN <<FALSE, visited>>
  ELSE LET t == Head(pending)
       IN IF t.name = "secret" /\ t.args # <<>> THEN <<TRUE, visited>>
          ELSE IF t.args = <<>> /\ ~IsAlias(t) /\ t \in visited THEN Visit(Tail(pending), ns, visited)
          ELSE Visit(SetToSeq(Parts(t, ns)) \o Tail(pending), ns, visited \cup {t})

HasSecret(t, ns) == Visit(<<t>>, ns, {})[1]

=============================================================================
