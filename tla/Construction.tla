---------------------------- MODULE Construction ----------------------------
(***************************************************************************)
(* Making and reading values of the types that a program declares          *)
(* (crates/jett_comptime/src/interpreter.rs): the constructors, the        *)
(* transitions of machines, the bytes of bitfields, and reflection, which  *)
(* builds a value field by field and reads it by field metadata. Generic   *)
(* code does so under the names that TypeBindings gives it.                *)
(***************************************************************************)
EXTENDS TypeBindings

CONSTANTS
  Given,       \* bound of the checks: the values that fields are given
  Received,    \* bound of the checks: the bytes that are read as a bitfield
  Abroad       \* whether structs whose fields mean another type where they are
               \* constructed than where they are declared are constructed

VARIABLES
  held,        \* what the program holds: nothing, a construction or a value
  type         \* the type it has by the rules of the language

vars == <<frames, checked, held, type>>

NoType == Type(None, None)

\* TypeConstruction: the variant or state it is for, and what was put.
Construction(t, variant, state, puts) == <<"construction", t, [variant |-> variant, state |-> state], puts>>
IsConstruction == Kind(held) = "construction"

Hold(v, t) == held' = v /\ type' = t /\ UNCHANGED bindingVars

-----------------------------------------------------------------------------
(* Types of values, by the rules of the language                           *)

\* A bit field whose enum is looked up where it is declared can hold v.
BitsTyped(field, home, v) ==
  CASE IsPayload(field) -> PayloadBytes(v) # <<>>
    [] IsPlain(field) -> PlainNumber(field, v) # <<>>
    [] OTHER -> AnnotatedNumber(field, Expand(field.as[1], home), v) # <<>>

RECURSIVE HasType(_, _)
\* v is a value of the type t, whose names have been looked up.
HasType(v, t) ==
  LET d == Decls[Base(t)]
      home == HomeOf(t, None)
      typed(values, fields) ==
        /\ Len(values) = Len(fields)
        /\ \A i \in DOMAIN fields : HasType(values[i], Expand(fields[i].type, home))
  IN IF ~Registered(t)
     THEN \/ Kind(v) = t.name
          \/ t = BytesT /\ PayloadBytes(v) # <<>>
     ELSE CASE d.kind \in {"alias", "refinement"} ->
                 HasType(v, Expand(d.base, home)) /\ (d.kind = "refinement" => Contents(v) \in d.range)
            [] d.kind = "struct" ->
                 Kind(v) = "struct" /\ Owner(v) = t /\ typed(Held(v), d.fields)
            [] d.kind = "bitfield" ->
                 /\ Kind(v) = "struct" /\ Owner(v) = t /\ Len(Held(v)) = Len(d.fields)
                 /\ \A i \in DOMAIN d.fields :
                      /\ BitsTyped(d.fields[i], home, Held(v)[i])
                      /\ IsPlain(d.fields[i]) => NormalizedPlain(d.fields[i], Held(v)[i]) = <<Held(v)[i]>>
            [] d.kind = "enum" ->
                 /\ Kind(v) = "enum" /\ Owner(v) = t
                 /\ \E i \in DOMAIN d.variants :
                      d.variants[i].name = Member(v) /\ typed(Held(v), d.variants[i].fields)
            [] d.kind = "machine" ->
                 /\ Kind(v) = "machine" /\ Owner(v) = Base(t)
                 /\ t.at \in {None, Member(v)}
                 /\ \E i \in DOMAIN d.states :
                      d.states[i].name = Member(v) /\ typed(Held(v), d.states[i].fields)

\* A value that the checker lets a program give where t is expected and a
\* refinement is left to the run: it has the carrier, but perhaps not the
\* range. A literal may still be an int64 where a uint64 is expected.
Offers(v, t) ==
  LET carrier == Unaliased(t, None, {})
  IN HasType(v, carrier) \/ (t = Uint64T /\ Kind(v) = "int64" /\ Contents(v) >= 0)

-----------------------------------------------------------------------------
(* Constructors                                                            *)

\* The checker looks the fields of a declaration up where it stands.
Declared(fields, t, i) == Expand(fields[i].type, HomeOf(t, None))

\* construct_struct checks the constraints of the names as they are looked up
\* where the constructor is called.
StructRefined(fields, values) ==
  \A i \in DOMAIN fields : Refined(Resolved(fields[i].type), Home, values[i])

NormalizedAll(types, values) == [i \in DOMAIN types |-> Normalized(types[i], values[i])]

\* construct_struct. A struct with a refined field gives a result; the program
\* goes on with a struct where it is one.
ConstructStruct(t, values) ==
  LET owner == Resolved(t)
      fields == Decls[owner].fields
      normal == NormalizedAll([i \in DOMAIN fields |-> Resolved(fields[i].type)], values)
  IN /\ IsDeclared(owner, {"struct"})
     /\ Abroad \/ \A i \in DOMAIN fields : Resolved(fields[i].type) = Declared(fields, owner, i)
     /\ \A i \in DOMAIN fields : normal[i] # <<>>
     /\ StructRefined(fields, [i \in DOMAIN fields |-> normal[i][1]])
     /\ Hold(Struct(owner, [i \in DOMAIN fields |-> normal[i][1]]), Meaning(t))

\* construct_bitfield: what a plain field cannot hold is an error or a failure.
ConstructBitfield(t, values) ==
  LET owner == Resolved(t)
      fields == Decls[owner].fields
      normal == [i \in DOMAIN fields |->
                   IF IsPlain(fields[i]) THEN NormalizedPlain(fields[i], values[i]) ELSE <<values[i]>>]
  IN /\ IsDeclared(owner, {"bitfield"})
     /\ \A i \in DOMAIN fields : normal[i] # <<>>
     /\ Hold(Struct(owner, [i \in DOMAIN fields |-> normal[i][1]]), Meaning(t))

\* construct_enum_variant: no constraint is checked, the checker has the
\* payload have its type already.
ConstructVariant(t, i, values) ==
  LET owner == Resolved(t)
      fields == Decls[owner].variants[i].fields
      normal == NormalizedAll([k \in DOMAIN fields |-> Resolved(fields[k].type)], values)
  IN /\ IsDeclared(owner, {"enum"})
     /\ i \in DOMAIN Decls[owner].variants
     /\ \A k \in DOMAIN fields : normal[k] # <<>>
     /\ Hold(Enum(owner, Decls[owner].variants[i].name, [k \in DOMAIN fields |-> normal[k][1]]),
             Meaning(t))

\* construct_machine: any state may be the first.
ConstructMachine(t, i, values) ==
  LET owner == Resolved(t)
      fields == Decls[owner].states[i].fields
      state == Decls[owner].states[i].name
  IN /\ IsDeclared(owner, {"machine"})
     /\ i \in DOMAIN Decls[owner].states
     /\ Hold(Machine(owner, state, values), At(Meaning(t), state))

HasEdge(t, from, to) == \E i \in DOMAIN Decls[t].edges : Decls[t].edges[i] = <<from, to>>

\* machine_transition, of a machine that the checker knows the state of.
Transition(t, i, values) ==
  LET owner == Resolved(t)
      fields == Decls[owner].states[i].fields
      state == Decls[owner].states[i].name
  IN /\ IsDeclared(owner, {"machine"})
     /\ i \in DOMAIN Decls[owner].states
     /\ Base(type) = Meaning(t) /\ type.at # None /\ HasEdge(Base(type), type.at, state)
     /\ Kind(held) = "machine" /\ Owner(held) = owner /\ HasEdge(owner, Member(held), state)
     /\ Hold(Machine(owner, state, values), At(Meaning(t), state))

\* t.to_bytes(held) and t.from_bytes(held)
Serialize(t) ==
  LET outcome == ToBytes(Resolved(t), held)
  IN /\ IsDeclared(Resolved(t), {"bitfield"}) /\ type = Meaning(t)
     /\ Gave(outcome)
     /\ Hold(outcome[2], BytesT)

Deserialize(t, bytes) ==
  LET outcome == FromBytes(Resolved(t), bytes)
  IN /\ IsDeclared(Resolved(t), {"bitfield"})
     /\ Kind(outcome) = "ok"
     /\ Hold(Contents(outcome), Meaning(t))

-----------------------------------------------------------------------------
(* Reflection: what a construction or a value of the type t has            *)

\* The name that the metadata of a type have as their owner: a machine's do
\* not say the state it is at.
MetadataOwner(t) == IF KindOf(t) \in {"machine", "machine_state"} THEN Base(t) ELSE t

FieldsOfNamed(named) == IF named = <<>> THEN <<>> ELSE Head(named).fields

\* The fields of the type, of the variant or of the state.
MemberFields(t, member) ==
  LET of(parts) == FieldsOfNamed(NamedPart(parts, member))
  IN CASE KindOf(t) = "enum" -> of(Variants(t, Home, checked))
       [] KindOf(t) \in {"machine", "machine_state"} -> of(States(t, Home, checked))
       [] OTHER -> Fields(t, Home, checked)

\* The metadata describe one of the fields, which has the type u.
DescribesField(fields, m, u) ==
  /\ m.index \in DOMAIN fields
  /\ fields[m.index].name = m.name
  /\ SameType(fields[m.index].type, m.type, Home)
  /\ SameType(fields[m.index].type, u, Home)

\* What is demanded of field metadata wherever they are used.
FieldMatches(t, member, m, u) ==
  /\ m.owner = MetadataOwner(t) /\ m.member = member
  /\ DescribesField(MemberFields(t, member), m, u)

\* field_value, variant_field_value and machine_field_value of reflection: the
\* value of the metadata's field, <<>> where it is refused. Of a struct only the
\* fields are looked at.
ReadStructField(v, t, m) == IF m.index \in DOMAIN Held(v) THEN <<Held(v)[m.index]>> ELSE <<>>
ReadVariantField(v, t, m) == IF Owner(v) = t THEN <<Held(v)[m.index]>> ELSE <<>>
ReadMachineField(v, t, m) ==
  IF Owner(v) = Base(t) /\ t.at \in {None, Member(v)} THEN <<Held(v)[m.index]>> ELSE <<>>

ReadField(v, t, m, u) ==
  IF ~FieldMatches(t, IF Kind(v) = "struct" THEN None ELSE Member(v), m, u) THEN <<>>
  ELSE CASE Kind(v) = "struct" -> ReadStructField(v, t, m)
         [] Kind(v) = "enum" -> ReadVariantField(v, t, m)
         [] Kind(v) = "machine" -> ReadMachineField(v, t, m)

\* variant_value and machine_state_value: the metadata of what v is.
ReadVariant(v, t) ==
  IF Owner(v) = t THEN NamedPart(VariantMetadata(t, Home, checked), Member(v)) ELSE <<>>

ReadState(v, t) ==
  IF Owner(v) = Base(t) /\ t.at \in {None, Member(v)}
  THEN NamedPart(StateMetadata(t, Home, checked), Member(v)) ELSE <<>>

-----------------------------------------------------------------------------
(* Reflection: construction                                                *)

\* type.construct_start: of any type at all.
ConstructStart(t) == Hold(Construction(Resolved(t), None, None, <<>>), Meaning(t))

\* type.construct_variant_start and type.construct_machine_start, with metadata
\* of a variant or a state: they must be what reflection says of the type.
ConstructVariantStart(t, m) ==
  LET owner == Resolved(t)
  IN /\ KindOf(owner) = "enum"
     /\ m.owner = owner /\ m \in ToSet(VariantMetadata(owner, Home, checked))
     /\ Hold(Construction(owner, m.name, None, <<>>), Meaning(t))

ConstructMachineStart(t, m) ==
  LET owner == Resolved(t)
  IN /\ KindOf(owner) \in {"machine", "machine_state"}
     /\ m.owner = Base(owner) /\ m \in ToSet(StateMetadata(owner, Home, checked))
     /\ Hold(Construction(owner, None, m.name, <<>>), Meaning(t))

Begun(construction) == construction[3]
Puts(construction) == construction[4]
IndexesPut(construction) == {Puts(construction)[i].index : i \in DOMAIN Puts(construction)}

\* A construction of an enum is for a variant, of a machine for a state, of
\* anything else for neither.
BegunAs(construction, t) ==
  CASE KindOf(t) = "enum" -> Begun(construction).variant # None /\ Begun(construction).state = None
    [] KindOf(t) \in {"machine", "machine_state"} ->
         Begun(construction).variant = None /\ Begun(construction).state # None
    [] KindOf(t) \in {"struct", "bitfield"} -> Begun(construction) = [variant |-> None, state |-> None]
    [] OTHER -> FALSE

MemberOf(construction, t) ==
  CASE KindOf(t) = "enum" -> Begun(construction).variant
    [] KindOf(t) \in {"machine", "machine_state"} -> Begun(construction).state
    [] OTHER -> None

\* Mutant: a field may be put twice.
PutAgainTaken(construction, t, u, m, v) ==
  /\ Owner(construction) = t /\ BegunAs(construction, t)
  /\ FieldMatches(t, MemberOf(construction, t), m, u)
  /\ Normalized(MemberFields(t, MemberOf(construction, t))[m.index].type, v) # <<>>

\* What reflected_construct_put demands: else it is a failure, and the program
\* still has the construction that it gave.
PutTaken(construction, t, u, m, v) ==
  /\ Owner(construction) = t /\ BegunAs(construction, t)
  /\ FieldMatches(t, MemberOf(construction, t), m, u)
  /\ m.index \notin IndexesPut(construction)
  /\ Normalized(MemberFields(t, MemberOf(construction, t))[m.index].type, v) # <<>>

\* The construction with the value added last.
WithPut(construction, m, actual, v) ==
  Construction(Owner(construction), Begun(construction).variant, Begun(construction).state,
               Append(Puts(construction), [index |-> m.index, name |-> m.name, type |-> actual,
                                           value |-> Normalized(actual, v)[1]]))

ConstructPut(t, u, m, v) ==
  LET owner == Resolved(t)
  IN /\ IsConstruction /\ type = Meaning(t)
     /\ Offers(v, Meaning(u))
     /\ PutTaken(held, owner, Resolved(u), m, v)
     /\ Hold(WithPut(held, m, MemberFields(owner, MemberOf(held, owner))[m.index].type, v), type)

\* Mutant: the values are taken in the order in which they were put.
PutInTurn(construction, index) ==
  IF index \in DOMAIN Puts(construction) THEN <<Puts(construction)[index].value>> ELSE <<>>

\* The value that was put at the index, <<>> if none was.
PutAt(construction, index) ==
  LET puts == SelectSeq(Puts(construction), LAMBDA p : p.index = index)
  IN IF puts = <<>> THEN <<>> ELSE <<Head(puts).value>>

\* A field of a struct, variant or state, at the end: <<>> where the value has
\* not its type. Its constraints are checked only here.
FinishedField(field, v) ==
  LET normal == Normalized(field.type, v)
  IN IF normal # <<>> /\ Refined(field.type, Home, normal[1]) THEN normal ELSE <<>>

\* A field of a bitfield: its enum is looked up as the checker recorded it, or
\* else as it is written.
FinishedBits(field, t, v) ==
  CASE IsPayload(field) -> <<v>>
    [] IsPlain(field) -> NormalizedPlain(field, v)
    [] OTHER -> IF AnnotatedNumber(field, BitType(field, HomeOf(t, None), checked), v) # <<>>
                THEN <<v>> ELSE <<>>

\* The fields in the order of the declaration, <<>> where one was not put or is
\* refused.
FinishedAll(construction, fields, last(_, _)) ==
  LET put == [i \in DOMAIN fields |-> PutAt(construction, i)]
      finished == [i \in DOMAIN fields |-> IF put[i] = <<>> THEN <<>> ELSE last(i, put[i][1])]
  IN IF \A i \in DOMAIN fields : finished[i] # <<>>
     THEN <<[i \in DOMAIN fields |-> finished[i][1]]>> ELSE <<>>

Made(values, value(_)) == IF values = <<>> THEN <<>> ELSE <<value(values[1])>>

FinishedFields(construction, fields) ==
  FinishedAll(construction, fields, LAMBDA i, v : FinishedField(fields[i], v))

\* reflected_construct_finish_struct_checked, _bitfield, _enum and _machine.
FinishedStruct(construction, t, fields) ==
  Made(FinishedFields(construction, fields), LAMBDA values : Struct(t, values))

FinishedBitfield(construction, t) ==
  LET fields == Decls[t].fields
  IN Made(FinishedAll(construction, fields, LAMBDA i, v : FinishedBits(fields[i], t, v)),
          LAMBDA values : Struct(t, values))

FinishedEnum(construction, t, fields) ==
  Made(FinishedFields(construction, fields),
       LAMBDA values : Enum(t, Begun(construction).variant, values))

\* Mutant: a machine is finished in whatever state it was begun.
StateAgreesAlways(construction, t) == TRUE

\* Only where t says a state must the construction be for that state.
StateAgrees(construction, t) == t.at \in {None, Begun(construction).state}

FinishedMachine(construction, t, fields) ==
  IF StateAgrees(construction, t)
  THEN Made(FinishedFields(construction, fields),
            LAMBDA values : Machine(Base(t), Begun(construction).state, values))
  ELSE <<>>

FinishedAs(construction, t, fields) ==
  CASE KindOf(t) = "struct" -> FinishedStruct(construction, t, fields)
    [] KindOf(t) = "bitfield" -> FinishedBitfield(construction, t)
    [] KindOf(t) = "enum" -> FinishedEnum(construction, t, fields)
    [] KindOf(t) \in {"machine", "machine_state"} -> FinishedMachine(construction, t, fields)

\* reflected_construct_finish: <<>> where it is a failure.
Finished(construction, t) ==
  IF Owner(construction) # t \/ ~BegunAs(construction, t) THEN <<>>
  ELSE FinishedAs(construction, t, MemberFields(t, MemberOf(construction, t)))

\* Where the result is no failure.
HoldFinished(outcome, t) == outcome # <<>> /\ Hold(outcome[1], Meaning(t))

ConstructFinish(t) ==
  /\ IsConstruction /\ type = Meaning(t)
  /\ HoldFinished(Finished(held, Resolved(t)), t)

-----------------------------------------------------------------------------

Init ==
  /\ BindingsInit
  /\ held = Nothing
  /\ type = NoType

\* The arguments that the checker lets pass to the constructor of a struct or
\* bitfield, and to those of the variants and states.
Tuples(choices) ==
  FoldLeft(LAMBDA tuples, choice : {Append(tuple, v) : tuple \in tuples, v \in choice}, {<<>>}, choices)
Arguments(types) == Tuples([i \in DOMAIN types |-> {v \in Given : Offers(v, types[i])}])
TypedArguments(fields, t) ==
  Tuples([i \in DOMAIN fields |-> {v \in Given : HasType(v, Declared(fields, t, i))}])

PlainArguments ==
  [t \in {t \in DOMAIN Decls : Decls[t].kind \in {"struct", "bitfield"}} |->
     Arguments([i \in DOMAIN Decls[t].fields |-> Fields(t, None, TRUE)[i].type])]
MemberArguments ==
  [t \in {t \in DOMAIN Decls : Decls[t].kind \in {"enum", "machine"}} |->
     LET members == IF Decls[t].kind = "enum" THEN Decls[t].variants ELSE Decls[t].states
     IN [i \in DOMAIN members |-> TypedArguments(members[i].fields, t)]]

Constructors ==
  \E t \in Written :
    LET owner == Resolved(t)
    IN \/ /\ owner \in DOMAIN PlainArguments
          /\ \E values \in PlainArguments[owner] :
               ConstructStruct(t, values) \/ ConstructBitfield(t, values)
       \/ /\ owner \in DOMAIN MemberArguments
          /\ \E i \in DOMAIN MemberArguments[owner] :
               \E values \in MemberArguments[owner][i] :
                 \/ ConstructVariant(t, i, values)
                 \/ ConstructMachine(t, i, values)
                 \/ Transition(t, i, values)

BytesOfBitfields ==
  \E t \in Written :
    \/ Serialize(t)
    \/ /\ Kind(held) = "bytes" /\ Deserialize(t, Contents(held))
    \/ \E bytes \in Received : Deserialize(t, bytes)

\* Metadata are at hand of any type that is written.
Reflection ==
  Functions[Running].reflects /\ \E t \in Written :
    \/ ConstructStart(t)
    \/ \E m \in ToSet(VariantMetadata(Resolved(t), Home, checked)) : ConstructVariantStart(t, m)
    \/ \E m \in ToSet(StateMetadata(Resolved(t), Home, checked)) : ConstructMachineStart(t, m)
    \/ ConstructFinish(t)
    \/ /\ IsConstruction /\ type = Meaning(t)
       /\ \E m \in ToSet(AllFields(Resolved(t), Home, checked)), u \in Written :
            /\ FieldMatches(Resolved(t), MemberOf(held, Resolved(t)), m, Resolved(u))
            /\ \E v \in Given : ConstructPut(t, u, m, v)

Next ==
  \/ BindingsNext /\ UNCHANGED <<held, type>>
  \/ Constructors
  \/ BytesOfBitfields
  \/ Reflection

Spec == Init /\ [][Next]_vars

-----------------------------------------------------------------------------
(* Properties                                                              *)

\* A type written in generic code means at run time what it means where it is
\* written, however the calls, the `comptime type` statements and the loops of
\* its callers have bound names: the interpreter finds a type for every name by
\* searching the bindings of all its callers, and looks what it finds up again.
\* (current_type_binding, substitute_type_expr, type_scope_for_function)
\* Without the checker's metadata, which the driver always hands over, a bit
\* field as wide as a word passes for an int64.
MeansLexically ==
  \A t \in Written :
    \/ Resolved(t) = Meaning(t)
    \/ ~checked /\ Meaning(t) = Uint64T /\ Resolved(t) = Int64T

\* What a program holds has the type that the rules of the language give it,
\* down to the constraints of refined fields, the widths of bit fields and the
\* state of a machine, whether a constructor, a transition, bytes or reflection
\* have made it. (construct_struct, construct_bitfield, reflected_construct_put,
\* reflected_construct_finish, decode_bitfield_value)
MadeTyped == type # NoType /\ ~IsConstruction => HasType(held, type)

\* Every field was put with a value of its type, and the state, if any, is the
\* wanted one.
IsComplete(fields) ==
  /\ IndexesPut(held) = DOMAIN fields
  /\ type.at \in {None, Begun(held).state}
  /\ \A i \in DOMAIN fields :
       IF KindOf(type) = "bitfield"
       THEN BitsTyped(Decls[type].fields[i], HomeOf(type, None), PutAt(held, i)[1])
       ELSE HasType(PutAt(held, i)[1], fields[i].type)

\* The metadata of the fields of every type.
FieldsDeclared == UNION {ToSet(AllFields(t, Home, checked)) : t \in DOMAIN Decls}

Answers(own, fields) ==
  /\ \A m \in own \cup FieldsDeclared : \A v \in Given :
       Offers(v, m.type) =>
         (PutTaken(held, type, m.type, m, v) <=> m \in own /\ m.index \notin IndexesPut(held))
  /\ Finished(held, type) # <<>> <=> IsComplete(fields)

\* A construction takes every field once, and with any metadata but those of
\* its own fields it takes none. It can be finished exactly when it is complete.
\* (reflected_construct_put, reflected_construct_finish)
ConstructionsAnswer ==
  IsConstruction /\ BegunAs(held, type) =>
    LET member == MemberOf(held, type)
        fields == MemberFields(type, member)
    IN Answers(ToSet(FieldInfos(MetadataOwner(type), member, fields)), fields)

\* Read through the metadata of its type, a value shows the fields that it has,
\* and through those of another variant or state nothing.
\* (reflected_field_value, reflected_variant_field_value, reflected_machine_field_value)
ReadsBack ==
  type # NoType /\ Kind(held) \in {"struct", "enum", "machine"} =>
    LET member == IF Kind(held) = "struct" THEN None ELSE Member(held)
    IN /\ \A m \in ToSet(AllFields(type, Home, checked)) :
            ReadField(held, type, m, m.type) = IF m.member = member THEN <<Held(held)[m.index]>> ELSE <<>>
       /\ Kind(held) # "struct" =>
            LET read == IF Kind(held) = "enum" THEN ReadVariant(held, type) ELSE ReadState(held, type)
            IN Len(read) = 1 /\ Head(read).name = member

\* A type is said to have a secret exactly when following its fields, payloads
\* and arguments leads to one, also where types hold each other.
\* (type_expr_has_secret_inner)
Follow(types) == types \cup UNION {Parts(t, None) : t \in types}
SecretsFound ==
  \A t \in DOMAIN Decls :
    LET reached == FoldLeft(LAMBDA types, _step : Follow(types), {t},
                            [i \in 1..Cardinality(DOMAIN Decls) |-> i])
    IN HasSecret(t, None) <=> \E u \in reached : u.name = "secret"

\* Reflection is a faithful view of a type: ConstructionsAnswer, ReadsBack and
\* SecretsFound.
ReflectionFaithful == ConstructionsAnswer /\ ReadsBack /\ SecretsFound

\* What a program finishes is what it put, each field in its place, whatever
\* the order. (reflected_construct_finish)
FinishesWhatWasPut ==
  [][IsConstruction /\ Kind(held') \in {"struct", "enum", "machine"} /\ frames' = frames
       /\ (\E t \in Written : ConstructFinish(t))
     => \A i \in DOMAIN Puts(held) :
          Contents(Held(held')[Puts(held)[i].index]) = Contents(Puts(held)[i].value)]_vars

BitfieldTypes == {t \in DOMAIN Decls : IsDeclared(t, {"bitfield"})}
Width(t) == Offset(Decls[t].fields, Len(Decls[t].fields) + 1)

\* A payload is read as a list of numbers.
PayloadAsList(v) ==
  [i \in DOMAIN Held(v) |->
     IF Kind(Held(v)[i]) = "bytes"
     THEN List([k \in DOMAIN Contents(Held(v)[i]) |-> Int64(Contents(Held(v)[i])[k])])
     ELSE Held(v)[i]]

\* A field of whole bytes that starts on a byte has its least significant byte
\* first, unless the bitfield is in network order. Every other field has its most
\* significant bit first.
InOrder(t, v, bytes) ==
  \A i \in {i \in DOMAIN Decls[t].fields : IsPlain(Decls[t].fields[i])} :
    LET field == Decls[t].fields[i]
        from == Offset(Decls[t].fields, i)
        native == ~Decls[t].network /\ from % ByteBits = 0 /\ field.width % ByteBits = 0
        byte(k) == bytes[from \div ByteBits + k + 1] * 2^(ByteBits * k)
    IN Contents(Held(v)[i]) =
         IF native THEN FoldLeft(+, 0, [k \in 1..(field.width \div ByteBits) |-> byte(k - 1)])
         ELSE NumberOf(SubSeq(ToBitSeq(bytes), from + 1, from + field.width))

\* What bytes give is written as the same bytes, but for the bits that belong to
\* no field.
ReceivedReadBack ==
  \A t \in BitfieldTypes : \A bytes \in Received :
    LET read == FromBytes(t, bytes)
        written == ToBytes(t, Contents(read))
    IN Kind(read) = "ok" =>
         /\ Gave(written) /\ Len(Contents(written[2])) = Len(bytes)
         /\ \A i \in 1..Width(t) : ToBitSeq(Contents(written[2]))[i] = ToBitSeq(bytes)[i]

\* The bytes of a bitfield are as many as its widths need, wide fields have the
\* byte order of the declaration, and read back the bytes give the same value;
\* and what other bytes give is written as the same bytes, but for the bits that
\* belong to no field. (encode_bitfield_value, decode_bitfield_value)
BytesRoundTrip ==
  /\ ReceivedReadBack
  /\ Kind(held) = "struct" /\ type \in BitfieldTypes =>
       LET outcome == ToBytes(type, held)
           bytes == Contents(outcome[2])
       IN /\ Gave(outcome)
          /\ Len(bytes) >= ByteCount(Width(type))
          /\ InOrder(type, held, bytes)
          /\ FromBytes(type, bytes) = ResultOk(Struct(type, PayloadAsList(held)))

=============================================================================
