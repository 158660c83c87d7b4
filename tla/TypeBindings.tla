---------------------------- MODULE TypeBindings ----------------------------
(***************************************************************************)
(* What type names mean while generic code runs                            *)
(* (crates/jett_comptime/src/interpreter.rs). Jett does not compile a copy *)
(* of a function for every type: the interpreter keeps a stack of bindings *)
(* of type parameters to types, as they are written, and looks them up when*)
(* it meets a type. Calls, `comptime type` statements and the loops over   *)
(* reflected fields push bindings; a lookup searches the whole stack, the  *)
(* callers' bindings with it, and what is found is looked up again in the  *)
(* namespace of the function that runs.                                    *)
(***************************************************************************)
EXTENDS Bitfields

CONSTANTS
  Program,     \* name |-> [home, params, types, calls, reflects]: its
               \* namespace, its type parameters, the types and the functions
               \* that its text mentions and whether it has `comptime type`
               \* statements and loops
  Main,        \* the function that is called first
  MaxDepth     \* bound of the checks: frames on the stack

Functions == Program

ASSUME MainIsPlain == Main \in DOMAIN Functions /\ Functions[Main].params = <<>>

VARIABLES
  frames,      \* the bindings, innermost last; means is not in the code: what
               \* the names mean by the rules of the language
  checked      \* whether the checker's metadata are there (reflection_metadata)

bindingVars == <<frames, checked>>

NoTypes == [name \in {} |-> Int64T]
NoItem == [name |-> None]

\* call is the index of the frame of the function's call, item the field that a
\* loop is at.
Frame(function, call, scope, means, item) ==
  [function |-> function, call |-> call, scope |-> scope, means |-> means, item |-> item]

\* The function that runs, and current_namespace.
Running == Last(frames).function
Home == Functions[Running].home
\* The maps that bind the name, and the names bound: the last binding counts.
Binding(maps, name) == {i \in DOMAIN maps : name \in DOMAIN maps[i]}
Names(maps) == UNION {DOMAIN maps[i] : i \in DOMAIN maps}
Merged(maps) == [name \in Names(maps) |-> maps[Max(Binding(maps, name))][name]]

\* Mutant: the outermost binding of a name is the one that is found.
BoundOutermost ==
  LET maps == [i \in DOMAIN frames |-> frames[i].scope]
  IN [name \in Names(maps) |-> maps[Min(Binding(maps, name))][name]]

\* current_type_binding
Bound == Merged([i \in DOMAIN frames |-> frames[i].scope])

\* substitute_type_expr
Resolved(t) == Substitute(t, Bound, Home)

-----------------------------------------------------------------------------
(* The rules of the language: a name is a parameter of the function, or a  *)
(* type bound in it, or else a type of its namespace or of none            *)

LexicallyBound == Merged([i \in Last(frames).call..Len(frames) |-> frames[i].means])

RECURSIVE Means(_, _, _)
Means(t, bound, home) ==
  IF t.at # None THEN At(Means(Base(t), bound, home), t.at)
  ELSE IF t.ns = None /\ t.args = <<>> /\ t.name \in DOMAIN bound THEN bound[t.name]
  ELSE [Qualify(t, home) EXCEPT !.args = [i \in DOMAIN t.args |-> Means(t.args[i], bound, home)]]

Meaning(t) == Means(t, LexicallyBound, Home)

RECURSIVE Known(_)
\* The checker has found every name of the type.
Known(t) ==
  /\ \/ t.ns = None /\ t.name \in DOMAIN LexicallyBound
     \/ t.name \in BuiltinTypes
     \/ Registered(Qualify(t, Home))
  /\ \A i \in DOMAIN t.args : Known(t.args[i])

\* The types that the function that runs can write where it is.
Written == {t \in Functions[Running].types : Known(t)}

-----------------------------------------------------------------------------
(* Calls                                                                   *)

\* type_scope_for_function: the arguments are substituted twice, the second
\* time in the scope of the parameters themselves, before the namespace changes.
TypeScope(params, args) ==
  LET raw == [p \in ToSet(params) |-> Resolved(args[CHOOSE i \in DOMAIN params : params[i] = p])]
  IN [p \in DOMAIN raw |-> Substitute(raw[p], raw @@ Bound, Home)]

\* call_user_function. The checker has counted the arguments.
Call(f, args) ==
  LET params == Functions[f].params
      meaning == [p \in ToSet(params) |->
                    Meaning(args[CHOOSE i \in DOMAIN params : params[i] = p])]
  IN /\ Len(frames) < MaxDepth
     /\ frames' = Append(frames, Frame(f, Len(frames) + 1, TypeScope(params, args), meaning, NoItem))
     /\ UNCHANGED checked

-----------------------------------------------------------------------------
(* `comptime type` statements                                              *)

Bind(name, t, meaning) ==
  /\ Len(frames) < MaxDepth
  /\ frames' = Append(frames, Frame(Running, Last(frames).call, name :> t, name :> meaning, NoItem))
  /\ UNCHANGED checked

\* comptime type name = type.info[t]()
BindInfo(name, t) == Bind(name, Resolved(t), Meaning(t))

\* checked_type_info_arg_types, and type_info_arg_types, which looks the base
\* of an alias up where it is asked for.
TypeArgs(t) ==
  IF IsAlias(t) THEN <<Expand(Decls[t].base, IF checked THEN HomeOf(t, None) ELSE Home)>>
  ELSE IF checked THEN t.args ELSE [i \in DOMAIN t.args |-> Resolved(t.args[i])]

MeantArgs(t) == IF IsAlias(t) THEN <<Expand(Decls[t].base, HomeOf(t, None))>> ELSE t.args

\* comptime type name = type.arg[t](index), of an index that there is.
BindArg(name, t, index) ==
  /\ index \in DOMAIN TypeArgs(Resolved(t))
  /\ Bind(name, TypeArgs(Resolved(t))[index], MeantArgs(Meaning(t))[index])

-----------------------------------------------------------------------------
(* Loops over reflected fields                                             *)

\* The fields of all variants, or of all states.
FieldsWithin(parts) == FlattenSeq([i \in DOMAIN parts |-> parts[i].fields])

\* The fields of a type, of the variants of an enum and of the states of a
\* machine, as reflection gives them.
AllFields(t, ns, source) ==
  FieldMetadata(t, ns, source)
    \o FieldsWithin(VariantMetadata(t, ns, source)) \o FieldsWithin(StateMetadata(t, ns, source))

\* An iteration of a loop over type.fields[t](), or over the fields of what
\* type.variants[t]() or type.machine_states[t]() gives.
Iterate(t, i) ==
  LET items == AllFields(Resolved(t), Home, checked)
  IN /\ Len(frames) < MaxDepth
     /\ i \in DOMAIN items
     /\ frames' = Append(frames, Frame(Running, Last(frames).call, NoTypes, NoTypes,
                                       items[i] @@ [meaning |-> AllFields(Meaning(t), None, TRUE)[i].type]))
     /\ UNCHANGED checked

\* bound_reflected_field_type: comptime type name = field.type_info, of the
\* field of the innermost loop.
BindField(name) ==
  LET loops == {i \in Last(frames).call..Len(frames) : frames[i].item # NoItem}
  IN /\ loops # {}
     /\ LET item == frames[Max(loops)].item IN Bind(name, Resolved(item.type), item.meaning)

\* A call, a block or an iteration ends.
Leave ==
  /\ Len(frames) > 1
  /\ frames' = Front(frames)
  /\ UNCHANGED checked

-----------------------------------------------------------------------------

BindingsInit ==
  /\ frames = <<Frame(Main, 1, NoTypes, NoTypes, NoItem)>>
  /\ checked \in BOOLEAN

\* The name that `comptime type` statements bind.
Local == "U"

BindingsNext ==
  \/ \E f \in Functions[Running].calls :
       \E args \in [DOMAIN Functions[f].params -> Written] : Call(f, args)
  \/ /\ Functions[Running].reflects
     /\ \E t \in Written :
          \/ BindInfo(Local, t)
          \/ \E index \in 1..2 : BindArg(Local, t, index)
          \/ \E i \in DOMAIN AllFields(Resolved(t), Home, checked) : Iterate(t, i)
  \/ Functions[Running].reflects /\ BindField(Local)
  \/ Leave

=============================================================================
