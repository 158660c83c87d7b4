------------------------------ MODULE Resolver ------------------------------
(***************************************************************************)
(* Name resolution (jett_resolve): two passes over the items of a module   *)
(* put together from several files.  The first pass declares every item    *)
(* under the namespace of its file, the second walks the bodies, pushes    *)
(* and pops scopes around the constructs that have one, and looks names    *)
(* up.                                                                     *)
(*                                                                         *)
(* A program fixes its items; the bodies are not fixed: wherever the       *)
(* source may hold expressions, types or statements, any form of the       *)
(* program's menu may come, until its fuel has been taken.  A form is a    *)
(* script of steps, one for each call its resolve function makes; the      *)
(* forms being walked are a stack of frames, one for each call of a        *)
(* resolve function that is under way.  A dotted name is the sequence of   *)
(* its segments.                                                           *)
(***************************************************************************)
EXTENDS Integers, Sequences, FiniteSets, FiniteSetsExt, SequencesExt

CONSTANTS
  Words,        \* the segments of names
  Programs,     \* records: items, menu, locals, paths, types, uses, params and
                \* the bound fuel: how many forms and names its bodies hold
  Prelude,      \* names bound in the root scope before any item
  Modules,      \* names of built-in modules
  BuiltinTypes, \* type names that are never looked up
  Ignored,      \* local names that begin with an underscore
  Stdlib        \* the files of the standard library

VARIABLES
  program,    \* the module being resolved
  pass,       \* "declare", "reference", "unused", "done"
  index,      \* the item being walked
  namespace,  \* current_namespace, <<>> for none
  file,       \* current_file
  current,    \* current_scope
  typeParams, \* active_type_params
  table,      \* defs and scopes: the ScopeTable
  top,        \* order, mutual, bodies: top_level_order, mutual_*
  out,        \* mentions, used, aliases, vars, uses, diagnostics
  frames,     \* the resolve functions under way, innermost last
  fuel        \* forms taken so far

vars == <<program, pass, index, namespace, file, current, typeParams, table,
          top, out, frames, fuel>>
walk == <<program, pass, index, namespace, file>>

Named == {"Function", "Interface", "Struct", "Bitfield", "Enum", "VarDecl",
          "Machine", "Actor", "TypeAlias"}
OneSegment == Named \union {"Mutual", "RootAlias"}
ItemKinds ==
  OneSegment \union {"Namespace", "Verify", "Property", "Implement"}

Items == program.items
Item == Items[index]
Root == 1
None == <<>>

-----------------------------------------------------------------------------
(* The scope table.  A scope is numbered after its parent, so the innermost *)
(* of a chain is the one with the largest number.                           *)

Def(name, kind, ns, vis) ==
  [name |-> name, kind |-> kind, item |-> index, file |-> file, ns |-> ns,
   vis |-> vis]
With(f, k, value) ==
  [n \in DOMAIN f \union {k} |-> IF n = k THEN value ELSE f[n]]
NewDef(t, d) == [t EXCEPT !.defs = Append(@, d)]
Bind(t, s, name) ==
  [t EXCEPT !.scopes[s].bind = With(@, name, Len(t.defs))]
NewScope(t, parent) ==
  [t EXCEPT !.scopes = Append(@, [bind |-> <<>>, parent |-> parent])]

Chain(t, s) ==
  LET up[i \in 0..Len(t.scopes)] ==
        IF i = 0 THEN {} ELSE {i} \union up[t.scopes[i].parent]
  IN up[s]
Binders(t, s, name) ==
  {i \in Chain(t, s) : name \in DOMAIN t.scopes[i].bind}
Found(t, scopes, name) ==
  IF scopes = {} THEN 0 ELSE t.scopes[Max(scopes)].bind[name]
LookupLocal(t, s, name) ==
  Found(t, Binders(t, s, name) \intersect {s}, name)
LookupAncestor(t, s, name) == Found(t, Binders(t, s, name) \ {s}, name)
Lookup(t, s, name) == Found(t, Binders(t, s, name), name)
LookupLocalNonRoot(t, s, name) ==
  Found(t, Binders(t, s, name) \ {Root}, name)

-----------------------------------------------------------------------------
(* Pass 1: declarations.                                                   *)

Diagnostic(code, name) == [code |-> code, name |-> name, item |-> index]
Emit(o, code, name) ==
  [o EXCEPT !.diagnostics = @ \union {Diagnostic(code, name)}]

Qualified(ns, name) ==
  IF ns = None \/ Len(name) > 1 THEN None ELSE ns \o name

UpdatedNamespace(item) ==
  IF item.kind = "Namespace" THEN item.name
  ELSE IF file # item.file THEN None ELSE namespace

\* The item is entered: its file and namespace become the current ones.
EnterItem ==
  /\ file' = Item.file
  /\ namespace' = UpdatedNamespace(Item)

AlwaysFree(name) == TRUE
IsFree(name) == LookupLocal(table, Root, name) = 0
Declared(name, kind, ns, vis) ==
  /\ table' = Bind(NewDef(table, [Def(name, kind, ns, vis)
                                   EXCEPT !.file = Item.file]), Root, name)
  /\ top' = [top EXCEPT !.order =
                With(@, name, [def |-> Len(table.defs) + 1, item |-> index])]
Duplicate(name) ==
  /\ out' = Emit(out, "duplicate", name)
  /\ UNCHANGED <<table, top>>

\* Names an item declares are qualified by the namespace the item is in.
NamespaceOfItem == UpdatedNamespace(Item)
FullName(name) ==
  LET qualified == Qualified(NamespaceOfItem, name)
  IN IF qualified = None THEN name ELSE qualified
Visibility(item) ==
  IF NamespaceOfItem = None \/ item.exported THEN "Public" ELSE "Private"

DeclareNamespace ==
  /\ Item.kind = "Namespace"
  /\ LET prev == LookupLocal(table, Root, Item.name)
         again == /\ prev # 0
                  /\ table.defs[prev].kind = "Namespace"
                  /\ table.defs[prev].file \in Stdlib
                  /\ Item.file \in Stdlib
     IN \/ again /\ UNCHANGED <<table, top, out>>
        \/ prev # 0 /\ ~again /\ Duplicate(Item.name)
        \/ /\ prev = 0
           /\ Declared(Item.name, "Namespace", None, "Public")
           /\ UNCHANGED out

\* A body for a function that a mutual block declared earlier.
DeclareMutualBody ==
  /\ Item.kind = "Function"
  /\ FullName(Item.name) \in DOMAIN top.mutual
  /\ LET again == FullName(Item.name) \in top.bodies
     IN out' = IF again THEN Emit(out, "duplicate", FullName(Item.name))
               ELSE out
  /\ top' = [top EXCEPT !.bodies = @ \union {FullName(Item.name)}]
  /\ UNCHANGED table

DeclareMutual ==
  /\ Item.kind = "Mutual"
  /\ LET name == FullName(Item.name)
     IN \/ ~IsFree(name) /\ Duplicate(name)
        \/ /\ IsFree(name)
           /\ table' = Bind(NewDef(table,
                [Def(name, "Function", NamespaceOfItem, Visibility(Item))
                   EXCEPT !.file = Item.file]), Root, name)
           /\ top' = [top EXCEPT
                !.order = With(@, name, [def |-> Len(table.defs) + 1,
                                         item |-> index]),
                !.mutual = With(@, name, Len(table.defs) + 1)]
           /\ UNCHANGED out

\* export root type: one alias of the standard library, outside namespaces.
DeclareRootAlias ==
  /\ Item.kind = "RootAlias"
  /\ \/ /\ ~(Item.file \in Stdlib /\ Item.allowed)
        /\ out' = Emit(out, "invalid_root_export", Item.name)
        /\ UNCHANGED <<table, top>>
     \/ /\ Item.file \in Stdlib /\ Item.allowed
        /\ \/ ~IsFree(Item.name) /\ Duplicate(Item.name)
           \/ /\ IsFree(Item.name)
              /\ Declared(Item.name, "Type", None, "Public")
              /\ UNCHANGED out

DeclareNamed ==
  /\ Item.kind \in Named
  /\ ~(Item.kind = "Function" /\ FullName(Item.name) \in DOMAIN top.mutual)
  /\ LET name == FullName(Item.name)
     IN \/ ~IsFree(name) /\ Duplicate(name)
        \/ /\ IsFree(name)
           /\ Declared(name, Item.kind, NamespaceOfItem, Visibility(Item))
           /\ out' = IF Item.kind = "VarDecl"
                     THEN [out EXCEPT !.vars = @ \union {Len(table.defs) + 1}]
                     ELSE out

DeclareNothing ==
  /\ Item.kind \in {"Verify", "Property", "Implement"}
  /\ UNCHANGED <<table, top, out>>

DeclareItem ==
  /\ pass = "declare" /\ index <= Len(Items)
  /\ EnterItem
  /\ \/ DeclareNamespace \/ DeclareMutualBody \/ DeclareMutual
     \/ DeclareRootAlias \/ DeclareNamed \/ DeclareNothing
  /\ index' = index + 1
  /\ UNCHANGED <<program, pass, current, typeParams, frames, fuel>>

\* Between the passes the tracking of file and namespace starts over.
NoFile == "none"
Rewind ==
  /\ index' = 1
  /\ file' = NoFile
  /\ namespace' = None
StartReferences ==
  /\ pass = "declare" /\ index > Len(Items)
  /\ pass' = "reference"
  /\ Rewind
  /\ UNCHANGED <<program, current, typeParams, table, top, out, frames, fuel>>

-----------------------------------------------------------------------------
(* The walk.  Script[f] is the calls the resolve function of form f makes,  *)
(* in order.  The steps "exprs", "types", "stmts" and "body" stand for any  *)
(* number of that kind, as "params", "variables" and a form's name do, but  *)
(* "Block" is one block; "else" and "error" may be left out.                *)

ItemScript ==
 [Function   |-> <<"push", "add", "types", "params", "body", "remove", "pop">>,
  Decl       |-> <<"add", "types", "remove">>,
  Interface  |-> <<"Decl">>,
  Mutual     |-> <<"Decl">>,
  Implement  |-> <<"name", "types", "Function">>,
  Struct     |-> <<"add", "types", "Function", "remove">>,
  Bitfield   |-> <<"types">>,
  Enum       |-> <<"types">>,
  TypeAlias  |-> <<"types", "Constraint">>,
  RootAlias  |-> <<"types", "Constraint">>,
  Constraint |-> <<"push", "untracked", "exprs", "pop">>,
  VarDecl    |-> <<"exprs">>,
  Verify     |-> <<"Block">>,
  Property   |-> <<"push", "Given", "Block", "pop">>,
  Given      |-> <<"types", "variable">>,
  Actor      |-> <<"push", "Capability", "Field", "Handler", "pop">>,
  Capability |-> <<"types", "param">>,
  Field      |-> <<"exprs", "variable">>,
  Handler    |-> <<"push", "Capability", "types", "Block", "pop">>,
  Namespace  |-> <<>>,
  Machine    |-> <<>>]
StatementScript ==
 [Block      |-> <<"push", "stmts", "pop">>,
  Local      |-> <<"exprs", "types", "variable">>,
  TypeBind   |-> <<"exprs", "push", "type", "stmts", "pop">>,
  Plain      |-> <<"exprs">>,
  Trace      |-> <<"name">>,
  If         |-> <<"exprs", "Block", "ElseIf", "else">>,
  ElseIf     |-> <<"exprs", "Block">>,
  While      |-> <<"exprs", "Block">>,
  For        |-> <<"exprs", "push", "variable", "variables", "stmts", "pop">>,
  Match      |-> <<"exprs", "Arm">>,
  Arm        |-> <<"push", "variables", "stmts", "pop">>]
ExpressionScript ==
 [Call       |-> <<"callee", "argument", "exprs">>,
  GenericCall |-> <<"exprs", "types", "exprs">>,
  Handle     |-> <<"exprs", "push", "error", "stmts", "pop">>,
  InlineFn   |-> <<"push", "types", "params", "Block", "pop">>]
Script ==
  [form \in UNION {DOMAIN ItemScript, DOMAIN StatementScript,
                   DOMAIN ExpressionScript} |->
     CASE form \in DOMAIN ItemScript -> ItemScript[form]
     [] form \in DOMAIN StatementScript -> StatementScript[form]
     [] form \in DOMAIN ExpressionScript -> ExpressionScript[form]]

-----------------------------------------------------------------------------
(* Looking a name up in pass 2.  Each operator maps the resolver's output   *)
(* to the output with the reference handled.  A mention is a reference with *)
(* what it was resolved to: its place in the text is given by its item, its *)
(* scope and the number of definitions made before it.  Where its head is a *)
(* type parameter, which means no definition, it is generic; type tells the *)
(* names of types from those in expressions.                                *)

Top == Last(frames)
Step == Script[Top.form][Top.at]
Mention(written) ==
  [name |-> written, item |-> index, scope |-> current,
   after |-> Len(table.defs), to |-> 0, type |-> Step = "types",
   generic |-> <<Head(written)>> \in typeParams]
Mentioned(o, written) == [o EXCEPT !.mentions = @ \union {Mention(written)}]

UniqueExternalLeaf(name) ==
  LET found == {d \in DOMAIN table.defs :
                  /\ table.defs[d].ns \notin {None, namespace}
                  /\ Len(name) = 1
                  /\ Last(table.defs[d].name) = Last(name)}
  IN IF Cardinality(found) = 1 THEN Max(found) ELSE 0

PrivateAccess(d) ==
  /\ table.defs[d].vis = "Private"
  /\ table.defs[d].ns \notin {None, namespace}
QualifierRequired(name, d) ==
  /\ Len(name) = 1
  /\ table.defs[d].ns \notin {None, namespace}
ForwardReference(name, d) ==
  /\ name \in DOMAIN top.order
  /\ top.order[name].def = d
  /\ top.order[name].item > index

RecordResolution(o, name, d, written) ==
  IF PrivateAccess(d) THEN Emit(o, "private", name)
  ELSE IF QualifierRequired(name, d) THEN Emit(o, "qualifier_required", name)
  ELSE IF ForwardReference(name, d) THEN Emit(o, "forward_reference", name)
  ELSE [o EXCEPT !.used = @ \union {d},
                 !.mentions = (@ \ {Mention(written)})
                              \union {[Mention(written) EXCEPT !.to = d]}]

ResolveName(o, name, written) ==
  LET local == LookupLocalNonRoot(table, current, name)
      qualified == Qualified(namespace, name)
      own == Lookup(table, current, qualified)
      global == Lookup(table, current, name)
      leaf == UniqueExternalLeaf(name)
  IN IF name \in typeParams \union Modules THEN o
     ELSE IF local # 0 THEN RecordResolution(o, name, local, written)
     ELSE IF qualified # None /\ own # 0
          THEN RecordResolution(o, qualified, own, written)
     ELSE IF global # 0 THEN RecordResolution(o, name, global, written)
     ELSE IF leaf # 0 THEN RecordResolution(o, name, leaf, written)
     ELSE Emit(o, "undefined", name)

\* The prefix of a path at which the search for a namespace stops.
StopAt(path) ==
  LET stops == {k \in 1..(Len(path) - 1) :
        LET prefix == SubSeq(path, 1, k)
            d == Lookup(table, current, prefix)
        IN \/ prefix \in Modules
           \/ /\ d # 0
              /\ \/ table.defs[d].kind = "Namespace"
                 \/ k > 1 /\ table.defs[d].ns # None}
  IN IF stops = {} THEN 0 ELSE Max(stops)

IsPrefixed(path) == Lookup(table, current, path) # 0 \/ StopAt(path) # 0
ResolveCandidate(o, path, written) ==
  LET whole == Lookup(table, current, path)
      prefix == SubSeq(path, 1, StopAt(path))
      d == Lookup(table, current, prefix)
  IN IF whole # 0 THEN RecordResolution(o, path, whole, written)
     ELSE IF prefix \in Modules THEN o
     ELSE IF table.defs[d].kind = "Namespace" THEN ResolveName(o, prefix, written)
     ELSE RecordResolution(o, prefix, d, written)

\* An alias of a use declaration at the head of a path stands for its target.
AliasOf(o, path) ==
  LET d == LookupLocalNonRoot(table, current, <<Head(path)>>)
  IN IF Len(path) > 1 /\ d \in DOMAIN o.aliases THEN d ELSE 0
Expanded(o, path) == o.aliases[AliasOf(o, path)] \o Tail(path)
ForgetAlias(o, path) == o
UseAlias(o, path) == [o EXCEPT !.used = (@ \union {AliasOf(o, path)}) \ {0}]

\* a.b.c is a name of a namespace, or a field of what a.b, in the end a, is.
ResolvePath(o, path) ==
  LET q == UseAlias(o, path)
      aliased(p) == AliasOf(o, p) # 0 /\ IsPrefixed(Expanded(o, p))
      named == {k \in 2..Len(path) : LET p == SubSeq(path, 1, k)
                                     IN aliased(p) \/ IsPrefixed(p)}
      p == SubSeq(path, 1, Max(named \union {1}))
  IN IF named = {} THEN ResolveName(q, p, path)
     ELSE IF aliased(p) THEN ResolveCandidate(q, Expanded(o, p), path)
     ELSE ResolveCandidate(q, p, path)

ResolveTypeName(o, name) ==
  LET namespaceOf == Front(name)
      mayResolve == \/ Lookup(table, current, name) # 0
                    \/ /\ Qualified(namespace, name) # None
                       /\ Lookup(table, current,
                                 Qualified(namespace, name)) # 0
                    \/ UniqueExternalLeaf(name) # 0
  IN IF Len(name) > 1
     THEN IF Lookup(table, current, name) # 0 THEN ResolveName(o, name, name)
          ELSE IF namespaceOf \in Modules THEN o
          ELSE ResolveName(o, namespaceOf, name)
     ELSE IF mayResolve THEN ResolveName(o, name, name) ELSE o

ResolveType(o, name) ==
  IF name \in BuiltinTypes THEN o ELSE ResolveTypeName(o, name)

\* What the parser makes: an item that declares a name has one, dotted only
\* where it is a namespace, and so do locals, references and imports.
ASSUME PreludeFinite == IsFiniteSet(Prelude)
ASSUME ProgramsHoldNames ==
  \A p \in Programs :
    /\ p.items \in Seq(Range(p.items))
    /\ \A i \in DOMAIN p.items :
         LET item == p.items[i]
         IN /\ item.kind \in ItemKinds
            /\ item.name \in Seq(Words)
            /\ item.kind \in OneSegment => Len(item.name) = 1
            /\ item.kind = "Namespace" => item.name # <<>>
    /\ p.menu \subseteq DOMAIN Script
    /\ \A name \in p.locals \union {u.bound : u \in p.uses} :
         name \in Seq(Words) /\ Len(name) = 1
    /\ \A name \in p.paths \union p.types \union {u.path : u \in p.uses} :
         name \in Seq(Words) /\ name # <<>>
    /\ p.fuel \in Nat
\* None of the built-in modules has a dot in its name.
ASSUME ModulesOneSegment == \A name \in Modules : Len(name) = 1

Statements == {"Local", "TypeBind", "Plain", "Trace", "If", "While", "For",
               "Match"}
Expressions == {"Call", "GenericCall", "Handle", "InlineFn"}

Frame(form) ==
  [form |-> form, at |-> 1, entry |-> current, scope |-> 0, added |-> {},
   callee |-> 0, pastUse |-> FALSE]
AtStep(steps) ==
  /\ pass = "reference" /\ frames # <<>>
  /\ Top.at <= Len(Script[Top.form])
  /\ Step \in steps
SetTop(f) == frames' = Append(Front(frames), f)
Advance == SetTop([Top EXCEPT !.at = @ + 1])
Spend == fuel < program.fuel /\ fuel' = fuel + 1
Call(form) == frames' = Append(frames, Frame(form))

\* The next item: its file and namespace, and the function that walks it.
BeginItem ==
  /\ pass = "reference" /\ frames = <<>> /\ index <= Len(Items)
  /\ EnterItem
  /\ Call(Item.kind)
  /\ UNCHANGED <<program, pass, index, current, typeParams, table, top, out,
                 fuel>>

\* A resolve function returns.
Return ==
  /\ pass = "reference" /\ frames # <<>>
  /\ Top.at > Len(Script[Top.form])
  /\ frames' = Front(frames)
  /\ index' = IF Len(frames) = 1 THEN index + 1 ELSE index
  /\ UNCHANGED <<program, pass, namespace, file, current, typeParams, table,
                 top, out, fuel>>

PushScope ==
  /\ AtStep({"push"})
  /\ table' = NewScope(table, current)
  /\ current' = Len(table.scopes) + 1
  /\ SetTop([Top EXCEPT !.at = @ + 1, !.scope = Len(table.scopes) + 1])
  /\ UNCHANGED <<walk, typeParams, top, out, fuel>>

\* pop_scope returns to the parent of the scope that was pushed.
PopScope ==
  /\ AtStep({"pop"})
  /\ current' = table.scopes[Top.scope].parent
  /\ Advance
  /\ UNCHANGED <<walk, typeParams, table, top, out, fuel>>

\* Only the parameters that were not active yet are removed again.
AddTypeParams ==
  /\ AtStep({"add"})
  /\ LET added == program.params[Top.form] \ typeParams
     IN /\ typeParams' = typeParams \union added
        /\ SetTop([Top EXCEPT !.at = @ + 1, !.added = added])
  /\ UNCHANGED <<walk, current, table, top, out, fuel>>
RemoveTypeParams ==
  /\ AtStep({"remove"})
  /\ typeParams' = typeParams \ Top.added
  /\ Advance
  /\ UNCHANGED <<walk, current, table, top, out, fuel>>

\* declare_local: no name of an enclosing scope or of this one may be reused.
DeclareLocal(name, kind, tracked) ==
  LET ancestor == LookupAncestor(table, current, name)
      here == LookupLocal(table, current, name)
      id == Len(table.defs) + 1
  IN \/ /\ ancestor # 0 \/ here # 0
        /\ out' = Emit(out, IF ancestor # 0 THEN "shadowing" ELSE "duplicate",
                       name)
        /\ UNCHANGED table
     \/ /\ ancestor = 0 /\ here = 0
        /\ table' = Bind(NewDef(table, Def(name, kind, None, "Private")),
                         current, name)
        /\ out' = IF tracked THEN [out EXCEPT !.vars = @ \union {id}] ELSE out

KindOf ==
  [param |-> "Param", params |-> "Param", variable |-> "Variable",
   variables |-> "Variable", untracked |-> "Variable", error |-> "Variable",
   type |-> "Type"]
Many == {"params", "variables", "error"}
DeclareNames ==
  /\ AtStep(DOMAIN KindOf)
  /\ \E name \in program.locals :
       DeclareLocal(name, KindOf[Step],
                    Step \notin {"untracked", "error", "type"})
  /\ IF Step \in {"params", "variables"}
     THEN Spend /\ UNCHANGED frames ELSE Advance /\ UNCHANGED fuel
  /\ UNCHANGED <<walk, current, typeParams, top>>

\* A use declaration binds a local name without the check for shadowing.
IsNamespace(path) ==
  \/ path \in Modules
  \/ Len(path) > 1 /\ <<Head(path)>> \in Modules
  \/ /\ Lookup(table, current, path) # 0
     /\ table.defs[Lookup(table, current, path)].kind = "Namespace"
DeclareUse(path, bound) ==
  LET id == Len(table.defs) + 1
      valid == IF IsNamespace(path) THEN out ELSE Emit(out, "undefined", path)
      late == IF Step = "body" /\ Top.pastUse
              THEN Emit(valid, "use_not_at_top", path) ELSE valid
  IN \/ /\ LookupLocal(table, current, bound) # 0
        /\ out' = [late EXCEPT !.diagnostics =
                     @ \union {Diagnostic("duplicate", bound)}]
        /\ UNCHANGED table
     \/ /\ LookupLocal(table, current, bound) = 0
        /\ table' = Bind(NewDef(table,
                      Def(bound, "Namespace", None, "Private")),
                      current, bound)
        /\ out' = [late EXCEPT !.uses = @ \union {id},
                     !.aliases = IF IsNamespace(path) THEN With(@, id, path)
                                 ELSE @]
Use ==
  /\ AtStep({"stmts", "body"})
  /\ Spend
  /\ \E u \in program.uses : DeclareUse(u.path, u.bound)
  /\ UNCHANGED <<walk, current, typeParams, top, frames>>

Lookups(resolved, names) ==
  /\ \E name \in names : out' = resolved[name]
  /\ UNCHANGED <<walk, current, typeParams, table, top>>
Paths == program.locals \union program.paths
ResolvedPath ==
  [p \in Paths |-> ResolvePath(Mentioned(out, p), p)]

\* An identifier or a dotted path among the expressions.
Reference ==
  /\ AtStep({"exprs"})
  /\ Spend
  /\ Lookups(ResolvedPath, Paths)
  /\ UNCHANGED frames

TypeReference ==
  /\ AtStep({"types"})
  /\ Spend
  /\ Lookups([n \in program.types |-> ResolveType(out, n)], program.types)
  /\ UNCHANGED frames

\* The name after trace, and the interface after implement.
NameReference ==
  /\ AtStep({"name"})
  /\ Lookups([n \in program.locals |->
                ResolveName(Mentioned(out, n), n, n)], program.locals)
  /\ Advance
  /\ UNCHANGED fuel

\* The first argument of a call of a machine names a state: it is no name.
Callee ==
  /\ AtStep({"callee"})
  /\ \E p \in Paths :
       LET o == ResolvedPath[p]
           to == {m.to : m \in o.mentions \intersect
                               {[Mention(p) EXCEPT !.to = d] :
                                  d \in DOMAIN table.defs}}
       IN /\ out' = o
          /\ SetTop([Top EXCEPT !.at = @ + 1,
                                !.callee = IF to = {} THEN 0 ELSE Max(to)])
  /\ UNCHANGED <<walk, current, typeParams, table, top, fuel>>
Argument ==
  /\ AtStep({"argument"})
  /\ \E p \in Paths :
       out' = IF Top.callee # 0 /\ table.defs[Top.callee].kind = "Machine"
              THEN out ELSE ResolvedPath[p]
  /\ Advance
  /\ UNCHANGED <<walk, current, typeParams, table, top, fuel>>

\* The one block of a construct.
EnterBlock ==
  /\ AtStep({"Block"})
  /\ frames' = Append(Front(frames), [Top EXCEPT !.at = @ + 1])
               \o <<Frame("Block")>>
  /\ UNCHANGED <<walk, current, typeParams, table, top, out, fuel>>

\* A nested construct: a statement, an expression or a part of an item.
Enter ==
  /\ AtStep({"stmts", "body", "exprs", "else"} \union (DOMAIN Script \ {"Block"}))
  /\ \E form \in program.menu \union {"Block"} :
       /\ \/ Step \in {"stmts", "body"} /\ form \in Statements
          \/ Step = "exprs" /\ form \in Expressions
          \/ Step = "else" /\ form = "Block"
          \/ Step = form
       /\ frames' = Front(frames)
                    \o <<[Top EXCEPT !.pastUse = @ \/ Step = "body",
                                     !.at = IF Step = "else" THEN @ + 1 ELSE @],
                         Frame(form)>>
  /\ Spend
  /\ UNCHANGED <<walk, current, typeParams, table, top, out>>

\* No more of what the step stands for any number of.
EndOfStep ==
  /\ AtStep({"stmts", "body", "exprs", "types", "error", "else", "params",
             "variables"} \union (DOMAIN Script \ {"Block"}))
  /\ Advance
  /\ UNCHANGED <<walk, current, typeParams, table, top, out, fuel>>

-----------------------------------------------------------------------------
(* The end: variables and imports that no reference was resolved to.        *)

FinishReferences ==
  /\ pass = "reference" /\ frames = <<>> /\ index > Len(Items)
  /\ pass' = "unused"
  /\ UNCHANGED <<program, index, namespace, file, current, typeParams, table,
                 top, out, frames, fuel>>

Unused(tracked) ==
  {d \in tracked \ out.used : table.defs[d].file \notin Stdlib}
Warning(code, d) ==
  [code |-> code, name |-> table.defs[d].name, item |-> table.defs[d].item,
   def |-> d]
CheckUnused ==
  /\ pass = "unused"
  /\ pass' = "done"
  /\ out' = [out EXCEPT !.diagnostics = @ \union
       {Warning("unused_variable", d) :
          d \in {v \in Unused(out.vars) :
                   table.defs[v].name \notin Ignored}} \union
       {Warning("unused_import", d) : d \in Unused(out.uses)}]
  /\ UNCHANGED <<program, index, namespace, file, current, typeParams, table,
                 top, frames, fuel>>

\* The root scope, with the names that are bound before any item.
PreludeTable ==
  LET names == SetToSeq(Prelude)
  IN [defs |-> [i \in DOMAIN names |->
                  [name |-> names[i], kind |-> "Constant", item |-> 0,
                   file |-> NoFile, ns |-> None, vis |-> "Public"]],
      scopes |-> <<[bind |-> [n \in Prelude |->
                               CHOOSE i \in DOMAIN names : names[i] = n],
                    parent |-> 0]>>]

Init ==
  /\ program \in Programs
  /\ pass = "declare"
  /\ index = 1
  /\ namespace = None
  /\ file = NoFile
  /\ current = Root
  /\ typeParams = {}
  /\ table = PreludeTable
  /\ top = [order |-> <<>>, mutual |-> <<>>, bodies |-> {}]
  /\ out = [mentions |-> {}, used |-> {}, aliases |-> <<>>, vars |-> {},
            uses |-> {}, diagnostics |-> {}]
  /\ frames = <<>>
  /\ fuel = 0

Next ==
  \/ DeclareItem \/ StartReferences
  \/ BeginItem \/ Return
  \/ PushScope \/ PopScope \/ AddTypeParams \/ RemoveTypeParams
  \/ DeclareNames \/ Use \/ EnterBlock \/ Enter \/ EndOfStep
  \/ Reference \/ TypeReference \/ NameReference \/ Callee \/ Argument
  \/ FinishReferences \/ CheckUnused

Spec == Init /\ [][Next]_vars

-----------------------------------------------------------------------------
(* Properties.                                                             *)

\* The resolver's state has its types: scopes and definitions that are
\* referred to exist, and the parent of a scope comes before it.
TypeOK ==
  /\ pass \in {"declare", "reference", "unused", "done"}
  /\ index \in 1..(Len(Items) + 1)
  /\ current \in DOMAIN table.scopes
  /\ \A s \in DOMAIN table.scopes :
       /\ table.scopes[s].parent < s
       /\ Range(table.scopes[s].bind) \subseteq DOMAIN table.defs
  /\ out.used \union out.vars \union out.uses \subseteq DOMAIN table.defs
  /\ DOMAIN out.aliases \subseteq out.uses
  /\ \A m \in out.mentions : m.to \in 0..Len(table.defs)
  /\ fuel \in 0..program.fuel

\* Every resolve function leaves the scope it was called in, pops the scope
\* it pushed (the debug assertion of pop_scope) and keeps the type parameters
\* of a construct active exactly while it is walked, also when a method in it
\* has parameters of the same name.
Balanced ==
  /\ frames = <<>> => current = Root /\ typeParams = {}
  /\ frames # <<>> =>
       /\ Top.at > Len(Script[Top.form]) => current = Top.entry
       /\ AtStep({"pop"}) => current = Top.scope
  /\ \A i \in DOMAIN frames :
       LET done == {Script[frames[i].form][k] : k \in 1..(frames[i].at - 1)}
       IN "add" \in done /\ "remove" \notin done
            => program.params[frames[i].form] \subseteq typeParams

\* No name is visible twice: along the chain of open scopes only an import by
\* use binds a name again.
NoShadowing ==
  \A i, j \in Chain(table, current) :
    i < j => \A n \in DOMAIN table.scopes[i].bind
                      \intersect DOMAIN table.scopes[j].bind :
               table.defs[table.scopes[j].bind[n]].kind = "Namespace"

\* The definitions of a name in scopes that enclose a mention and that were
\* made before it in the text; the nearest is the latest.
LocalsOf(m) ==
  {d \in 1..m.after : \E s \in Chain(table, m.scope) \ {Root} :
      <<Head(m.name)>> \in DOMAIN table.scopes[s].bind
      /\ table.scopes[s].bind[<<Head(m.name)>>] = d}
IsTopLevel(d) == \E n \in DOMAIN top.order : top.order[n].def = d

\* A name that is not a built-in module's or a type parameter's denotes the
\* latest definition that encloses it, whatever was declared in scopes closed
\* before or later in an open one.  So does a dotted name with its head, but
\* where that is an import, or the name or a part of it is one of the top level.
NamesNearest(m) ==
  LocalsOf(m) # {} /\ <<Head(m.name)>> \notin Modules /\ ~m.generic =>
    \/ m.to = Max(LocalsOf(m))
    \/ Len(m.name) > 1 /\ Max(LocalsOf(m)) \in DOMAIN out.aliases
    \/ \E k \in 2..Len(m.name) :
         SubSeq(m.name, 1, k) \in DOMAIN table.scopes[Root].bind
LexicalNames == \A m \in out.mentions : NamesNearest(m)

\* The namespace an item of the module is in: that of the last namespace item
\* above it, in the same file and with no item of another file in between.
NamespaceAt(i) ==
  LET above == {j \in 1..i : /\ Items[j].kind = "Namespace"
                             /\ \A k \in j..i : Items[k].file = Items[i].file}
  IN IF above = {} THEN None ELSE Items[Max(above)].name

\* A reference reaches a top-level definition only if that was declared by
\* the same item, an earlier one or a mutual block above, and only if it is of
\* the item's namespace, of none, or public and named with its namespace.
ReachesByRule(m) ==
  m.to # 0 /\ IsTopLevel(m.to) =>
    LET d == table.defs[m.to]
    IN /\ d.item <= m.item
       /\ \/ d.ns \in {None, NamespaceAt(m.item)}
          \/ d.vis = "Public" /\ Len(m.name) > 1
TopLevelRules == \A m \in out.mentions : ReachesByRule(m)

\* A name no local has is that of the item's own namespace if it was declared
\* there in time, whatever other namespaces and the global scope declare.
OwnFirst(m) ==
  LET ns == NamespaceAt(m.item)
      own == {n \in DOMAIN top.order :
                /\ ns # None /\ n = ns \o m.name
                /\ top.order[n].item <= m.item}
  IN /\ Len(m.name) = 1 /\ LocalsOf(m) = {} /\ own # {}
     /\ m.name \notin Modules /\ ~m.generic
     => \A n \in own : m.to = top.order[n].def
OwnNamespace == \A m \in out.mentions : OwnFirst(m)

\* Every item that declares a name is bound under it, gives a body to a
\* function of a mutual block, or is reported.
NameAt(i) ==
  IF NamespaceAt(i) = None \/ Items[i].kind \in {"Namespace", "RootAlias"}
  THEN Items[i].name ELSE NamespaceAt(i) \o Items[i].name
Accounted(i) ==
  LET name == NameAt(i)
      earlier == {j \in 1..(i - 1) : Items[j].kind = Items[i].kind
                    /\ Items[j].name = Items[i].name
                    /\ NamespaceAt(j) = NamespaceAt(i)}
      reported == \E g \in out.diagnostics :
                     g.item = i /\ g.name = name /\ g.code \in
                       {"duplicate", "invalid_root_export"}
      bound == name \in DOMAIN top.order /\ top.order[name].item = i
  IN Items[i].kind \notin {"Verify", "Property", "Implement"} =>
       \/ bound \/ reported
       \/ Items[i].kind = "Function" /\ earlier = {}
          /\ name \in DOMAIN top.mutual
       \/ Items[i].kind = "Namespace" /\ earlier # {}
          /\ Items[i].file \in Stdlib
ItemsAccounted ==
  pass # "declare" => \A i \in DOMAIN Items : Accounted(i)

\* What a name of the top level means depends on namespaces, on visibility and
\* on order, and on nothing else, and no item is passed over.
TopLevelNames == TopLevelRules /\ OwnNamespace /\ ItemsAccounted

\* A reference uses the definition it denotes and, in an expression, the import
\* that a dotted name begins with, whatever the name is found to denote.
UsedBy(m, d) ==
  \/ m.to = d
  \/ /\ d \in DOMAIN out.aliases /\ ~m.type /\ Len(m.name) > 1
     /\ LocalsOf(m) # {} /\ Max(LocalsOf(m)) = d

\* An unused-variable or unused-import warning is given for exactly the
\* variables and imports of the program that no reference uses.
UnusedExact ==
  pass = "done" =>
    \A d \in out.vars \union out.uses :
      /\ table.defs[d].file \notin Stdlib
      /\ d \in out.uses \/ table.defs[d].name \notin Ignored
      => ((\E g \in out.diagnostics : "def" \in DOMAIN g /\ g.def = d)
            <=> ~\E m \in out.mentions : UsedBy(m, d))

\* Scopes are entered and left in step with the source, within them a name
\* means the nearest definition and no other, and what no name means is
\* reported.
LexicalScoping ==
  TypeOK /\ Balanced /\ NoShadowing /\ LexicalNames /\ UnusedExact
=============================================================================
