---------------------------- MODULE MCResolver -----------------------------
(***************************************************************************)
(* Small modules for Resolver: their items are fixed, the forms in them    *)
(* are chosen from the menu of each.                                       *)
(***************************************************************************)
EXTENDS Resolver

x == <<"x">>
y == <<"y">>
f == <<"f">>
T == <<"T">>
log == <<"log">>
n == <<"n">>
m == <<"m">>
a == <<"a">>
nx == <<"n", "x">>
mx == <<"m", "x">>
ax == <<"a", "x">>
xy == <<"x", "y">>
xyf == <<"x", "y", "f">>

Segments == {"x", "y", "f", "T", "log", "n", "m", "a", "range", "int64", "_"}
PreludeNames == {<<"range">>}
ModuleNames == {log}
TypeNames == {<<"int64">>}
IgnoredNames == {<<"_">>}

It(kind, name, at, exported) ==
  [kind |-> kind, name |-> name, file |-> at, exported |-> exported,
   allowed |-> TRUE]
Params(of, method) ==
  [Function |-> method, Decl |-> method, Struct |-> of]
Program(items, menu) ==
  [items |-> items, menu |-> menu, locals |-> {x}, paths |-> {},
   types |-> {<<"int64">>, T}, uses |-> {}, params |-> Params({}, {}), fuel |-> 4]
Import(path, bound) == [path |-> path, bound |-> bound]

\* One function: all statements and expressions, two names.
Bodies ==
  [Program(<<It("Function", f, "p", FALSE)>>, Statements \union Expressions \union {"ElseIf", "Arm"})
     EXCEPT !.locals = {x, y}, !.fuel = 3]

\* Items with scopes of their own, one after another, sharing names.
Parts == {"Function", "Decl", "Given", "Capability", "Field", "Handler",
          "Constraint", "Trace"}
Owners ==
  {[Program(<<It(kind, f, "p", FALSE)>>, Parts)
      EXCEPT !.uses = {Import(log, x)}] : kind \in {"Actor", "Property", "TypeAlias", "Enum", "Bitfield",
               "VarDecl", "Interface", "Verify"}}

\* A generic struct whose methods are generic in the same name, which may be
\* that of a local, too.
Generics ==
  {[Program(<<It("Struct", f, "p", FALSE), It("Function", x, "p", FALSE),
              It("Implement", f, "p", FALSE)>>, Parts)
      EXCEPT !.params = Params({param}, {param})] : param \in {T, x}}

\* Two files, a namespace in each, the same names in both, and one outside.
Files ==
  {[Program(<<It("Namespace", n, "p", FALSE), It("Function", x, "p", exported),
              It("Function", f, "p", FALSE),
              It("Function", x, "q", FALSE), It("Namespace", m, "q", FALSE),
              It("Function", x, "q", FALSE), It("Verify", <<>>, "q", FALSE)>>,
            {"Plain"})
      EXCEPT !.locals = {x, f}, !.paths = {nx, ax, mx},
             !.uses = {Import(n, a), Import(m, n)}, !.fuel = 3] : exported \in BOOLEAN}

\* Mutual functions, bodies given once, twice or never, and duplicates.
Mutuals ==
  {[Program(<<It("Verify", <<>>, "p", FALSE), It("Mutual", x, "p", FALSE),
              It(second, f, "p", FALSE), It("Function", x, "p", FALSE),
              It(second, f, "p", FALSE), It("Function", x, "p", FALSE)>>,
            {"Decl", "Trace"})
      EXCEPT !.locals = {x, f}] : second \in {"VarDecl", "Machine"}}

\* A namespace split over files of the standard library, its root alias and
\* one the program may not have, and a machine whose states are no names.
Library ==
  [Program(<<It("Namespace", n, "std", FALSE), It("Machine", f, "std", TRUE),
             It("Namespace", n, "std", FALSE), It("Machine", x, "std", TRUE),
             It("RootAlias", T, "std", FALSE), It("Namespace", n, "p", FALSE),
             It("RootAlias", T, "p", FALSE), It("Property", <<>>, "p", FALSE)>>,
           {"Given", "Call", "Trace"})
     EXCEPT !.locals = {log, y}, !.paths = {nx, <<"log", "y">>},
            !.types = {nx, T, <<"log", "T">>}]

\* Names of more than two segments, a local like the first segment of a
\* namespace, imports of a part of one, and of an import.
Dotted ==
  [Program(<<It("Namespace", xy, "p", FALSE), It("Function", f, "p", FALSE)>>,
           {"Plain", "Local", "GenericCall"})
     EXCEPT !.locals = {x}, !.paths = {xy, xyf, <<"x", "f">>, <<"a", "f">>},
            !.types = {xyf, <<"x", "f">>, <<"a", "y", "f">>},
            !.uses = {Import(xy, x), Import(x, a)}]

SmallPrograms ==
  {Bodies, Library, Dotted} \union Generics \union Owners \union Files \union Mutuals
=============================================================================
