------------------------------- MODULE Sources -------------------------------
(***************************************************************************)
(* What the tools of jett_driver do with texts: put the modules of several *)
(* files together and run the phases over them.  A text is a sequence of   *)
(* lines, one for each top-level item or comment; the place of anything is *)
(* its file and line.  The phases are reduced to what an item says to the  *)
(* others: the name it declares, the type it mentions, the one function    *)
(* it calls and the value it returns or expects.  Resolver, Interpreter    *)
(* and PropertyBlocks have the phases themselves.                          *)
(*                                                                         *)
(* A name is a pair of a namespace ("" for none) and a leaf.               *)
(***************************************************************************)
EXTENDS Integers, Sequences, FiniteSets, FiniteSetsExt, SequencesExt

CONSTANTS
  Words,         \* the words in names, "" for none
  Library,       \* the texts of the standard library, in the order of paths
  Prelude,       \* names bound before any item
  BuiltinTypes,  \* type names that are never looked up
  Capabilities   \* those of them that main may take

ASSUME NoneIsWord == "" \in Words
LibraryStart == 100    \* STDLIB_FILE_ID_START, above any project file's id

Nowhere == <<"", "">>        \* where an item calls nothing, or has no type
Names == Words \X Words
Lines == [kind : {"comment", "namespace", "function", "struct", "variable",
                  "verify"},
          name : Words, exported : BOOLEAN, type : Names, calls : Names,
          value : Int, mistyped : BOOLEAN]
Texts == [syntax : {"fine", "unparsed", "unlexed", "missing"},
          tidy : BOOLEAN, lines : Seq(Lines)]
Parses(text) == text.syntax = "fine"
ASSUME LibraryParses ==
  Library \in Seq(Texts) /\ \A n \in DOMAIN Library : Parses(Library[n])

-----------------------------------------------------------------------------
(* Modules put together.  A file starts outside all namespaces.            *)

LibraryModules ==
  [n \in DOMAIN Library |-> [file |-> LibraryStart + n, text |-> Library[n]]]

NamespaceAt(lines, n) ==
  LET above == {k \in 1..n : lines[k].kind = "namespace"}
  IN IF above = {} THEN "" ELSE lines[Max(above)].name

PlacedLines(module) ==
  LET lines == module.text.lines
  IN [n \in DOMAIN lines |-> [file |-> module.file, line |-> n,
                              ns |-> NamespaceAt(lines, n), item |-> lines[n]]]

Placed(modules) ==
  LET upto[n \in 0..Len(modules)] ==
        IF n = 0 THEN <<>> ELSE upto[n - 1] \o PlacedLines(modules[n])
  IN upto[Len(modules)]

InLibrary(place) == place.file > LibraryStart
At(place) == [file |-> place.file, line |-> place.line]

Declaring == {"namespace", "function", "struct", "variable"}
Declares(place) == place.item.kind \in Declaring
Owner(place) == IF place.item.kind = "namespace" THEN "" ELSE place.ns
FullName(place) == <<Owner(place), place.item.name>>
IsPublic(place) == Owner(place) = "" \/ place.item.exported

-----------------------------------------------------------------------------
(* Resolution: the first declaration of a name is its definition.          *)

Declarations(P, name) ==
  {i \in DOMAIN P : Declares(P[i]) /\ FullName(P[i]) = name}
Definition(P, name) ==
  LET found == Declarations(P, name) IN IF found = {} THEN 0 ELSE Min(found)

Duplicates(P) ==
  {i \in DOMAIN P :
     /\ Declares(P[i])
     /\ \/ FullName(P[i]) \in Prelude
        \/ LET first == Definition(P, FullName(P[i]))
           IN /\ first # i
              /\ ~ \A k \in {first, i} :
                     P[k].item.kind = "namespace" /\ InLibrary(P[k])}

\* A plain name that only one other namespace has: the error names it.
OnlyElsewhere(P, ns, leaf) ==
  LET found == {i \in DOMAIN P : /\ Declares(P[i])
                                 /\ Owner(P[i]) \notin {"", ns}
                                 /\ P[i].item.name = leaf}
  IN IF Cardinality(found) = 1 THEN Max(found) ELSE 0

Recorded(P, i, name, d) ==
  [code |-> IF ~IsPublic(P[d]) /\ Owner(P[d]) # P[i].ns THEN "private"
            ELSE IF name[1] = "" /\ Owner(P[d]) \notin {"", P[i].ns}
                 THEN "qualifier_required"
            ELSE IF d > i THEN "forward_reference" ELSE "found",
   to |-> d]

\* What the item at i means by a name it writes: its own namespace's before
\* one of the prelude or of another module.
Meant(P, i, name) ==
  LET inside == <<P[i].ns, name[2]>>
      own == IF inside \in Prelude THEN 0 ELSE Definition(P, inside)
      named == Definition(P, name)
      elsewhere == OnlyElsewhere(P, P[i].ns, name[2])
      prefix == Definition(P, <<"", name[1]>>)
      plain == name[1] = ""
      unknown == [code |-> "unknown", to |-> 0]
      nearer == plain /\ own # 0
      known == nearer \/ name \in Prelude \/ named # 0
  IN CASE nearer -> Recorded(P, i, inside, own)
     [] ~nearer /\ name \in Prelude -> [code |-> "found", to |-> 0]
     [] ~nearer /\ name \notin Prelude /\ named # 0 -> Recorded(P, i, name, named)
     [] ~known /\ plain /\ elsewhere # 0 -> Recorded(P, i, name, elsewhere)
     [] ~known /\ ~plain /\ prefix # 0 ->
          [unknown EXCEPT !.code =
             IF prefix > i THEN "forward_reference" ELSE @]
     [] OTHER -> [unknown EXCEPT !.code = "undefined"]

-----------------------------------------------------------------------------
(* The phases.  Each reports its errors; the next runs if there are none.  *)

Error(place, code) == [code |-> code, file |-> place.file, line |-> place.line]

Uses(place) ==
  (IF place.item.calls = Nowhere THEN {}
   ELSE {[part |-> "calls", name |-> place.item.calls]})
  \union
  (IF place.item.type \in BuiltinTypes \union {Nowhere} THEN {}
   ELSE {[part |-> "type", name |-> place.item.type]})

\* A name no type is declared under is left to the type checker.
LeftToChecker(use, meant) ==
  \/ meant.code = "unknown"
  \/ meant.code = "undefined" /\ use.part = "type" /\ use.name[1] = ""

UseErrors(P, i, checking) ==
  {Error(P[i], Meant(P, i, use.name).code) :
     use \in {u \in Uses(P[i]) :
                LET meant == Meant(P, i, u.name)
                IN /\ meant.code # "found"
                   /\ LeftToChecker(u, meant) = checking}}

ResolveErrors(P) ==
  {Error(P[i], "duplicate") : i \in Duplicates(P)}
  \union UNION {UseErrors(P, i, FALSE) : i \in DOMAIN P}

CheckErrors(P) ==
  {Error(P[i], "mistyped") : i \in {k \in DOMAIN P : P[k].item.mistyped}}
  \union UNION {UseErrors(P, i, TRUE) : i \in DOMAIN P}

\* A verify block expects a value of the function it calls.
Verifies(P) == {i \in DOMAIN P : P[i].item.kind = "verify"}
Passes(P, i) ==
  LET callee == Meant(P, i, P[i].item.calls).to
  IN /\ callee # 0 /\ P[callee].item.kind = "function"
     /\ P[callee].item.value = P[i].item.value
VerifyErrors(P) ==
  {Error(P[i], "verify_failed") : i \in {k \in Verifies(P) : ~Passes(P, k)}}

StaticErrors(P) ==
  LET resolving == ResolveErrors(P)
  IN IF resolving # {} THEN resolving ELSE CheckErrors(P)
Errors(P) ==
  LET static == StaticErrors(P)
  IN IF static # {} THEN static ELSE VerifyErrors(P)

\* One text on its own, with the standard library before it.
Alone(text) == LibraryModules \o <<[file |-> 0, text |-> text]>>
ParseError == [code |-> "parse", file |-> 0, line |-> 0]
BuildSource(text) ==
  IF ~Parses(text) THEN {ParseError} ELSE Errors(Placed(Alone(text)))

\* Mutant: the blocks of the other files stay.
WithTests(modules) == modules

\* Support modules without their verify and property blocks.
WithoutTests(modules) ==
  [n \in DOMAIN modules |->
     [modules[n] EXCEPT !.text.lines =
        [k \in DOMAIN @ |->
           IF @[k].kind = "verify" THEN [@[k] EXCEPT !.kind = "comment",
                                                     !.calls = Nowhere,
                                                     !.type = Nowhere,
                                                     !.mistyped = FALSE]
           ELSE @[k]]]]
=============================================================================
