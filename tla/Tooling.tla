------------------------------- MODULE Tooling -------------------------------
(***************************************************************************)
(* The tools around the compiler: the commands of the shell and the        *)
(* language server.  They share the standard library, which stands still,  *)
(* and nothing else (the server reads no file of the project), so a        *)
(* behaviour is of one or of the other, of the server on an empty disk.    *)
(***************************************************************************)
EXTENDS Commands, LanguageServer

vars == <<shell, server>>

Init == ShellInit /\ ServerInit
Next ==
  \/ messages = 0 /\ ShellNext /\ UNCHANGED server
  \/ /\ commands = 0 /\ edits = 0 /\ Range(disk) = {Missing}
     /\ ServerNext /\ UNCHANGED shell

Spec == Init /\ [][Next]_vars

-----------------------------------------------------------------------------
(* What a build of a file, given now, would read.                          *)

Numbers(p) == CHOOSE n \in DOMAIN Listing : Listing[n] = p
Siblings(but) ==
  LET paths == InOrder(Present \ {but})
  IN [n \in DOMAIN paths |-> [file |-> Numbers(paths[n]),
                              text |-> disk[paths[n]]]]
ModulesOf(p) == LibraryModules \o Append(Siblings(p), EntryModule(disk[p]))
Sound == \A p \in Range(Listing) : Parses(disk[p])
Builds(p) == Sound /\ Errors(Placed(ModulesOf(p))) = {}

Reported(op) == stage = "idle" /\ report.op = op /\ ~disturbed
Agreed(op) == Reported(op) /\ report.errors = {}

\* If nobody edits the project while run is at work, it runs the program it
\* has checked: every module under the file id its types are recorded for,
\* and main's call reaches the function the resolver found for it.
RunsWhatWasChecked ==
  Agreed("run") =>
    LET checked == Placed(report.ran.checked)
        main == Min({i \in DOMAIN checked :
                       /\ checked[i].file = Entry
                       /\ checked[i].item.kind = "function"
                       /\ checked[i].item.name = "main"})
        calls == checked[main].item.calls
        callee == IF calls = Nowhere THEN 0 ELSE Meant(checked, main, calls).to
    IN /\ TypesFit(report.ran.checked, report.ran.registered)
       /\ {m.file : m \in Range(report.ran.checked)} =
            {m.file : m \in Range(report.ran.registered)}
       /\ callee = 0 => report.answer.out = 0
       /\ callee # 0 /\ checked[callee].item.kind = "function" =>
            report.answer.out = checked[callee].item.value

\* A build of the file fails, if at all, over tests of other files: over one
\* that uses what only comes after it here, or over the library's own.
BuildsBarTests(p) ==
  LET P == Placed(ModulesOf(p))
  IN \A e \in Errors(P) : \E i \in Verifies(P) :
       /\ At(P[i]) = [file |-> e.file, line |-> e.line] /\ P[i].file # Entry
       /\ InLibrary(P[i]) \/ e.code = "forward_reference"

\* A test of the project counts every block of every file once, each with
\* its own file.  It succeeds if each file builds; and if it succeeds, nothing
\* but tests of other files keeps a file from being built.
Blocks(p) == {n \in DOMAIN disk[p].lines : disk[p].lines[n].kind = "verify"}
TestsMatchBuilds ==
  /\ Agreed("suite") =>
       /\ [n \in DOMAIN report.results |-> report.results[n].path] = Listing
       /\ \A n \in DOMAIN report.results :
            report.results[n].total = Cardinality(Blocks(report.results[n].path))
  /\ Reported("suite") =>
       /\ Listing # <<>> /\ (\A p \in Range(Listing) : Builds(p))
            => ExitStatus(report) = 0
       /\ ExitStatus(report) = 0
            => /\ Listing # <<>> /\ Sound
               /\ \A p \in Range(Listing) : BuildsBarTests(p)

\* A command writes only a bundle that builds on its own, at its output, with
\* each of the other files where the manifest says; or a file it has
\* formatted, in which no item has changed.
BundleHolds(out, manifest) ==
  /\ BuildSource(disk'[out]) = {}
  /\ ~disturbed =>
       /\ [n \in DOMAIN manifest |-> manifest[n].path] = InOrder(Present \ {out})
       /\ \A n \in DOMAIN manifest :
            SubSeq(disk'[out].lines, manifest[n].first, manifest[n].last)
              = Body(disk[manifest[n].path])
WritesOnlyValid ==
  [][disk' # disk /\ edits' = edits =>
       /\ \A p \in DOMAIN disk : p # request.path => disk'[p] = disk[p]
       /\ \/ request.op = "bundle"
             /\ BundleHolds(request.path, report'.manifest)
          \/ /\ request.op = "format"
             /\ ~disturbed =>
                  disk'[request.path].lines = disk[request.path].lines]_vars

-----------------------------------------------------------------------------
(* The answers to queries, which passes of their own compute, fit each     *)
(* other and what the compiler makes of the same files.                    *)

\* What is offered for completion, written out on a new last line of the
\* file, means the definition that was offered, if no own name hides it.
CompletionsUsable ==
  Agreed("complete") =>
    LET modules == ModulesOf(request.path)
        P == Placed(modules)
        ns == NamespaceAt(disk[request.path].lines,
                          Len(disk[request.path].lines))
        written(name) == Append(P,
          [file |-> Entry, line |-> Len(disk[request.path].lines) + 1,
           ns |-> ns, item |-> [Comment EXCEPT !.kind = "function",
                                               !.calls = name]])
    IN ResolveErrors(P) = {} =>
         \A c \in report.answer :
           LET meant == Meant(written(c.name), Len(P) + 1, c.name)
           IN \/ meant.code = "found"
                 /\ c.place = IF meant.to = 0 THEN BuiltIn ELSE At(P[meant.to])
              \/ c.name[1] = "" /\ Definition(P, <<ns, c.name[2]>>) # 0

\* A signature shows the type the checker has for the call, but where it
\* qualifies a type that no namespace owns.
SignaturesMatch ==
  Agreed("type") /\ report.answer # None =>
    LET P == Placed(ModulesOf(request.path))
        use == disk[request.path].lines[request.at.line].calls
        d == Meant(P, Position(P, request.at), use).to
        signature == QuerySignature(LibraryModules \o Siblings(0), FullName(P[d]))
    IN \/ ~IsPublic(P[d])
       \/ P[d].ns # "" /\ report.answer.type[1] = ""
       \/ signature # None /\ signature.type = report.answer.type

\* The public symbols of a file are those the registry has from it.
SymbolsListed ==
  Agreed("symbols") =>
    LET modules == LibraryModules \o Siblings(0)
        registry == QueryNamespaces(modules,
          [m \in {module.file : module \in Range(modules)} |->
             TextOf(modules, m)])
    IN Sound /\ Duplicates(Placed(modules)) = {} =>
         {<<s.name, s.line>> : s \in {t \in report.answer : t.public}} =
         {<<r.name, r.place.line>> :
            r \in {t \in registry :
                     t.place.file = Numbers(request.path)}}

\* What the editor is told of a text without errors is what query says of a
\* file with that text, and a completion never names what cannot be reached.
EditorAgrees ==
  LET text == answer.text
      P == Placed(Alone(text))
  IN /\ answer.op = "hover" /\ Parses(text) /\ StaticErrors(P) = {} =>
          answer.result = QueryTypeAt(Alone(text), answer.at)
     /\ answer.op = "goto" /\ answer.result # None =>
          LET i == Position(P, answer.at)
          IN Target(P, i, NameAt(P, answer.at)) =
               [name |-> FullName(CHOOSE place \in Range(P) :
                  place.file = Entry /\ place.line = answer.result.line)]
     /\ answer.op = "completion" /\ Parses(text) /\ ResolveErrors(P) = {} =>
          \A name \in answer.result :
            \/ name \in Prelude
            \/ Meant(P, Position(P, answer.at), name).code
                 \in {"found", "forward_reference"}

\* A definition is found where a file declares that name; and if it and all
\* that references finds for it were given another name, every use of the
\* project would mean what it did.
DefinitionDeclares ==
  Agreed("definition") /\ report.answer # None =>
    LET name == disk[request.path].lines[request.at.line][request.at.part]
        place == report.answer.place
        text == CASE place.file = Entry -> disk[request.path]
                [] InLibrary(place) -> Library[place.file - LibraryStart]
                [] OTHER -> disk[Listing[place.file]]
    IN IF place = BuiltIn THEN name \in Prelude
       ELSE /\ text.lines[place.line].kind \in Declaring
            /\ text.lines[place.line].name = name[2]

ReferencesComplete ==
  Agreed("references") /\ report.answer # {} =>
    LET P == Placed(ModulesOf(request.path))
        d == ResolvedAt(P, request.at).to
        renamed == [i \in DOMAIN P |->
          LET to(name, part) ==
                IF [place |-> At(P[i]), part |-> part] \in report.answer
                THEN <<name[1], "renamed">> ELSE name
          IN [P[i] EXCEPT !.item.name = IF i = d THEN "renamed" ELSE @,
                          !.item.calls = to(@, "calls"),
                          !.item.type = to(@, "type")]]
    IN d # 0 => \A i \in DOMAIN P : \A use \in Uses(P[i]) :
         Meant(renamed, i, renamed[i].item[use.part]) = Meant(P, i, use.name)

QueriesAgree ==
  /\ CompletionsUsable /\ SignaturesMatch /\ SymbolsListed
  /\ DefinitionDeclares /\ ReferencesComplete /\ EditorAgrees

-----------------------------------------------------------------------------
\* An open document none of whose handlers are under way, and none of which
\* ever were at the same time, is shown with the diagnostics of the text that
\* the client has there.
ShownIsCurrent ==
  \A uri \in Documents :
    opened[uri] # Closed /\ Handling(uri) = {} /\ uri \notin overlap =>
      shown[uri] = Diagnosed[opened[uri]]

\* docs/design.md: definitions from any file in the project are visible to
\* all other files.
SiblingsVisible ==
  Reported("build") /\ Sound =>
    LET P == Placed(ModulesOf(request.path))
    IN \A i \in DOMAIN P : \A use \in Uses(P[i]) :
         LET meant == Meant(P, i, use.name)
         IN ~ /\ [code |-> "forward_reference", file |-> P[i].file,
                  line |-> P[i].line] \in report.errors
              /\ meant.to # 0 /\ P[meant.to].file # P[i].file
=============================================================================
