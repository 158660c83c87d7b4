------------------------------ MODULE Commands ------------------------------
(***************************************************************************)
(* The commands of jett (jett_cli, jett_driver) at work on a project whose *)
(* files somebody else may edit meanwhile.  A command reads the entry      *)
(* file, lists the project, reads the other files one by one and runs the  *)
(* phases over what it has read; some then read again, or write.  Every    *)
(* access to the disk is a step.                                           *)
(***************************************************************************)
EXTENDS Queries, Functions

CONSTANTS
  Size,          \* the project's paths are 1..Size, in their sorted order
  Projects,      \* what may be on the disk at first
  Drafts,        \* what an edit may leave in a file, Missing for nothing
  Requests,      \* the commands that may be given
  MaxEdits,      \* bound: edits
  MaxCommands    \* bound: commands

ASSUME PathsNumbered == Size \in Nat /\ Size <= LibraryStart

VARIABLES
  disk,       \* path -> text; path 0 is outside the project
  request,    \* the command under way, or the last one
  stage,      \* what it does next, "idle" if it has ended
  work,       \* what it has read so far
  report,     \* what the last command said
  disturbed,  \* the files were edited since the command was given
  edits, commands

shell == <<disk, request, stage, work, report, disturbed, edits, commands>>
counts == <<edits, commands>>

Paths == 1..Size
Missing == [syntax |-> "missing", tidy |-> TRUE, lines |-> <<>>]
ASSUME ProjectsHoldTexts ==
  /\ Projects \subseteq [{0} \union Paths -> Texts] /\ Drafts \subseteq Texts
  /\ \A r \in Requests : r.path \in {0} \union Paths
\* The tests of a project are run from the working directory, an absolute path.
ASSUME SuiteFromRoot == \A r \in Requests : r.op = "suite" => ~r.bare
Present == {p \in Paths : disk[p] # Missing}
InOrder(paths) ==
  CHOOSE s \in [1..Cardinality(paths) -> paths] :
    \A i, j \in DOMAIN s : i < j => s[i] < s[j]
Listing == InOrder(Present)

\* A file's id is its place in the listing, the entry's place included.
Numbered(paths) == [n \in DOMAIN paths |-> [path |-> paths[n], file |-> n]]

Fresh == [entry |-> Missing, path |-> 0, todo |-> <<>>, modules |-> <<>>,
          errors |-> {}, checked |-> <<>>, suite |-> <<>>, results |-> <<>>,
          lines |-> <<>>, manifest |-> <<>>, syntax |-> "fine"]
Trouble(code) == [code |-> code, file |-> Entry, line |-> 0]

ThenDo(s, w) ==
  /\ stage' = s /\ work' = w
  /\ UNCHANGED <<disk, request, report, disturbed, counts>>

Said(r) ==
  /\ report' = [r EXCEPT !.op = request.op]
  /\ stage' = "idle" /\ work' = Fresh
  /\ UNCHANGED <<request, disturbed, counts>>
Answer(r) == Said(r) /\ UNCHANGED disk
NoReport == [op |-> "none", errors |-> {}, answer |-> None, results |-> <<>>,
             manifest |-> <<>>, ran |-> None]
Refused(errors) == Answer([NoReport EXCEPT !.errors = errors])
Result(x) == [NoReport EXCEPT !.answer = x]

-----------------------------------------------------------------------------
(* Giving a command, and reading what it is about.                         *)

Start ==
  /\ stage = "idle" /\ commands < MaxCommands     \* bound
  /\ \E r \in Requests :
       /\ request' = r
       /\ stage' = CASE r.op \in {"namespaces", "signature"} -> "list"
                   [] r.op = "bundle" -> "inputs"
                   [] r.op = "suite" -> "collect"
                   [] OTHER -> "entry"
       /\ work' = [Fresh EXCEPT !.path = r.path]
  /\ report' = NoReport /\ disturbed' = FALSE /\ commands' = commands + 1
  /\ UNCHANGED <<disk, edits>>

Formats == {"format", "format_check"}
Text == disk[work.path]
ReadEntry ==
  /\ stage = "entry" /\ request.op \notin Formats
  /\ \/ Text = Missing /\ Refused({Trouble("read")})
     \/ Text # Missing /\ ~Parses(Text) /\ Refused({ParseError})
     \/ /\ Parses(Text) /\ request.op = "symbols"
        /\ Answer(Result(QueryFileSymbols(Text)))
     \/ /\ Parses(Text) /\ request.op # "symbols"
        /\ ThenDo("list", [work EXCEPT !.entry = Text])

\* The root of a project found from a bare relative path is the empty path,
\* which cannot be listed.
ListProject ==
  /\ stage = "list"
  /\ ThenDo("load",
       IF request.bare THEN [work EXCEPT !.errors = {Trouble("scan")}]
       ELSE [work EXCEPT !.todo = Numbered(Listing)])

SkipsEntry == request.op \notin {"namespaces", "signature"}
Upcoming == Head(work.todo)
Rest == [work EXCEPT !.todo = Tail(@)]
Loaded(path) ==
  [work EXCEPT !.todo = Tail(@),
     !.modules = Append(@, [file |-> Upcoming.file, path |-> path,
                            text |-> disk[path]])]
LoadSibling ==
  /\ stage = "load" /\ work.todo # <<>>
  /\ LET path == Upcoming.path
         own == SkipsEntry /\ path = work.path
         bad(code) == [Rest EXCEPT !.errors = @ \union
                         {[code |-> code, file |-> Upcoming.file, line |-> 0]}]
     IN ThenDo("load",
          CASE own -> Rest
          [] ~own /\ disk[path] = Missing -> bad("read")
          [] ~own /\ disk[path] # Missing /\ ~Parses(disk[path]) -> bad("parse")
          [] OTHER -> Loaded(path))

ReadAll == stage = "load" /\ work.todo = <<>>
Support == LibraryModules \o work.modules
EntryModule(text) == [file |-> Entry, text |-> text]
Merged == Append(Support, EntryModule(work.entry))

SupportFails ==
  /\ ReadAll /\ work.errors # {}
  /\ Refused(work.errors)

-----------------------------------------------------------------------------
(* build, and the checking half of run.                                    *)

Build ==
  /\ ReadAll /\ work.errors = {} /\ request.op \in {"build", "run"}
  /\ LET errors == Errors(Placed(Merged))
     IN \/ errors # {} /\ Refused(errors)
        \/ errors = {} /\ request.op = "build" /\ Answer(Result(None))
        \/ /\ errors = {} /\ request.op = "run"
           /\ ThenDo("reread", [work EXCEPT !.checked = Merged,
                                            !.modules = <<>>])

\* run reads everything again.  A file that cannot be parsed any more is
\* taken as far as the parser got, which its lines stand for.
MainOf(lines) ==
  {n \in DOMAIN lines : lines[n].kind = "function" /\ lines[n].name = "main"}
RereadEntry ==
  /\ stage = "reread" /\ request.op = "run"
  /\ LET main == MainOf(Text.lines)
         type == Text.lines[Min(main)].type
     IN \/ Text = Missing /\ Refused({Trouble("read")})
        \/ Text # Missing /\ main = {} /\ Refused({Trouble("no_main")})
        \/ /\ Text # Missing /\ main # {}
           /\ \/ type \notin Capabilities \union {Nowhere}
                 /\ Refused({Trouble("main_argument")})
              \/ /\ type \in Capabilities \union {Nowhere}
                 /\ ThenDo("relist", [work EXCEPT !.entry = Text])

\* Mutant: the entry does not count.
RelistOthers ==
  /\ stage = "relist"
  /\ ThenDo("reload", [work EXCEPT !.todo = Numbered(
       InOrder(Present \ {work.path}))])
Relist ==
  /\ stage = "relist"
  /\ ThenDo("reload", [work EXCEPT !.todo = Numbered(Listing)])

Reload ==
  /\ stage = "reload" /\ work.todo # <<>>
  /\ LET path == Upcoming.path
     IN ThenDo("reload", IF path = work.path \/ ~Parses(disk[path]) THEN Rest
                         ELSE Loaded(path))

\* What the interpreter calls: the name in the caller's namespace before the
\* name itself, and of several functions the one registered last.
Called(P, i, name) ==
  LET named(n) == {k \in DOMAIN P : /\ P[k].item.kind = "function"
                                    /\ FullName(P[k]) = n}
      own == IF name[1] = "" THEN named(<<P[i].ns, name[2]>>) ELSE {}
      found == IF own # {} THEN own ELSE named(name)
  IN IF found = {} THEN 0 ELSE Max(found)

\* The types of expressions go by spans: file ids and places.
TypesFit(checked, registered) ==
  \A m \in Range(registered), c \in Range(checked) :
    m.file = c.file => m.text = c.text

Execute ==
  /\ stage = "reload" /\ work.todo = <<>>
  /\ LET P == Placed(Merged)
         main == Min({i \in DOMAIN P : P[i].file = Entry
                                       /\ P[i].line \in MainOf(work.entry.lines)})
         calls == P[main].item.calls
         callee == IF calls = Nowhere THEN 0 ELSE Called(P, main, calls)
     IN \/ /\ calls \notin Prelude \union {Nowhere} /\ callee = 0
           /\ Refused({Trouble("runtime")})
        \/ /\ calls \in Prelude \union {Nowhere} \/ callee # 0
           /\ Answer([Result([out |-> IF callee = 0 THEN 0
                                      ELSE P[callee].item.value])
                EXCEPT !.ran = [checked |-> work.checked,
                                registered |-> Merged]])

-----------------------------------------------------------------------------
(* test, of one file or of each file of the project in turn.               *)

Collect ==
  /\ stage = "collect"
  /\ \/ Listing = <<>> /\ Refused({Trouble("no_files")})
     \/ /\ Listing # <<>>
        /\ ThenDo("suite", [work EXCEPT !.suite = Listing])

NextFile ==
  /\ stage = "suite" /\ work.suite # <<>>
  /\ ThenDo("entry", [Fresh EXCEPT !.path = Head(work.suite),
                                   !.suite = Tail(work.suite),
                                   !.results = work.results])

SuiteEnds ==
  /\ stage = "suite" /\ work.suite = <<>>
  /\ Answer([NoReport EXCEPT !.results = work.results])

TestFile ==
  /\ ReadAll /\ work.errors = {} /\ request.op \in {"test", "suite"}
  /\ LET P == Placed(Append(WithoutTests(Support), EntryModule(work.entry)))
         static == StaticErrors(P)
         results == Append(work.results,
           [path |-> work.path, total |-> Cardinality(Verifies(P)),
            passed |-> Cardinality({i \in Verifies(P) : Passes(P, i)})])
     IN \/ static # {} /\ Refused(static)
        \/ /\ static = {} /\ request.op = "test"
           /\ Answer([NoReport EXCEPT !.results = results])
        \/ /\ static = {} /\ request.op = "suite"
           /\ ThenDo("suite", [work EXCEPT !.results = results])

-----------------------------------------------------------------------------
(* query.                                                                  *)

Now == [m \in {LibraryStart + n : n \in DOMAIN Library} \union Paths |->
          IF m > LibraryStart THEN Library[m - LibraryStart]
          ELSE LET sources == {n \in DOMAIN work.modules :
                                 work.modules[n].file = m}
               IN IF sources = {} THEN Missing
                  ELSE disk[work.modules[Min(sources)].path]]

QueryRegistry ==
  /\ ReadAll /\ work.errors = {}
  /\ \/ /\ request.op = "namespaces"
        /\ Answer(Result(QueryNamespaces(Support, Now)))
     \/ /\ request.op = "signature"
        /\ Answer(Result(QuerySignature(Support, request.name)))
     \/ /\ request.op = "complete"
        /\ Answer(Result(QueryCompletions(Merged, Now, request.name)))

QueryPosition ==
  /\ ReadAll /\ work.errors = {}
  /\ request.op \in {"type", "definition", "references"}
  /\ \/ /\ request.at.line \notin DOMAIN work.entry.lines
        /\ Refused({Trouble("outside")})
     \/ /\ request.at.line \in DOMAIN work.entry.lines
        /\ LET errors == IF request.op = "type" THEN StaticErrors(Placed(Merged))
                         ELSE ResolveErrors(Placed(Merged))
           IN \/ errors # {} /\ Refused(errors)
              \/ errors = {} /\ Answer(Result(
                   CASE request.op = "type" -> QueryTypeAt(Merged, request.at)
                   [] request.op = "definition" ->
                        QueryDefinition(Merged, Now, request.at)
                   [] OTHER -> QueryReferences(Merged, Now, request.at)))

-----------------------------------------------------------------------------
(* bundle: every file of the project but the output, one after another.    *)

Comment == [kind |-> "comment", name |-> "", exported |-> FALSE,
            type |-> Nowhere, calls |-> Nowhere, value |-> 0,
            mistyped |-> FALSE]

Inputs ==
  /\ stage = "inputs"
  /\ LET files == InOrder(Present \ {request.path})
     IN \/ files = <<>> /\ Refused({Trouble("no_files")})
        \/ /\ files # <<>>
           /\ ThenDo("gather", [work EXCEPT !.todo = Numbered(files),
                                !.lines = <<Comment, Comment, Comment>>])

Worse(s, t) == IF "unlexed" \in {s, t} THEN "unlexed"
               ELSE IF "unparsed" \in {s, t} THEN "unparsed" ELSE "fine"
Body(text) == IF text.lines = <<>> THEN <<Comment>> ELSE text.lines
Gather ==
  /\ stage = "gather" /\ work.todo # <<>>
  /\ LET text == disk[Upcoming.path]
         body == Body(text)
         first == Len(work.lines) + 2
     IN \/ text = Missing /\ Refused({Trouble("read")})
        \/ /\ text # Missing
           /\ ThenDo("gather", [Rest EXCEPT
                !.lines = @ \o <<Comment>> \o body \o <<Comment>>,
                !.syntax = Worse(@, text.syntax),
                !.manifest = Append(@, [path |-> Upcoming.path, first |-> first,
                                        last |-> first + Len(body) - 1])])

Bundled(w) == [syntax |-> w.syntax, tidy |-> FALSE, lines |-> w.lines]
\* Mutant: nothing is built.
ValidateNothing ==
  /\ stage = "gather" /\ work.todo = <<>>
  /\ ThenDo("write", work)
Validate ==
  /\ stage = "gather" /\ work.todo = <<>>
  /\ LET errors == BuildSource(Bundled(work))
     IN \/ errors # {} /\ Refused(errors)
        \/ errors = {} /\ ThenDo("write", work)

WriteBundle ==
  /\ stage = "write" /\ request.op = "bundle"
  /\ disk' = [disk EXCEPT ![request.path] = Bundled(work)]
  /\ Said([NoReport EXCEPT !.manifest = work.manifest])

-----------------------------------------------------------------------------
(* format: reads to see the errors, reads to see what would change, reads  *)
(* to write.  What the formatter does to the layout is "tidy".             *)

Formatted(text) == [text EXCEPT !.tidy = TRUE]
Empty == [Missing EXCEPT !.syntax = "fine"]
Lexes(text) == text.syntax \notin {"unlexed", "missing"}
LexErrors(text) ==
  {Trouble(IF text = Missing THEN "read" ELSE "lex")}

FormatRead ==
  /\ stage = "entry" /\ request.op \in Formats
  /\ \/ ~Lexes(Text) /\ Refused(LexErrors(Text))
     \/ Lexes(Text) /\ ThenDo("original", [work EXCEPT !.entry = Formatted(Text)])

FormatCompare ==
  /\ stage = "original"
  /\ LET original == IF Text = Missing THEN Empty ELSE Text
         changed == Result([changed |-> original # work.entry])
     IN \/ request.op = "format_check" /\ Answer(changed)
        \/ request.op = "format" /\ ThenDo("reread", work)

FormatReread ==
  /\ stage = "reread" /\ request.op = "format"
  /\ \/ ~Lexes(Text) /\ Refused(LexErrors(Text))
     \/ Lexes(Text) /\ ThenDo("write", [work EXCEPT !.entry = Formatted(Text)])

WriteFormatted ==
  /\ stage = "write" /\ request.op = "format"
  /\ disk' = [disk EXCEPT ![request.path] = work.entry]
  /\ Said(Result(None))

-----------------------------------------------------------------------------
\* Somebody edits, adds or deletes a file, while a command may still see it.
Edit ==
  /\ edits < MaxEdits     \* bound
  /\ (stage # "idle" \/ commands < MaxCommands)
  /\ \E p \in Paths, text \in Drafts :
       /\ text # disk[p]
       /\ disk' = [disk EXCEPT ![p] = text]
  /\ disturbed' = TRUE /\ edits' = edits + 1
  /\ UNCHANGED <<request, stage, work, report, commands>>

\* The exit status of the process.
WantsFormatting(r) == r.op = "format_check" /\ r.answer.changed
BlocksFail(r) ==
  \E n \in DOMAIN r.results : r.results[n].passed < r.results[n].total
ExitStatus(r) ==
  IF r.errors # {} \/ BlocksFail(r) \/ (r.errors = {} /\ WantsFormatting(r))
  THEN 1 ELSE 0

ShellInit ==
  /\ disk \in Projects
  /\ request = [op |-> "none", path |-> 0, bare |-> FALSE]
  /\ stage = "idle" /\ work = Fresh /\ report = NoReport
  /\ disturbed = FALSE /\ edits = 0 /\ commands = 0

Work ==
  \/ ReadEntry \/ ListProject \/ LoadSibling \/ SupportFails
  \/ Build \/ RereadEntry \/ Relist \/ Reload \/ Execute
  \/ Collect \/ NextFile \/ SuiteEnds \/ TestFile
  \/ QueryRegistry \/ QueryPosition
  \/ Inputs \/ Gather \/ Validate \/ WriteBundle
  \/ FormatRead \/ FormatCompare \/ FormatReread \/ WriteFormatted

ShellNext == Start \/ Work \/ Edit
=============================================================================
