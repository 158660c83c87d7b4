------------------------------ MODULE MCTooling ------------------------------
(***************************************************************************)
(* Small projects of up to three files for the tools: independent files, a *)
(* file that uses an earlier one, a later one, or one outside namespaces,  *)
(* failing tests, errors of each phase; and edits that bring each of those *)
(* about while a command is at work.                                       *)
(***************************************************************************)
EXTENDS Tooling

MCWords == {"", "text", "trim", "pad", "print", "int64", "Stdout", "User", "api",
            "login", "secret", "app", "main", "check", "help", "apart", "peek",
            "v"}
Int64 == <<"", "int64">>
Stdout == <<"", "Stdout">>
Line(kind, name) == [Comment EXCEPT !.kind = kind, !.name = name]
Space(name) == Line("namespace", name)
Fn(name, type, calls, value) ==
  [Line("function", name) EXCEPT !.type = type, !.calls = calls,
                                 !.value = value]
Export(line) == [line EXCEPT !.exported = TRUE]
Check(callee, value) ==
  [Line("verify", "check") EXCEPT !.calls = callee, !.value = value]
File(lines) == [syntax |-> "fine", tidy |-> FALSE, lines |-> lines]

MCLibrary ==
  <<File(<<Space("text"), Export(Fn("trim", Int64, Nowhere, 1))>>),
    File(<<Space("text"), Export(Fn("pad", Int64, <<"", "trim">>, 1)),
           Check(<<"", "pad">>, 1)>>)>>
MCPrelude == {<<"", "print">>}
MCBuiltinTypes == {Int64, Stdout}
MCCapabilities == {Stdout}
MCBegins == {<<"lo", "login">>, <<"ap", "api">>, <<"ap", "app">>,
             <<"he", "help">>}

Api == File(<<Space("api"), Export(Line("struct", "User")),
              Export(Fn("login", <<"", "User">>, <<"text", "trim">>, 2)),
              Fn("secret", Int64, <<"", "login">>, 4)>>)
App == File(<<Space("app"), Fn("main", Stdout, <<"api", "login">>, 0),
              Check(<<"api", "login">>, 2)>>)
Help == File(<<Comment, Fn("help", Int64, <<"", "print">>, 3),
               Check(<<"", "help">>, 3)>>)
Caller == File(<<Space("app"), Fn("main", Nowhere, <<"", "help">>, 0)>>)
Apart == File(<<Space("apart"), Fn("help", Int64, Nowhere, 5),
                Fn("main", Int64, <<"", "help">>, 0), Check(<<"", "help">>, 5)>>)
Failing == File(<<Space("app"), Check(<<"text", "pad">>, 7),
                  Fn("main", Stdout, <<"text", "pad">>, 0)>>)
Intruder == File(<<Space("app"), Fn("peek", Int64, <<"api", "secret">>, 0)>>)
Shorter == File(<<Space("api"), Export(Fn("login", Int64, Nowhere, 6))>>)
\* Each tests the other.
Left == File(<<Space("api"), Export(Fn("login", Int64, Nowhere, 2)),
               Check(<<"app", "help">>, 3)>>)
Right == File(<<Space("app"), Export(Fn("help", Int64, Nowhere, 3)),
                Check(<<"api", "login">>, 2)>>)
\* A function with the name of one of the prelude.
Printing == File(<<Space("app"), Fn("print", Int64, Nowhere, 8),
                   Fn("main", Stdout, <<"", "print">>, 0),
                   Check(<<"", "print">>, 8)>>)
Mistyped == File(<<Space("app"), [Line("variable", "v") EXCEPT
                                    !.mistyped = TRUE]>>)
Broken == [File(<<Space("api")>>) EXCEPT !.syntax = "unparsed"]
Garbled == [File(<<>>) EXCEPT !.syntax = "unlexed"]

On(one, two, three) == 0 :> Missing @@ 1 :> one @@ 2 :> two @@ 3 :> three
MCProjects ==
  {On(Api, App, Missing), On(App, Api, Missing), On(Help, Caller, Missing),
   On(Api, Help, Apart), On(Api, Failing, Missing), On(Api, Intruder, Help),
   On(Garbled, Help, Missing), On(Api, Mistyped, Missing),
   On(Left, Right, Missing), On(Help, Printing, Missing),
   On(Missing, Missing, Missing)}
MCDrafts == {Missing, Shorter, Broken, App}

Ask(op, path) == [op |-> op, path |-> path, bare |-> FALSE,
                  at |-> [line |-> 0, part |-> "calls"], name |-> Nowhere]
Spots == [line : {2, 3, 9}, part : {"calls", "type"}]
MCRequests ==
  {Ask(op, p) : op \in {"build", "run", "test", "format", "format_check",
                        "symbols"}, p \in {1, 2}}
  \union {[Ask(op, 2) EXCEPT !.bare = TRUE] : op \in {"build", "run"}}
  \union {Ask("suite", 0), Ask("namespaces", 0), Ask("bundle", 0),
          Ask("bundle", 3)}
  \union {[Ask("signature", 0) EXCEPT !.name = n] :
            n \in {<<"api", "login">>, <<"api", "secret">>}}
  \union {[Ask("complete", 2) EXCEPT !.name = n] :
            n \in {Nowhere, <<"", "he">>, <<"", "ap">>, <<"api", "lo">>,
                   <<"", "login">>}}
  \union {[Ask(op, p) EXCEPT !.at = at] :
            op \in {"type", "definition", "references"}, p \in {1, 2},
            at \in Spots}

MCTyped == {Api, Apart, Broken}
=============================================================================
