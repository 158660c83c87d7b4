------------------------------ MODULE MCParser ------------------------------
(***************************************************************************)
(* Small inputs for Parser: the beginning of each production, followed by  *)
(* a few pieces from its own menu, followed by the Dedents that are due.   *)
(***************************************************************************)
EXTENDS Parser

\* The lexer ends no line that holds nothing but Dedents.
Lexed(s) ==
  FoldLeft(LAMBDA kept, k : IF k = "Newline" /\ kept # <<>> /\ Last(kept) = "Dedent"
                            THEN kept ELSE Append(kept, k), <<>>, s)
Shape(before, menu, most, after) ==
  {Lexed(before \o FlattenSeq(pieces) \o after) : pieces \in BoundedSeq(menu, most)}
Tokens(kinds) == {<<k>> : k \in kinds}

Deeper(pieces) == <<"Newline", "Indent">> \o pieces \o <<"Newline", "Dedent">>
End == <<"Newline", "Dedent">>
InFunction ==
  <<"Function", "Ident", "LParen", "RParen", "Colon", "Newline", "Indent">>

\* Top level: items begin, end and follow each other.
TopLevel == Shape(<<>>, Tokens({"Export", "Root", "Network", "Namespace", "Ident",
                                "Eq", "Dot", "Newline", "IntLiteral", "Mutable"}), 4, <<>>)
\* Bodies of declarations.
Enums == Shape(<<"Enum", "Ident", "Colon", "Newline", "Indent">>,
               Tokens({"Ident", "LParen", "RParen", "Colon", "Eq", "IntLiteral",
                       "Newline"}), 3, End)
Machines ==
  Shape(<<"Machine", "Ident", "Colon", "Newline", "Indent">>,
        {<<"States", "Colon">>, <<"Transitions", "Colon">>, <<"Ident", "To", "Ident">>,
         Deeper(<<"Ident">>), Deeper(<<"Ident", "To", "Ident">>), <<"Ident">>,
         <<"Newline">>, Deeper(<<"Comma">>)}, 3, End)
Records(keyword) ==
  Shape(<<keyword, "Ident", "Colon", "Newline", "Indent">>,
        {<<"Ident">>, <<"Colon">>, <<"IntLiteral", "Bits">>, <<"As">>, <<"Newline">>,
         <<"Function">>, <<"LParen">>, <<"RParen", "Colon">>, Deeper(<<"Ident">>)},
        3, End)
Actors ==
  Shape(<<"Actor", "Ident", "Colon", "Newline", "Indent">>,
        {<<"Receive", "Ident", "Colon">>, Deeper(<<"Respond", "Ident">>), <<"Newline">>,
         <<"Ident", "Ident", "Eq", "Ident">>, <<"Mutable">>, <<"Responds", "Ident">>,
         Deeper(<<"Ident", "Newline", "Indent", "Into", "Ident", "Newline", "Ident",
                  "Newline", "Dedent">>)}, 3, End)
Functions ==
  Shape(<<>>,
        {<<"Function", "Ident">>, <<"LBracket", "Ident", "RBracket">>, <<"LParen">>,
         <<"Ident", "Colon", "Ident">>, <<"Comma">>, <<"RParen">>,
         <<"Returns", "Ident", "Colon">>, Deeper(<<"Return">>)}, 3, <<>>)
Headed ==
  Shape(<<>>, {<<"Mutual", "Colon">>, <<"Verify", "Ident", "Colon">>,
               <<"Implement", "Ident", "For", "Ident", "Colon">>,
               <<"Interface", "Ident", "Colon">>, <<"Property", "Ident", "Colon">>,
               <<"Type", "Ident", "Eq", "Ident">>, <<"Where", "Ident">>,
               <<"Newline">>, Deeper(<<"Function", "Ident", "LParen", "RParen">>),
               Deeper(<<"Given", "Ident", "Colon", "Ident", "Newline", "Assert", "Ident">>)},
        3, <<>>)

\* Statements: blocks in blocks, and what begins a statement.
Blocks ==
  Shape(InFunction,
        {<<"If", "Ident", "Colon">>, <<"Else", "Colon">>, <<"Else", "If", "Ident", "Colon">>,
         <<"While", "Ident", "Colon">>, <<"For", "Ident", "Comma", "Ident", "In", "Ident", "Colon">>,
         <<"Match", "Ident", "Colon">>, Deeper(<<"Ident">>), <<"Ident">>, <<"Newline">>,
         Deeper(<<"Other", "Colon">> \o Deeper(<<"Break">>))}, 3, End)
Simples ==
  Shape(InFunction,
        {<<"Return">>, <<"Use", "Ident", "Dot", "Ident">>, <<"Assert", "Ident">>,
         <<"StringLiteral">>, <<"Trace", "Ident">>, <<"Breakpoint">>, <<"Ident">>,
         <<"Eq", "Ident">>, <<"Handle", "Error", "Colon">>, <<"Handle", "Colon">>,
         Deeper(<<"Continue">>), <<"Comptime", "Type", "Ident", "Eq", "Ident", "Colon">>},
        3, End)
Declarations ==
  Shape(InFunction,
        {<<"Function">>, <<"LParen">>, <<"RParen">>, <<"Returns">>, <<"Ident">>,
         <<"LBracket">>, <<"RBracket">>, <<"Eq">>}, 3, <<"Ident", "Eq", "Ident">> \o End)
LongTypes ==
  Shape(InFunction \o <<"Function", "LParen">>,
        {<<"Ident">>, <<"Ident", "Comma">>, <<"RParen", "Returns">>, <<"Function", "LParen">>,
         <<"LBracket", "Ident", "RBracket">>}, 3, <<"Ident", "Eq", "Ident">> \o End)

\* Expressions.
Operations ==
  Shape(InFunction \o <<"Ident">>,
        {<<k, "Ident">> : k \in {"Or", "And", "EqEq", "Lt", "Plus", "Minus", "Star"}}
        \union {<<"And", "Not", "Ident">>}, 3, End)
Calls ==
  Shape(InFunction \o <<"Ident">>,
        {<<"LParen">>, <<"RParen">>, <<"LBracket">>, <<"RBracket", "LParen">>, <<"Ident">>,
         <<"Comma">>, <<"Dot", "Ident">>, <<"Ident", "Colon">>, <<"Handle", "Colon">>,
         <<"At", "Ident">>}, 3, End)
PrefixForms ==
  Shape(InFunction,
        {<<"Send">>, <<"Join">>, <<"Ok", "LParen">>, <<"Default">>, <<"List_">>, <<"Map_">>,
         <<"Ident">>, <<"LParen">>, <<"Colon">>, <<"Plus">>, <<"RParen">>, <<"Handle", "Colon">>,
         <<"Function", "LParen", "RParen", "Colon">>, <<"StringStart">>, <<"StringMid">>,
         <<"StringEnd">>}, 3, End)
Pipelines ==
  Shape(InFunction \o <<"Ident">>,
        {<<"Into", "Ident">>, <<"LParen", "Ident", "RParen">>, <<"Dot", "Ident">>,
         <<"Handle", "Colon">>, <<"Newline">>, Deeper(<<"Into", "Ident">>),
         Deeper(<<"Into", "Ident", "Newline", "Into", "Ident">>),
         Deeper(<<"Into", "Ident", "Newline", "Ident">>), Deeper(<<"Ident">>)}, 3, End)

MCInputs ==
  UNION {TopLevel, Enums, Machines, Records("Struct"), Records("Bitfield"), Actors,
         Functions, Headed, Blocks, Simples, Declarations, LongTypes, Operations,
         Calls, PrefixForms, Pipelines}
=============================================================================
