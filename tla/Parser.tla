------------------------------- MODULE Parser -------------------------------
(***************************************************************************)
(* The recursive-descent parser (jett_parser) over the kinds of tokens.    *)
(* What each parse function does is a rule: a sequence of symbols, one for *)
(* each helper it calls (expect, eat, parse_ident, a loop, another parse   *)
(* function).  todo holds the symbols that are left to do, those of the    *)
(* innermost call first, so it is the call stack of the parser.  Trees are *)
(* left out, except for the order in which operators are combined.         *)
(***************************************************************************)
EXTENDS Integers, Sequences, FiniteSets, SequencesExt, FiniteSetsExt

CONSTANTS
  Inputs,      \* the sequences of token kinds that are parsed
  GenericCap,  \* tokens looked ahead for the bracket of a generic type, 20
  FunctionCap, \* tokens looked ahead for a function type's parameters, 40
  ScanCap      \* tokens looked ahead for the type it returns, 60

\* The kinds of tokens; the source is a sequence of them.
Kinds == UNION {Range(source) : source \in Inputs}
ASSUME InputsAreSequences == Inputs \subseteq Seq(Kinds)

VARIABLES
  tokens,    \* the kinds of the tokens, without the Eof at their end
  pos,       \* the next token
  todo,      \* the symbols to do
  failed,    \* an error was reported
  misnested, \* ghost: a body ended at another depth than it began at
  combined   \* positions of the binary operators, in the order combined

vars == <<tokens, pos, todo, failed, misnested, combined>>

Kind(i) == IF i \in DOMAIN tokens THEN tokens[i] ELSE "Eof"
Peek == Kind(pos)
PeekNth(k) == Kind(pos + k)

PrimitiveTypes ==
  {"Int8", "Int16", "Int32", "Int64", "Uint8", "Uint16", "Uint32", "Uint64",
   "Float32", "Float64", "String_", "Bool_", "Bytes_", "List_", "Map_",
   "Set_", "Nothing", "Result", "Optional", "Secret"}
TypeStarts == PrimitiveTypes \union {"Function", "Ident", "Root"}
ContextualIdents ==
  {"Self_", "Other", "Error", "Value", "Serialize", "Network", "Default",
   "Ok", "Fail", "Clone", "Send", "Run", "Join", "Cancel", "Trace",
   "Transition", "Type", "Bit", "Bits", "States", "Map_", "List_"}
Idents == {"Ident", "Root"} \union ContextualIdents

-----------------------------------------------------------------------------
(* Symbols.                                                                 *)

Symbol(op, k, body) ==
  [op |-> op, k |-> k, kinds |-> {}, body |-> body, n |-> 0]
Do(op) == Symbol(op, "", <<>>)
At(op, n) == [Do(op) EXCEPT !.n = n]
Expect(k) == Symbol("expect", k, <<>>)            \* expect(k)
Name == Do("ident")                               \* parse_ident
Advance == Do("advance")
Newlines == Do("newlines")                        \* skip_newlines
Call(rule) == Symbol("call", rule, <<>>)          \* another parse function
On(kinds, symbol) == [symbol EXCEPT !.kinds = kinds]
IfPeek(kinds, yes, no) == On(kinds, Symbol("if", "", <<yes, no>>))
When(kinds, body) == IfPeek(kinds, body, <<>>)
Opt(k, body) == When({k}, <<Advance>> \o body)    \* if eat(k) { body }
While(kinds, item) == On(kinds, Symbol("while", "", item))
List(close, item) == Symbol("list", close, item)  \* items up to close
Strict(close, item) == [List(close, item) EXCEPT !.n = 1]
More(list) == [list EXCEPT !.op = "more"]
Many(item) == Symbol("many", "", item)            \* items up to a Dedent
Again(item, from) == [Many(item) EXCEPT !.op = "again", !.n = from]
Close == When({"Dedent"}, <<Advance>>)
Nested(body) == Symbol("nested", "", body)
Indented(body) ==
  Nested(<<Newlines, Expect("Indent"), Newlines>> \o body \o <<Close>>)
Body(item) == Indented(<<Many(item)>>)

-----------------------------------------------------------------------------
(* The rules of items, types, statements and expressions.                   *)

ItemRules ==
 [Namespace  |-> <<Expect("Namespace"), Do("qualified")>>,
  Verify     |-> <<Expect("Verify"), Name, Expect("Colon"), Call("Block")>>,
  Property   |-> <<Expect("Property"), Name, Expect("Colon"),
                   Indented(<<While({"Given"},
                                <<Advance, Name, Expect("Colon"),
                                  Call("TypeExpr"), Newlines>>),
                              Many(<<Do("stmt")>>)>>)>>,
  Type       |-> <<Expect("Type"), Name, Expect("Eq"), Call("TypeExpr"),
                   Opt("Where", <<Call("Expr")>>)>>,
  Function   |-> <<Expect("Function"), Call("DeclRest"), Expect("Colon"),
                   Call("Block")>>,
  DeclRest   |-> <<Name, Call("TypeParams"), Expect("LParen"), Call("Params"),
                   Expect("RParen"), Opt("Returns", <<Call("TypeExpr")>>)>>,
  TypeParams |-> <<Opt("LBracket", <<Strict("RBracket", <<Name>>),
                                     Expect("RBracket")>>)>>,
  Params     |-> <<List("RParen", <<Call("Param")>>)>>,
  Param      |-> <<Opt("View", <<>>), Opt("Mutable", <<>>), Name,
                   Expect("Colon"), Call("TypeExpr")>>,
  OptParams  |-> <<Opt("LParen", <<Call("Params"), Expect("RParen")>>)>>]

MemberRules ==
 [Mutual     |-> <<Expect("Mutual"), Expect("Colon"),
                   Body(<<Opt("Export", <<>>), Expect("Function"),
                          Call("DeclRest")>>)>>,
  Interface  |-> <<Expect("Interface"), Name, Expect("Colon"),
                   Body(<<Expect("Function"), Call("DeclRest")>>)>>,
  Implement  |-> <<Expect("Implement"), Do("qualified"), Expect("For"),
                   Call("TypeExpr"), Expect("Colon"),
                   Body(<<Call("Function")>>)>>,
  Struct     |-> <<Expect("Struct"), Name, Call("TypeParams"),
                   Expect("Colon"), Body(<<IfPeek({"Function"},
                     <<Call("Function")>>, <<Call("Field")>>)>>)>>,
  Field      |-> <<Name, Expect("Colon"), Call("TypeExpr"),
                   Opt("Serialize", <<Expect("StringLiteral")>>)>>,
  Fields     |-> <<Opt("LParen", <<List("RParen", <<Call("Field")>>),
                                   Expect("RParen")>>)>>]

DataRules ==
 [Bitfield   |-> <<Opt("Network", <<>>), Expect("Bitfield"),
                   Opt("Network", <<>>), Name, Expect("Colon"),
                   Body(<<Name, Expect("Colon"), Call("Bits")>>)>>,
  Bits       |-> <<IfPeek({"IntLiteral"},
                     <<Advance, IfPeek({"Bit"}, <<Advance>>,
                                       <<Expect("Bits")>>),
                       Opt("As", <<Call("TypeExpr")>>)>>,
                     <<Call("TypeExpr")>>)>>,
  Enum       |-> <<Expect("Enum"), Name, Expect("Colon"),
                   Body(<<Call("Variant")>>)>>,
  Variant    |-> <<Name, Call("Fields"),
                   Opt("Eq", <<Expect("IntLiteral")>>)>>]

MachineRules ==
 [Machine    |-> <<Expect("Machine"), Name, Expect("Colon"), Indented(<<
                     Opt("States", <<Expect("Colon"), Body(<<Call("State")>>)>>),
                     Newlines,
                     Opt("Transitions", <<Expect("Colon"),
                                          Body(<<Call("Transition")>>)>>),
                     Newlines>>)>>,
  State      |-> <<Name, Call("Fields")>>,
  Transition |-> <<Name, Expect("To"), Name>>,
  Actor      |-> <<Expect("Actor"), Name, Call("OptParams"), Expect("Colon"),
                   Nested(<<Newlines, Expect("Indent"), Do("members"),
                            Close>>)>>,
  Receive    |-> <<Expect("Receive"), Name, Call("OptParams"),
                   Opt("Responds", <<Call("TypeExpr")>>), Expect("Colon"),
                   Call("Block")>>]

TypeRules ==
 [TypeExpr   |-> <<IfPeek({"View"}, <<Advance, Call("TypeExpr")>>,
                     <<IfPeek({"Function"}, <<Call("FnType")>>,
                              <<Call("NamedType")>>)>>),
                   While({"At"}, <<Advance, Name>>)>>,
  FnType     |-> <<Advance, Expect("LParen"),
                   List("RParen", <<Call("TypeExpr")>>),
                   Expect("RParen"), Expect("Returns"), Call("TypeExpr")>>,
  NamedType  |-> <<Do("typename"),
                   Opt("LBracket", <<Strict("RBracket", <<Call("TypeExpr")>>),
                                     Expect("RBracket")>>)>>]

LineEnds == {"Newline", "Dedent", "Eof"}
StatementRules ==
 [Return     |-> <<Expect("Return"), IfPeek(LineEnds, <<>>, <<Call("Expr")>>)>>,
  Respond    |-> <<Expect("Respond"), Call("Expr")>>,
  Comptime   |-> <<Expect("Comptime"), Expect("Type"), Name, Expect("Eq"),
                   Call("Expr"), Expect("Colon"), Call("Block")>>,
  If         |-> <<Expect("If"), Call("Expr"), Expect("Colon"),
                   Call("Block"), Newlines, Call("Else")>>,
  Else       |-> <<Opt("Else", <<IfPeek({"If"},
                     <<Advance, Call("Expr"), Expect("Colon"), Call("Block"),
                       Newlines, Call("Else")>>,
                     <<Expect("Colon"), Call("Block")>>)>>)>>,
  For        |-> <<Expect("For"), Name, Opt("Comma", <<Name>>), Expect("In"),
                   Opt("View", <<>>), Call("Expr"), Expect("Colon"),
                   Call("Block")>>,
  While      |-> <<Expect("While"), Call("Expr"), Expect("Colon"),
                   Call("Block")>>]

LineRules ==
 [Match      |-> <<Expect("Match"), Call("Expr"), Expect("Colon"),
                   Body(<<IfPeek({"Other"}, <<Advance>>, <<Name>>),
                          Call("Bindings"), Expect("Colon"),
                          Call("Block")>>)>>,
  Bindings   |-> <<Opt("LParen", <<List("RParen", <<Name>>),
                                   Expect("RParen")>>)>>,
  Use        |-> <<Expect("Use"), Name, While({"Dot"}, <<Advance, Name>>),
                   Opt("As", <<Name>>)>>,
  Assert     |-> <<Expect("Assert"), Call("Expr"),
                   When({"StringLiteral", "StringStart"}, <<Call("Expr")>>)>>,
  Trace      |-> <<Expect("Trace"), Name>>,
  Breakpoint |-> <<Expect("Breakpoint"), IfPeek(LineEnds, <<>>, <<Call("Expr")>>)>>,
  Break      |-> <<Advance>>,
  Continue   |-> <<Advance>>,
  VarDecl    |-> <<Opt("Mutable", <<>>), Call("TypeExpr"), Do("declared"),
                   Name, Expect("Eq"), Call("Expr"), Call("Handled")>>,
  Plain      |-> <<Call("Expr"), IfPeek({"Eq"}, <<Advance, Call("Expr")>>,
                                          <<Call("Handled")>>)>>,
  Handled    |-> <<When({"Handle"}, <<Call("Handle")>>)>>,
  Handle     |-> <<Advance, When({"Error"}, <<Advance>>), Expect("Colon"),
                   Newlines, IfPeek({"Indent"}, <<Call("Block")>>,
                                    <<Do("stmt")>>)>>,
  Block      |-> <<Body(<<Do("stmt")>>)>>]

ExpressionRules ==
 [Expr       |-> <<At("operand", 0), Do("pipe")>>,
  Paren      |-> <<Advance, Call("Expr"), Expect("RParen")>>,
  Wrapped    |-> <<Advance, Expect("LParen"), Call("Expr"),
                   Expect("RParen")>>,
  Default    |-> <<Advance, Call("Expr")>>,
  Items      |-> <<Advance, When({"LParen"}, <<Advance,
                     List("RParen", <<Call("Expr")>>), Expect("RParen")>>)>>,
  Entries    |-> <<Advance, When({"LParen"}, <<Advance,
                     List("RParen", <<Call("Expr"), Expect("Colon"),
                                      Call("Expr")>>), Expect("RParen")>>)>>,
  InlineFn   |-> <<Advance, Expect("LParen"), Call("Params"),
                   Expect("RParen"), Opt("Returns", <<Call("TypeExpr")>>),
                   Expect("Colon"), Newlines,
                   IfPeek({"Indent"}, <<Call("Block")>>, <<Do("stmt")>>)>>,
  Segments   |-> <<Advance, Call("Expr"), Do("segments")>>,
  Args       |-> <<Expect("LParen"), List("RParen", <<Do("argument")>>),
                   Expect("RParen")>>,
  Generic    |-> <<Expect("LBracket"),
                   Strict("RBracket", <<Call("TypeExpr")>>),
                   Expect("RBracket"), Call("Args")>>,
  Step       |-> <<Advance, Do("prefix"), Do("postfix"),
                   When({"LParen"}, <<Call("Args")>>),
                   Call("Handled")>>,
  Pipeline   |-> <<While({"Into"}, <<Call("Step")>>)>>,
  Lines      |-> <<While({"Into"}, <<Call("Step"), Newlines>>), Close>>]

Rules ==
  [rule \in UNION {DOMAIN ItemRules, DOMAIN MemberRules, DOMAIN DataRules,
                  DOMAIN MachineRules, DOMAIN TypeRules, DOMAIN StatementRules,
                  DOMAIN LineRules, DOMAIN ExpressionRules} |->
     CASE rule \in DOMAIN ItemRules -> ItemRules[rule]
     [] rule \in DOMAIN MemberRules -> MemberRules[rule]
     [] rule \in DOMAIN DataRules -> DataRules[rule]
     [] rule \in DOMAIN MachineRules -> MachineRules[rule]
     [] rule \in DOMAIN TypeRules -> TypeRules[rule]
     [] rule \in DOMAIN StatementRules -> StatementRules[rule]
     [] rule \in DOMAIN LineRules -> LineRules[rule]
     [] rule \in DOMAIN ExpressionRules -> ExpressionRules[rule]]

\* The prefix forms and the binding power of what follows them.
Operators == [Not |-> 13, Bang |-> 13, Minus |-> 13, View |-> 13,
              Declassify |-> 13, Coarsen |-> 13, Spawn |-> 13, Clone |-> 13,
              Send |-> 0, Ask |-> 0, Run |-> 0, Join |-> 2, Cancel |-> 2]
Literals == {"IntLiteral", "FloatLiteral", "StringLiteral", "True", "False",
             "Nothing", "None", "Self_", "Value"}
PrefixRules ==
  [LParen |-> "Paren", Ok |-> "Wrapped", Fail |-> "Wrapped",
   Some |-> "Wrapped", Default |-> "Default", List_ |-> "Items",
   Map_ |-> "Entries", Function |-> "InlineFn", StringStart |-> "Segments"]
Prefix(k) ==
  IF k \in Literals THEN <<Advance>>
  ELSE IF k \in DOMAIN Operators THEN <<Advance, At("operand", Operators[k])>>
  ELSE IF k \in DOMAIN PrefixRules THEN <<Call(PrefixRules[k])>>
  ELSE IF k \in Idents THEN <<Name>>
  ELSE <<Do("typename")>>

\* infix_binding_power: the left power; the right one is one more.
LeftPower ==
  [PipePipe |-> 1, Or |-> 1, AmpAmp |-> 3, And |-> 3, EqEq |-> 5, NotEq |-> 5,
   Lt |-> 7, Gt |-> 7, LtEq |-> 7, GtEq |-> 7, Plus |-> 9, Minus |-> 9,
   Star |-> 11, Slash |-> 11, Modulo |-> 11]
RightPower(k) == LeftPower[k] + 1

-----------------------------------------------------------------------------
(* Lookahead: what the parser decides before it consumes anything.          *)

\* The first position after the bracket that closes the one before i, or the
\* cap; 0 if the tokens end before it.
AfterClose(i, open, close, cap) ==
  LET scan[j \in Nat, d \in Nat] ==
        IF d = 0 \/ j >= cap THEN j
        ELSE IF Kind(j) = "Eof" THEN 0
        ELSE scan[j + 1, IF Kind(j) = open THEN d + 1
                         ELSE IF Kind(j) = close THEN d - 1 ELSE d]
  IN scan[i, 1]

\* skip_dotted_type_path and skip_state_type_qualifiers
SkipPairs(i, k) ==
  LET skip[j \in Nat] ==
        IF Kind(j) = k /\ Kind(j + 1) \in Idents THEN skip[j + 2] ELSE j
  IN skip[i]

NameAlone(i) == Kind(i) \in Idents
NameThenEq(i) == Kind(i) \in Idents /\ Kind(i + 1) = "Eq"
AfterNamedType(i, cap) ==
  LET path == SkipPairs(i + 1, "Dot")
      args == IF Kind(path) = "LBracket"
              THEN AfterClose(path + 1, "LBracket", "RBracket", cap)
              ELSE path
  IN IF args = 0 THEN 0 ELSE SkipPairs(args, "At")
DeclaredAfter(i, cap) ==
  AfterNamedType(i, cap) # 0 /\ NameThenEq(AfterNamedType(i, cap))

\* scan_past_type_for_var_decl, from a position relative to p.
ScanPastType(p, i) ==
  LET cap == p + ScanCap
      past[j \in Nat] ==
        LET close == AfterClose(j + 2, "LParen", "RParen", cap)
        IN IF j >= cap THEN FALSE
           ELSE IF Kind(j) = "Function"
           THEN /\ Kind(j + 1) = "LParen"
                /\ close # 0 /\ Kind(close) = "Returns"
                /\ past[close + 1]
           ELSE Kind(j) \in TypeStarts /\ DeclaredAfter(j, cap)
  IN past[i]

LooksLikeVarDecl(p) ==
  LET close == AfterClose(p + 2, "LParen", "RParen", p + FunctionCap)
  IN IF Kind(p) = "Function"
     THEN /\ Kind(p + 1) = "LParen"
          /\ close # 0 /\ Kind(close) = "Returns"
          /\ ScanPastType(p, close + 1)
     ELSE Kind(p) \in TypeStarts /\ DeclaredAfter(p, p + GenericCap)

LooksLikeGenericArgs ==
  LET cap == pos + GenericCap
      scan[j \in Nat, d \in Nat] ==
        IF d = 0 \/ j >= cap THEN j
        ELSE IF Kind(j) \in {"Eof", "Newline"} THEN 0
        ELSE scan[j + 1, IF Kind(j) = "LBracket" THEN d + 1
                         ELSE IF Kind(j) = "RBracket" THEN d - 1 ELSE d]
      after == scan[pos + 1, 1]
  IN Peek = "LBracket" /\ after # 0 /\ Kind(after) = "LParen"

-----------------------------------------------------------------------------
(* Steps: the innermost call does the next thing it has to do.              *)

DepthAt(i) ==
  Cardinality({j \in 1..(i - 1) : Kind(j) = "Indent"})
  - Cardinality({j \in 1..(i - 1) : Kind(j) = "Dedent"})
Leave == At("leave", DepthAt(pos))

Top == Head(todo)
Doing(op) == todo # <<>> /\ Top.op = op
Then(body) == todo' = body \o Tail(todo)
After(i) == IF i \in DOMAIN tokens THEN i + 1 ELSE i
Consume == pos' = After(pos)
Keep == pos' = pos
Error == failed' = TRUE
NoError == failed' = failed
NoGhost == UNCHANGED <<tokens, misnested, combined>>

ExpectStep ==
  /\ Doing("expect")
  /\ \/ Peek = Top.k /\ Consume /\ NoError
     \/ Peek # Top.k /\ Keep /\ Error
  /\ Then(<<>>)
  /\ NoGhost

\* An identifier that is missing is reported and nothing is consumed.
IdentStep ==
  /\ Doing("ident")
  /\ \/ Peek \in Idents /\ Consume /\ NoError
     \/ Peek \notin Idents /\ Keep /\ Error
  /\ Then(<<>>)
  /\ NoGhost

AdvanceStep ==
  /\ Doing("advance")
  /\ Consume
  /\ Then(<<>>)
  /\ UNCHANGED failed /\ NoGhost

NewlinesStep ==
  /\ Doing("newlines")
  /\ \/ Peek = "Newline" /\ Consume /\ UNCHANGED todo
     \/ Peek # "Newline" /\ Keep /\ Then(<<>>)
  /\ UNCHANGED failed /\ NoGhost

\* Steps that only decide what comes next.
Expansion ==
  LET list == More(Top)
  IN CASE Top.op = "call" -> Rules[Top.k]
       [] Top.op = "if" -> IF Peek \in Top.kinds THEN Top.body[1] ELSE Top.body[2]
       [] Top.op = "while" -> IF Peek \in Top.kinds
                              THEN Top.body \o <<Top>> ELSE <<>>
       [] Top.op = "list" -> IF Peek = Top.k THEN <<>>
                             ELSE Top.body \o <<list>>
       [] Top.op = "more" -> IF Peek # "Comma" THEN <<>>
                             ELSE <<Advance, [Top EXCEPT !.op = "item"]>>
       [] Top.op = "item" -> IF Top.n = 0 /\ Peek = Top.k THEN <<>>
                             ELSE Top.body \o <<list>>
       [] Top.op = "many" -> IF Peek \in {"Dedent", "Eof"} THEN <<>>
                             ELSE Top.body \o <<Newlines, Again(Top.body, pos)>>
       [] Top.op = "again" -> <<Many(Top.body)>>
       [] Top.op = "nested" -> Top.body \o <<Leave>>
Deciding == {"call", "if", "while", "list", "more", "item", "many", "again",
             "nested"}
Expand ==
  /\ todo # <<>> /\ Top.op \in Deciding
  /\ Then(Expansion)
  /\ UNCHANGED <<pos, failed>> /\ NoGhost

LeaveStep ==
  /\ Doing("leave")
  /\ misnested' = (misnested \/ DepthAt(pos) # Top.n)
  /\ Then(<<>>)
  /\ UNCHANGED <<tokens, pos, failed, combined>>

\* A dotted name ends at the first part that is no name.
QualifiedStep ==
  /\ Doing("qualified")
  /\ \/ Peek \in Idents /\ Consume /\ NoError /\ Then(<<Do("dots")>>)
     \/ Peek \notin Idents /\ Keep /\ Error /\ Then(<<>>)
  /\ NoGhost
DotsStep ==
  /\ Doing("dots")
  /\ \/ Peek = "Dot" /\ Consume /\ Then(<<Do("qualified")>>)
     \/ Peek # "Dot" /\ Keep /\ Then(<<>>)
  /\ UNCHANGED failed /\ NoGhost

TypeNameKeeps ==
  /\ Doing("typename")
  /\ \/ Peek \in PrimitiveTypes /\ Consume /\ NoError /\ Then(<<>>)
     \/ Peek \in {"Ident", "Root"} /\ Keep /\ NoError /\ Then(<<Do("qualified")>>)
     \/ /\ Peek \notin PrimitiveTypes \union {"Ident", "Root"}
        /\ Keep /\ Error /\ Then(<<>>)
  /\ NoGhost
TypeNameStep ==
  /\ Doing("typename")
  /\ \/ Peek \in PrimitiveTypes /\ Consume /\ NoError /\ Then(<<>>)
     \/ Peek \in {"Ident", "Root"} /\ Keep /\ NoError /\ Then(<<Do("qualified")>>)
     \/ /\ Peek \notin PrimitiveTypes \union {"Ident", "Root"}
        /\ Consume /\ Error /\ Then(<<>>)
  /\ NoGhost

-----------------------------------------------------------------------------
(* Statements, expressions and items are chosen by the token they begin     *)
(* with.                                                                    *)

StatementStarts ==
  {"Return", "If", "For", "While", "Match", "Use", "Assert", "Trace",
   "Breakpoint", "Respond", "Comptime", "Break", "Continue"}
StatementRule ==
  IF Peek \in StatementStarts THEN <<Call(Peek)>>
  ELSE IF Peek = "Mutable" \/ LooksLikeVarDecl(pos) THEN <<Call("VarDecl")>>
  ELSE IF Peek \in {"Eof", "Dedent"} THEN <<>>
  ELSE <<Call("Plain")>>
StatementStep ==
  /\ Doing("stmt")
  /\ \/ Peek = "Newline" /\ Consume /\ UNCHANGED todo
     \/ Peek # "Newline" /\ Keep /\ Then(StatementRule)
  /\ UNCHANGED failed /\ NoGhost

\* Where a declared name is read the lookahead has promised one and an Eq.
DeclaredStep ==
  /\ Doing("declared")
  /\ Then(<<>>)
  /\ UNCHANGED <<pos, failed>> /\ NoGhost

\* The body of an actor ends at the first thing it cannot hold.
MembersStep ==
  /\ Doing("members")
  /\ \/ Peek = "Newline" /\ Consume /\ UNCHANGED todo
     \/ /\ Peek # "Newline" /\ Keep
        /\ Then(IF Peek = "Receive" THEN <<Call("Receive"), Do("members")>>
                ELSE IF Peek = "Mutable" \/ LooksLikeVarDecl(pos)
                THEN <<Call("VarDecl"), Do("members")>>
                ELSE <<>>)
  /\ UNCHANGED failed /\ NoGhost

\* parse_expr_bp: an operand and what may follow it at this binding power.
InfixExpansion ==
  LET again == <<Top>>
      from == Top.n
  IN CASE Peek = "Dot" ->
            <<Advance, Name, Do("fieldcall")>> \o again
       [] Peek = "LParen" -> <<Call("Args")>> \o again
       [] Peek = "LBracket" /\ LooksLikeGenericArgs ->
            <<Call("Generic")>> \o again
       [] Peek = "Handle" /\ from <= 1 -> <<Call("Handle")>> \o again
       [] Peek = "At" /\ from <= 7 -> <<Advance, Name>> \o again
       [] Peek \in DOMAIN LeftPower /\ LeftPower[Peek] >= from ->
            <<Advance, At("operand", RightPower(Peek)), At("combine", pos)>>
            \o again
       [] OTHER -> <<>>
FieldCall ==
  IF LooksLikeGenericArgs THEN <<Call("Generic")>>
  ELSE IF Peek = "LParen" THEN <<Call("Args")>> ELSE <<>>
Postfix ==
  IF LooksLikeGenericArgs THEN <<Call("Generic")>> ELSE <<Do("fields")>>
Fields ==
  IF Peek = "Dot" THEN <<Advance, Name, Do("generic"), Do("fields")>> ELSE <<>>
MaybeGeneric == IF LooksLikeGenericArgs THEN <<Call("Generic")>> ELSE <<>>
Argument ==
  IF Peek \in Idents /\ PeekNth(1) = "Colon"
  THEN <<Advance, Advance, Call("Expr")>> ELSE <<Call("Expr")>>
Segments ==
  CASE Peek = "StringEnd" -> <<Advance>>
    [] Peek = "StringMid" -> <<Advance, Call("Expr"), Do("segments")>>
    [] Peek = "Eof" -> <<>>
    [] OTHER -> <<Advance, Do("segments")>>
ExpressionStep ==
  /\ todo # <<>>
  /\ \/ Top.op = "operand" /\ Then(<<Do("prefix"), At("infix", Top.n)>>)
     \/ Top.op = "prefix" /\ Then(Prefix(Peek))
     \/ Top.op = "infix" /\ Then(InfixExpansion)
     \/ Top.op = "fieldcall" /\ Then(FieldCall)
     \/ Top.op = "postfix" /\ Then(Postfix)
     \/ Top.op = "fields" /\ Then(Fields)
     \/ Top.op = "generic" /\ Then(MaybeGeneric)
     \/ Top.op = "argument" /\ Then(Argument)
     \/ Top.op = "segments" /\ Then(Segments)
  /\ UNCHANGED <<pos, failed>> /\ NoGhost

CombineStep ==
  /\ Doing("combine")
  /\ combined' = Append(combined, Top.n)
  /\ Then(<<>>)
  /\ UNCHANGED <<tokens, pos, failed, misnested>>

\* A pipeline goes on in the same line or, indented, in the lines below: the
\* parser looks over the line ends and the Indent and steps back if no into
\* comes after them.
NextInLine ==
  Min({i \in pos..(Len(tokens) + 1) : Kind(i) # "Newline"})
PipelineStep ==
  /\ Doing("pipe")
  /\ LET below == NextInLine
         indented == Kind(below) = "Indent" /\ Kind(below + 1) = "Into"
     IN \/ Peek = "Into" /\ Keep /\ Then(<<Call("Pipeline")>>)
        \/ /\ Peek # "Into" /\ indented
           /\ pos' = below + 1
           /\ Then(<<Call("Lines"), Leave>>)
        \/ Peek # "Into" /\ ~indented /\ Keep /\ Then(<<>>)
  /\ UNCHANGED failed /\ NoGhost

ItemStarts ==
  {"Namespace", "Function", "Mutual", "Interface", "Implement", "Struct",
   "Bitfield", "Enum", "Machine", "Actor", "Verify", "Property", "Type"}
Exportable ==
  ItemStarts \ {"Namespace", "Mutual", "Implement", "Verify", "Property"}
\* synchronize: the next line, or the Dedent or Eof before it.
StopBefore(from) ==
  Min({i \in from..(Len(tokens) + 1) : Kind(i) \in LineEnds})
Recovered(from) ==
  LET stop == Min({i \in from..(Len(tokens) + 1) : Kind(i) \in LineEnds})
      next == IF Kind(stop) = "Newline" THEN stop + 1 ELSE stop
  IN IF next = pos THEN After(pos) ELSE next
ItemStep ==
  /\ Doing("items")
  /\ LET exported == Peek = "Export"
         start == IF exported THEN pos + 1 ELSE pos
         root == exported /\ Kind(start) = "Root"
         at == IF root THEN start + 1 ELSE start
         network == Kind(at) = "Network" /\ Kind(at + 1) = "Bitfield"
         allowed == /\ root => Kind(at) = "Type"
                    /\ exported => Kind(at) \in Exportable \/ network
         rule == IF Kind(at) \in ItemStarts THEN Kind(at)
                 ELSE IF network THEN "Bitfield"
                 ELSE IF Kind(at) = "Mutable"
                         \/ (~exported /\ LooksLikeVarDecl(at)) THEN "VarDecl"
                 ELSE ""
     IN \/ Peek = "Eof" /\ Keep /\ NoError /\ Then(<<>>)
        \/ /\ Peek # "Eof" /\ allowed /\ rule # ""
           /\ pos' = at /\ NoError
           /\ Then(<<Call(rule), Newlines, Do("items")>>)
        \/ /\ Peek # "Eof" /\ ~(allowed /\ rule # "")
           /\ pos' = Recovered(at) /\ Error
           /\ Then(<<Newlines, Do("items")>>)
  /\ NoGhost

Init ==
  /\ tokens \in Inputs
  /\ pos = 1
  /\ todo = <<Newlines, Do("items")>>
  /\ failed = FALSE
  /\ misnested = FALSE
  /\ combined = <<>>

Next ==
  \/ ExpectStep \/ IdentStep \/ AdvanceStep \/ NewlinesStep \/ Expand
  \/ LeaveStep \/ QualifiedStep \/ DotsStep \/ TypeNameStep
  \/ StatementStep \/ DeclaredStep \/ MembersStep
  \/ ExpressionStep \/ CombineStep \/ PipelineStep \/ ItemStep

Spec == Init /\ [][Next]_vars /\ WF_vars(Next)

-----------------------------------------------------------------------------
(* Properties.                                                              *)

\* Positions stay within the tokens and their Eof: no read past the end.
TypeOK ==
  /\ pos \in 1..(Len(tokens) + 1)
  /\ failed \in BOOLEAN
  /\ misnested \in BOOLEAN
  /\ Range(combined) \subseteq DOMAIN tokens

\* The bodies whose loops parse_ident can leave where they are: those of enums,
\* of states and of transitions.
StallingBodies == {<<Call("Variant")>>, <<Call("State")>>, <<Call("Transition")>>}
Stalled == Doing("again") /\ pos = Top.n /\ Top.body \in StallingBodies

\* Every turn of the loop over a body consumes a token, whatever the tokens
\* are; only enums and machines are excepted (parse_ident does not advance).
LoopsAdvance == Doing("again") => pos > Top.n \/ Stalled

\* A parse ends, or stalls in the body of an enum or a machine: no other rule,
\* nor the recovery at the top level, turns around forever.
EndsOrStalls == <>(todo = <<>> \/ Stalled)

\* Every input is parsed to its end (parse_ident leaves it to its callers to
\* go on from a token that is no identifier).
Ends == <>(todo = <<>>)

\* In a file parsed without an error every indented body ended at the Dedent
\* of the Indent it began at, multi-line pipelines included: none has taken
\* statements of the block around it, none has left some to it.
NestingKept == todo = <<>> /\ ~failed => ~misnested

\* Two operators of one expression are combined in the order of their binding
\* powers, from left to right among equals: the left one comes last exactly
\* when all operators up to the right one bind tighter than it.
OneExpression(i, j) ==
  \A k \in i..j :
    \/ Kind(k) \in DOMAIN LeftPower
    \/ /\ Kind(k) \in {"Ident", "Not"}
       /\ Kind(k - 1) \in DOMAIN LeftPower \union {"Not"}
Grouping ==
  \A x, y \in DOMAIN combined :
    LET i == combined[x]
        j == combined[y]
        between == {k \in Range(combined) : i < k /\ k <= j}
    IN todo = <<>> /\ ~failed /\ i < j /\ OneExpression(i, j)
       => (x > y <=> \A k \in between : LeftPower[Kind(k)] > LeftPower[Kind(i)])

\* Where the lookahead has chosen a declaration and the type was parsed
\* without an error, the declared name and its = come next: the scan over the
\* type and the parser of types agree on where a type ends.
DeclaredName ==
  Doing("declared") /\ ~failed /\ "Mutable" \notin Range(tokens)
    => Peek \in Idents /\ PeekNth(1) = "Eq"

\* What has been read is what the tokens say: blocks close where they opened,
\* operators group by their powers, and a declaration declares a name.
StructureKept == TypeOK /\ NestingKept /\ Grouping /\ DeclaredName

=============================================================================
