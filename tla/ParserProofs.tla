---------------------------- MODULE ParserProofs ----------------------------
(***************************************************************************)
(* What holds of the parser on every sequence of tokens: positions stay    *)
(* within it, and every turn of a loop over a body takes a token, except   *)
(* in enums and machines.                                                  *)
(***************************************************************************)
EXTENDS Parser, SequenceFacts

-----------------------------------------------------------------------------
(* The symbols the rules are made of.  Rules hold each other's symbols to  *)
(* any depth, so a symbol is lawful if some set of symbols has it that has *)
(* with each symbol all those it may be replaced by.                       *)

Slots == {"op", "k", "kinds", "body", "n"}
Loops == {"while", "list", "more", "item", "many", "nested"}

\* The bodies of the loops that end at a Dedent.
FirstOfCase == IfPeek({"Other"}, <<Advance>>, <<Name>>)
Member == IfPeek({"Function"}, <<Call("Function")>>, <<Call("Field")>>)
AdvancingBodies ==
  {<<Do("stmt")>>, <<Call("Function")>>, <<Member>>,
   <<Expect("Function"), Call("DeclRest")>>,
   <<Opt("Export", <<>>), Expect("Function"), Call("DeclRest")>>,
   <<Name, Expect("Colon"), Call("Bits")>>,
   <<FirstOfCase, Call("Bindings"), Expect("Colon"), Call("Block")>>}
Bodies == AdvancingBodies \union StallingBodies

Inner(s) ==
  IF s.op = "if" THEN {s.body[1], s.body[2]}
  ELSE IF s.op \in Loops THEN {s.body} ELSE {}
Closed(S) ==
  \A s \in S :
    /\ DOMAIN s = Slots /\ s.op \notin {"again", "combine"}
    /\ s.op = "call" => s.k \in DOMAIN Rules
    /\ s.op = "many" => s.body \in Bodies
    /\ \A q \in Inner(s) : q \in Seq(S)
Lawful(s) == \E S : Closed(S) /\ s \in S
LawfulSeq(q) == \E S : Closed(S) /\ q \in Seq(S)

LEMMA ClosedUnion ==
  ASSUME NEW S, NEW T, Closed(S), Closed(T)
  PROVE  Closed(S \union T)
<1>1. \A q : q \in Seq(S) \/ q \in Seq(T) => q \in Seq(S \union T)
  BY WiderSeq
<1> QED BY <1>1 DEF Closed

LEMMA LawfulConcat ==
  ASSUME NEW p, NEW q, LawfulSeq(p), LawfulSeq(q)
  PROVE  LawfulSeq(p \o q)
<1>1. PICK S : Closed(S) /\ p \in Seq(S)
  BY DEF LawfulSeq
<1>2. PICK T : Closed(T) /\ q \in Seq(T)
  BY DEF LawfulSeq
<1>3. p \in Seq(S \union T) /\ q \in Seq(S \union T)
  BY <1>1, <1>2, WiderSeq
<1>4. p \o q \in Seq(S \union T)
  BY <1>3, ConcatProperties
<1> QED BY <1>1, <1>2, <1>4, ClosedUnion DEF LawfulSeq

LEMMA LawfulMember ==
  ASSUME NEW q, LawfulSeq(q)
  PROVE  /\ \A i \in DOMAIN q : Lawful(q[i])
         /\ Len(q) \in Nat /\ DOMAIN q = 1 .. Len(q)
BY DEF LawfulSeq, Lawful

LEMMA LawfulOne ==
  ASSUME NEW s, Lawful(s)
  PROVE  LawfulSeq(<<s>>)
<1>1. PICK S : Closed(S) /\ s \in S
  BY DEF Lawful
<1>2. <<s>> \in Seq(S)
  BY <1>1
<1> QED BY <1>1, <1>2 DEF LawfulSeq

LEMMA LawfulNone == LawfulSeq(<<>>)
<1>1. Closed({}) /\ <<>> \in Seq({})
  BY DEF Closed
<1> QED BY <1>1 DEF LawfulSeq

LEMMA LawfulTuples ==
  /\ \A a, b :
       Lawful(a) /\ Lawful(b)
         => LawfulSeq(<<a, b>>)
  /\ \A a, b, c :
       Lawful(a) /\ Lawful(b) /\ Lawful(c)
         => LawfulSeq(<<a, b, c>>)
  /\ \A a, b, c, d :
       Lawful(a) /\ Lawful(b) /\ Lawful(c) /\ Lawful(d)
         => LawfulSeq(<<a, b, c, d>>)
  /\ \A a, b, c, d, e :
       Lawful(a) /\ Lawful(b) /\ Lawful(c) /\ Lawful(d) /\ Lawful(e)
         => LawfulSeq(<<a, b, c, d, e>>)
  /\ \A a, b, c, d, e, f :
       Lawful(a) /\ Lawful(b) /\ Lawful(c) /\ Lawful(d) /\ Lawful(e)
       /\ Lawful(f)
         => LawfulSeq(<<a, b, c, d, e, f>>)
  /\ \A a, b, c, d, e, f, g :
       Lawful(a) /\ Lawful(b) /\ Lawful(c) /\ Lawful(d) /\ Lawful(e)
       /\ Lawful(f) /\ Lawful(g)
         => LawfulSeq(<<a, b, c, d, e, f, g>>)
  /\ \A a, b, c, d, e, f, g, h :
       Lawful(a) /\ Lawful(b) /\ Lawful(c) /\ Lawful(d) /\ Lawful(e)
       /\ Lawful(f) /\ Lawful(g) /\ Lawful(h)
         => LawfulSeq(<<a, b, c, d, e, f, g, h>>)
<1>1. ASSUME NEW a, NEW b,
             Lawful(a), Lawful(b)
      PROVE  LawfulSeq(<<a, b>>)
  <2>1. PICK S : Closed(S) /\ <<a>> \in Seq(S)
    BY <1>1, LawfulOne DEF LawfulSeq
  <2>2. PICK T : Closed(T) /\ b \in T
    BY <1>1 DEF Lawful
  <2>3. <<a, b>> \in Seq(S \union T)
    BY <2>1, <2>2
  <2> QED BY <2>1, <2>2, <2>3, ClosedUnion DEF LawfulSeq
<1>2. ASSUME NEW a, NEW b, NEW c,
             Lawful(a), Lawful(b), Lawful(c)
      PROVE  LawfulSeq(<<a, b, c>>)
  <2>1. PICK S : Closed(S) /\ <<a, b>> \in Seq(S)
    BY <1>2, <1>1 DEF LawfulSeq
  <2>2. PICK T : Closed(T) /\ c \in T
    BY <1>2 DEF Lawful
  <2>3. <<a, b, c>> \in Seq(S \union T)
    BY <2>1, <2>2
  <2> QED BY <2>1, <2>2, <2>3, ClosedUnion DEF LawfulSeq
<1>3. ASSUME NEW a, NEW b, NEW c, NEW d,
             Lawful(a), Lawful(b), Lawful(c), Lawful(d)
      PROVE  LawfulSeq(<<a, b, c, d>>)
  <2>1. PICK S : Closed(S) /\ <<a, b, c>> \in Seq(S)
    BY <1>3, <1>2 DEF LawfulSeq
  <2>2. PICK T : Closed(T) /\ d \in T
    BY <1>3 DEF Lawful
  <2>3. <<a, b, c, d>> \in Seq(S \union T)
    BY <2>1, <2>2
  <2> QED BY <2>1, <2>2, <2>3, ClosedUnion DEF LawfulSeq
<1>4. ASSUME NEW a, NEW b, NEW c, NEW d, NEW e,
             Lawful(a), Lawful(b), Lawful(c), Lawful(d), Lawful(e)
      PROVE  LawfulSeq(<<a, b, c, d, e>>)
  <2>1. PICK S : Closed(S) /\ <<a, b, c, d>> \in Seq(S)
    BY <1>4, <1>3 DEF LawfulSeq
  <2>2. PICK T : Closed(T) /\ e \in T
    BY <1>4 DEF Lawful
  <2>3. <<a, b, c, d, e>> \in Seq(S \union T)
    BY <2>1, <2>2
  <2> QED BY <2>1, <2>2, <2>3, ClosedUnion DEF LawfulSeq
<1>5. ASSUME NEW a, NEW b, NEW c, NEW d, NEW e, NEW f,
             Lawful(a), Lawful(b), Lawful(c), Lawful(d), Lawful(e), Lawful(f)
      PROVE  LawfulSeq(<<a, b, c, d, e, f>>)
  <2>1. PICK S : Closed(S) /\ <<a, b, c, d, e>> \in Seq(S)
    BY <1>5, <1>4 DEF LawfulSeq
  <2>2. PICK T : Closed(T) /\ f \in T
    BY <1>5 DEF Lawful
  <2>3. <<a, b, c, d, e, f>> \in Seq(S \union T)
    BY <2>1, <2>2
  <2> QED BY <2>1, <2>2, <2>3, ClosedUnion DEF LawfulSeq
<1>6. ASSUME NEW a, NEW b, NEW c, NEW d, NEW e, NEW f, NEW g,
             Lawful(a), Lawful(b), Lawful(c), Lawful(d), Lawful(e), Lawful(f), Lawful(g)
      PROVE  LawfulSeq(<<a, b, c, d, e, f, g>>)
  <2>1. PICK S : Closed(S) /\ <<a, b, c, d, e, f>> \in Seq(S)
    BY <1>6, <1>5 DEF LawfulSeq
  <2>2. PICK T : Closed(T) /\ g \in T
    BY <1>6 DEF Lawful
  <2>3. <<a, b, c, d, e, f, g>> \in Seq(S \union T)
    BY <2>1, <2>2
  <2> QED BY <2>1, <2>2, <2>3, ClosedUnion DEF LawfulSeq
<1>7. ASSUME NEW a, NEW b, NEW c, NEW d, NEW e, NEW f, NEW g, NEW h,
             Lawful(a), Lawful(b), Lawful(c), Lawful(d), Lawful(e), Lawful(f), Lawful(g), Lawful(h)
      PROVE  LawfulSeq(<<a, b, c, d, e, f, g, h>>)
  <2>1. PICK S : Closed(S) /\ <<a, b, c, d, e, f, g>> \in Seq(S)
    BY <1>7, <1>6 DEF LawfulSeq
  <2>2. PICK T : Closed(T) /\ h \in T
    BY <1>7 DEF Lawful
  <2>3. <<a, b, c, d, e, f, g, h>> \in Seq(S \union T)
    BY <2>1, <2>2
  <2> QED BY <2>1, <2>2, <2>3, ClosedUnion DEF LawfulSeq
<1> QED BY <1>1, <1>2, <1>3, <1>4, <1>5, <1>6, <1>7

-----------------------------------------------------------------------------
\* The constructors of symbols.
LEMMA LawfulPlain ==
  ASSUME NEW s, DOMAIN s = Slots,
         s.op \notin Loops \union {"if", "again", "combine"},
         s.op = "call" => s.k \in DOMAIN Rules
  PROVE  Lawful(s)
<1>1. Inner(s) = {}
  BY DEF Inner
<1>2. Closed({s})
  BY <1>1 DEF Closed, Loops
<1> QED BY <1>2 DEF Lawful

LEMMA LawfulIf ==
  ASSUME NEW kinds, NEW yes, NEW no, LawfulSeq(yes), LawfulSeq(no)
  PROVE  Lawful(IfPeek(kinds, yes, no))
<1> DEFINE s == IfPeek(kinds, yes, no)
<1>1. /\ DOMAIN s = Slots /\ s.op = "if" /\ Inner(s) = {yes, no}
  BY DEF IfPeek, On, Symbol, Slots, Inner
<1>2. PICK S : Closed(S) /\ yes \in Seq(S)
  BY DEF LawfulSeq
<1>3. PICK T : Closed(T) /\ no \in Seq(T)
  BY DEF LawfulSeq
<1> DEFINE U == (S \union T) \union {s}
<1>4. yes \in Seq(U) /\ no \in Seq(U) /\ \A q \in Seq(S \union T) : q \in Seq(U)
  BY <1>2, <1>3, WiderSeq
<1>5. Closed(S \union T)
  BY <1>2, <1>3, ClosedUnion
<1> HIDE DEF s
<1>6. Closed(U)
  <2> SUFFICES ASSUME NEW x \in U
               PROVE  /\ DOMAIN x = Slots /\ x.op \notin {"again", "combine"}
                      /\ x.op = "call" => x.k \in DOMAIN Rules
                      /\ x.op = "many" => x.body \in Bodies
                      /\ \A q \in Inner(x) : q \in Seq(U)
    BY DEF Closed
  <2>1. CASE x = s
    BY <1>1, <1>4, <2>1
  <2>2. CASE x \in S \union T
    BY <1>4, <1>5, <2>2 DEF Closed
  <2> QED BY <2>1, <2>2
<1> QED BY <1>6 DEF Lawful, s

LEMMA LawfulLoop ==
  ASSUME NEW s, DOMAIN s = Slots, s.op \in Loops, LawfulSeq(s.body),
         s.op = "many" => s.body \in Bodies
  PROVE  Lawful(s)
<1>1. PICK S : Closed(S) /\ s.body \in Seq(S)
  BY DEF LawfulSeq
<1> DEFINE U == S \union {s}
<1>2. s.body \in Seq(U) /\ \A q \in Seq(S) : q \in Seq(U)
  BY <1>1, WiderSeq
<1>3. s.op \notin {"if", "call", "again", "combine"} /\ Inner(s) = {s.body}
  BY DEF Loops, Inner
<1>4. Closed(U)
  <2> SUFFICES ASSUME NEW x \in U
               PROVE  /\ DOMAIN x = Slots /\ x.op \notin {"again", "combine"}
                      /\ x.op = "call" => x.k \in DOMAIN Rules
                      /\ x.op = "many" => x.body \in Bodies
                      /\ \A q \in Inner(x) : q \in Seq(U)
    BY DEF Closed
  <2>1. CASE x = s
    BY <1>2, <1>3, <2>1
  <2>2. CASE x \in S
    BY <1>1, <1>2, <2>2 DEF Closed
  <2> QED BY <2>1, <2>2
<1> QED BY <1>4 DEF Lawful

Leaves ==
  {"ident", "advance", "newlines", "qualified", "dots", "typename", "stmt", "members",
   "declared", "prefix", "pipe", "argument", "fieldcall", "postfix", "fields", "generic",
   "segments", "items", "operand", "infix", "leave"}
LEMMA LawfulLeaves ==
  /\ \A k : Lawful(Expect(k))
  /\ \A op \in Leaves : Lawful(Do(op)) /\ \A n : Lawful(At(op, n))
  /\ \A k \in DOMAIN Rules : Lawful(Call(k))
  /\ Lawful(Name) /\ Lawful(Advance) /\ Lawful(Newlines)
<1>1. ASSUME NEW op, NEW k, op \notin Loops \union {"if", "again", "combine"},
             op = "call" => k \in DOMAIN Rules
      PROVE  Lawful(Symbol(op, k, <<>>))
  <2>1. DOMAIN Symbol(op, k, <<>>) = Slots /\ Symbol(op, k, <<>>).op = op
        /\ Symbol(op, k, <<>>).k = k
    BY DEF Symbol, Slots
  <2> QED BY <1>1, <2>1, LawfulPlain
<1>2. ASSUME NEW k PROVE Lawful(Expect(k))
  BY <1>1 DEF Expect, Loops
<1>3. ASSUME NEW op \in Leaves PROVE Lawful(Do(op))
  BY <1>1 DEF Do, Loops, Leaves
<1>4. ASSUME NEW op \in Leaves, NEW n PROVE Lawful(At(op, n))
  <2>1. DOMAIN At(op, n) = Slots /\ At(op, n).op = op
    BY DEF At, Do, Symbol, Slots
  <2>2. op \notin Loops \union {"if", "again", "combine", "call"}
    BY DEF Leaves, Loops
  <2> QED BY <2>1, <2>2, LawfulPlain
<1>5. ASSUME NEW k \in DOMAIN Rules PROVE Lawful(Call(k))
  BY <1>1 DEF Call, Loops
<1>6. Lawful(Name) /\ Lawful(Advance) /\ Lawful(Newlines)
  BY <1>3 DEF Name, Advance, Newlines, Leaves
<1> QED BY <1>2, <1>3, <1>4, <1>5, <1>6

LEMMA LawfulCompounds ==
  /\ \A k, q : LawfulSeq(q) => Lawful(Opt(k, q))
  /\ \A kinds, q : LawfulSeq(q) => Lawful(When(kinds, q)) /\ Lawful(While(kinds, q))
  /\ \A k, q : LawfulSeq(q) => Lawful(List(k, q)) /\ Lawful(Strict(k, q))
  /\ \A q : LawfulSeq(q) => Lawful(Nested(q)) /\ Lawful(Indented(q))
  /\ \A q : LawfulSeq(q) /\ q \in Bodies => Lawful(Many(q)) /\ Lawful(Body(q))
<1>1. ASSUME NEW kinds, NEW q, LawfulSeq(q)
      PROVE  Lawful(When(kinds, q)) /\ Lawful(While(kinds, q))
  <2>1. Lawful(When(kinds, q))
    BY <1>1, LawfulIf, LawfulNone DEF When
  <2>2. /\ DOMAIN While(kinds, q) = Slots /\ While(kinds, q).op = "while"
        /\ While(kinds, q).body = q
    BY DEF While, On, Symbol, Slots
  <2> QED BY <1>1, <2>1, <2>2, LawfulLoop DEF Loops
<1>2. ASSUME NEW k, NEW q, LawfulSeq(q) PROVE Lawful(Opt(k, q))
  BY <1>1, <1>2, LawfulOne, LawfulLeaves, LawfulConcat DEF Opt
<1>3. ASSUME NEW k, NEW q, LawfulSeq(q)
      PROVE  Lawful(List(k, q)) /\ Lawful(Strict(k, q))
  <2>1. /\ DOMAIN List(k, q) = Slots /\ List(k, q).op = "list" /\ List(k, q).body = q
        /\ DOMAIN Strict(k, q) = Slots /\ Strict(k, q).op = "list" /\ Strict(k, q).body = q
    BY DEF List, Strict, Symbol, Slots
  <2> QED BY <1>3, <2>1, LawfulLoop DEF Loops
<1>4. ASSUME NEW q, LawfulSeq(q) PROVE Lawful(Nested(q))
  <2>1. DOMAIN Nested(q) = Slots /\ Nested(q).op = "nested" /\ Nested(q).body = q
    BY DEF Nested, Symbol, Slots
  <2> QED BY <1>4, <2>1, LawfulLoop DEF Loops
<1>5. ASSUME NEW q, LawfulSeq(q) PROVE Lawful(Indented(q))
  <2>1. LawfulSeq(<<Newlines, Expect("Indent"), Newlines>>)
    BY LawfulLeaves, LawfulTuples
  <2>2. LawfulSeq(<<Close>>)
    BY <1>1, LawfulOne, LawfulLeaves DEF Close
  <2>3. LawfulSeq(<<Newlines, Expect("Indent"), Newlines>> \o q \o <<Close>>)
    BY <1>5, <2>1, <2>2, LawfulConcat
  <2> QED BY <1>4, <2>3 DEF Indented
<1>6. ASSUME NEW q, LawfulSeq(q), q \in Bodies PROVE Lawful(Many(q)) /\ Lawful(Body(q))
  <2>1. DOMAIN Many(q) = Slots /\ Many(q).op = "many" /\ Many(q).body = q
    BY DEF Many, Symbol, Slots
  <2>2. Lawful(Many(q))
    BY <1>6, <2>1, LawfulLoop DEF Loops
  <2> QED BY <1>5, <2>2, LawfulOne DEF Body
<1> QED BY <1>1, <1>2, <1>3, <1>4, <1>5, <1>6

\* The tables of rules together.
LEMMA RulesAre ==
  /\ \A r \in DOMAIN ItemRules : r \in DOMAIN Rules /\ Rules[r] = ItemRules[r]
  /\ \A r \in DOMAIN MemberRules : r \in DOMAIN Rules /\ Rules[r] = MemberRules[r]
  /\ \A r \in DOMAIN DataRules : r \in DOMAIN Rules /\ Rules[r] = DataRules[r]
  /\ \A r \in DOMAIN MachineRules : r \in DOMAIN Rules /\ Rules[r] = MachineRules[r]
  /\ \A r \in DOMAIN TypeRules : r \in DOMAIN Rules /\ Rules[r] = TypeRules[r]
  /\ \A r \in DOMAIN StatementRules : r \in DOMAIN Rules /\ Rules[r] = StatementRules[r]
  /\ \A r \in DOMAIN LineRules : r \in DOMAIN Rules /\ Rules[r] = LineRules[r]
  /\ \A r \in DOMAIN ExpressionRules : r \in DOMAIN Rules /\ Rules[r] = ExpressionRules[r]
<1>1. DOMAIN ItemRules =
       {"Namespace", "Verify", "Property", "Type", "Function", "DeclRest",
        "TypeParams", "Params", "Param", "OptParams"}
  BY DEF ItemRules
<1>2. DOMAIN MemberRules =
       {"Mutual", "Interface", "Implement", "Struct", "Field", "Fields"}
  BY DEF MemberRules
<1>3. DOMAIN DataRules =
       {"Bitfield", "Bits", "Enum", "Variant"}
  BY DEF DataRules
<1>4. DOMAIN MachineRules =
       {"Machine", "State", "Transition", "Actor", "Receive"}
  BY DEF MachineRules
<1>5. DOMAIN TypeRules =
       {"TypeExpr", "FnType", "NamedType"}
  BY DEF TypeRules
<1>6. DOMAIN StatementRules =
       {"Return", "Respond", "Comptime", "If", "Else", "For", "While"}
  BY DEF StatementRules
<1>7. DOMAIN LineRules =
       {"Match", "Bindings", "Use", "Assert", "Trace", "Breakpoint", "Break",
        "Continue", "VarDecl", "Plain", "Handled", "Handle", "Block"}
  BY DEF LineRules
<1>8. DOMAIN ExpressionRules =
       {"Expr", "Paren", "Wrapped", "Default", "Items", "Entries", "InlineFn",
        "Segments", "Args", "Generic", "Step", "Pipeline", "Lines"}
  BY SMTT(30) DEF ExpressionRules
<1> QED BY <1>1, <1>2, <1>3, <1>4, <1>5, <1>6, <1>7, <1>8 DEF Rules

\* What the rules call.
Called ==
  {"Args", "Bindings", "Bits", "Block", "DeclRest", "Else", "Expr", "Field", "Fields",
   "FnType", "Function", "Generic", "Handle", "Handled", "Lines", "NamedType",
   "OptParams", "Param", "Params", "Pipeline", "Plain", "Receive", "State", "Step",
   "Transition", "TypeExpr", "TypeParams", "VarDecl", "Variant"}
LEMMA CalledRules == Called \subseteq DOMAIN Rules
BY RulesAre, ZenonT(30) DEF Called, ItemRules, MemberRules, DataRules, MachineRules, TypeRules,
       StatementRules, LineRules, ExpressionRules

LEMMA LawfulSymbols ==
  /\ \A r \in Called : Lawful(Call(r))
BY CalledRules, LawfulLeaves

LEMMA LawfulBodies == \A b \in Bodies : LawfulSeq(b)
BY LawfulLeaves, LawfulCompounds, LawfulIf, LawfulOne, LawfulNone, LawfulTuples, LawfulSymbols
   DEF Bodies, AdvancingBodies, StallingBodies, Member, FirstOfCase, Leaves, Called

\* The indented bodies of the rules.
LEMMA LawfulIndents ==
  /\ Lawful(Body(<<Do("stmt")>>)) /\ Lawful(Many(<<Do("stmt")>>))
  /\ Lawful(Body(<<Opt("Export", <<>>), Expect("Function"), Call("DeclRest")>>))
  /\ Lawful(Body(<<Expect("Function"), Call("DeclRest")>>))
  /\ Lawful(Body(<<Call("Function")>>))
  /\ Lawful(Body(<<IfPeek({"Function"}, <<Call("Function")>>, <<Call("Field")>>)>>))
  /\ Lawful(Body(<<Name, Expect("Colon"), Call("Bits")>>))
  /\ Lawful(Body(<<IfPeek({"Other"}, <<Advance>>, <<Name>>),
                   Call("Bindings"), Expect("Colon"), Call("Block")>>))
  /\ Lawful(Body(<<Call("Variant")>>)) /\ Lawful(Body(<<Call("State")>>))
  /\ Lawful(Body(<<Call("Transition")>>)) /\ Lawful(Close)
<1>0. Lawful(Close)
  BY LawfulCompounds, LawfulLeaves, LawfulOne DEF Close
<1>1. \A b \in Bodies : Lawful(Many(b)) /\ Lawful(Body(b))
  BY LawfulBodies, LawfulCompounds
<1> QED BY <1>0, <1>1 DEF Bodies, AdvancingBodies, StallingBodies, Member, FirstOfCase

LEMMA LawfulItemRules == \A r \in DOMAIN ItemRules : LawfulSeq(ItemRules[r])
<1> USE LawfulLeaves, LawfulCompounds, LawfulIf, LawfulOne, LawfulNone, LawfulTuples,
        LawfulSymbols, LawfulIndents DEF ItemRules, Leaves, Called
<1>1. LawfulSeq(ItemRules["Namespace"])
  OBVIOUS
<1>2. LawfulSeq(ItemRules["Verify"])
  OBVIOUS
<1>3. LawfulSeq(ItemRules["Property"])
  OBVIOUS
<1>4. LawfulSeq(ItemRules["Type"])
  OBVIOUS
<1>5. LawfulSeq(ItemRules["Function"])
  OBVIOUS
<1>6. LawfulSeq(ItemRules["DeclRest"])
  OBVIOUS
<1>7. LawfulSeq(ItemRules["TypeParams"])
  OBVIOUS
<1>8. LawfulSeq(ItemRules["Params"])
  OBVIOUS
<1>9. LawfulSeq(ItemRules["Param"])
  OBVIOUS
<1>10. LawfulSeq(ItemRules["OptParams"])
  OBVIOUS
<1> QED BY ZenonT(60), <1>1, <1>2, <1>3, <1>4, <1>5, <1>6, <1>7, <1>8, <1>9, <1>10

LEMMA LawfulMemberRules == \A r \in DOMAIN MemberRules : LawfulSeq(MemberRules[r])
<1> USE LawfulLeaves, LawfulCompounds, LawfulIf, LawfulOne, LawfulNone, LawfulTuples,
        LawfulSymbols, LawfulIndents DEF MemberRules, Leaves, Called
<1>1. LawfulSeq(MemberRules["Mutual"])
  OBVIOUS
<1>2. LawfulSeq(MemberRules["Interface"])
  OBVIOUS
<1>3. LawfulSeq(MemberRules["Implement"])
  OBVIOUS
<1>4. LawfulSeq(MemberRules["Struct"])
  OBVIOUS
<1>5. LawfulSeq(MemberRules["Field"])
  OBVIOUS
<1>6. LawfulSeq(MemberRules["Fields"])
  OBVIOUS
<1> QED BY <1>1, <1>2, <1>3, <1>4, <1>5, <1>6

LEMMA LawfulDataRules == \A r \in DOMAIN DataRules : LawfulSeq(DataRules[r])
<1> USE LawfulLeaves, LawfulCompounds, LawfulIf, LawfulOne, LawfulNone, LawfulTuples,
        LawfulSymbols, LawfulIndents DEF DataRules, Leaves, Called
<1>1. LawfulSeq(DataRules["Bitfield"])
  OBVIOUS
<1>2. LawfulSeq(DataRules["Bits"])
  OBVIOUS
<1>3. LawfulSeq(DataRules["Enum"])
  OBVIOUS
<1>4. LawfulSeq(DataRules["Variant"])
  OBVIOUS
<1> QED BY <1>1, <1>2, <1>3, <1>4

LEMMA LawfulMachineRules == \A r \in DOMAIN MachineRules : LawfulSeq(MachineRules[r])
<1> USE LawfulLeaves, LawfulCompounds, LawfulIf, LawfulOne, LawfulNone, LawfulTuples,
        LawfulSymbols, LawfulIndents DEF MachineRules, Leaves, Called
<1>1. LawfulSeq(MachineRules["Machine"])
  OBVIOUS
<1>2. LawfulSeq(MachineRules["State"])
  OBVIOUS
<1>3. LawfulSeq(MachineRules["Transition"])
  OBVIOUS
<1>4. LawfulSeq(MachineRules["Actor"])
  OBVIOUS
<1>5. LawfulSeq(MachineRules["Receive"])
  OBVIOUS
<1> QED BY <1>1, <1>2, <1>3, <1>4, <1>5

LEMMA LawfulTypeRules == \A r \in DOMAIN TypeRules : LawfulSeq(TypeRules[r])
<1> USE LawfulLeaves, LawfulCompounds, LawfulIf, LawfulOne, LawfulNone, LawfulTuples,
        LawfulSymbols, LawfulIndents DEF TypeRules, Leaves, Called
<1>1. LawfulSeq(TypeRules["TypeExpr"])
  OBVIOUS
<1>2. LawfulSeq(TypeRules["FnType"])
  OBVIOUS
<1>3. LawfulSeq(TypeRules["NamedType"])
  OBVIOUS
<1> QED BY <1>1, <1>2, <1>3

LEMMA LawfulStatementRules == \A r \in DOMAIN StatementRules : LawfulSeq(StatementRules[r])
<1> USE LawfulLeaves, LawfulCompounds, LawfulIf, LawfulOne, LawfulNone, LawfulTuples,
        LawfulSymbols, LawfulIndents DEF StatementRules, Leaves, Called
<1>1. LawfulSeq(StatementRules["Return"])
  OBVIOUS
<1>2. LawfulSeq(StatementRules["Respond"])
  OBVIOUS
<1>3. LawfulSeq(StatementRules["Comptime"])
  OBVIOUS
<1>4. LawfulSeq(StatementRules["If"])
  OBVIOUS
<1>5. LawfulSeq(StatementRules["Else"])
  OBVIOUS
<1>6. LawfulSeq(StatementRules["For"])
  OBVIOUS
<1>7. LawfulSeq(StatementRules["While"])
  BY SMTT(30)
<1> QED BY <1>1, <1>2, <1>3, <1>4, <1>5, <1>6, <1>7

LEMMA LawfulLineRules == \A r \in DOMAIN LineRules : LawfulSeq(LineRules[r])
<1> USE LawfulLeaves, LawfulCompounds, LawfulIf, LawfulOne, LawfulNone, LawfulTuples,
        LawfulSymbols, LawfulIndents DEF LineRules, Leaves, Called
<1>1. LawfulSeq(LineRules["Match"])
  OBVIOUS
<1>2. LawfulSeq(LineRules["Bindings"])
  OBVIOUS
<1>3. LawfulSeq(LineRules["Use"])
  OBVIOUS
<1>4. LawfulSeq(LineRules["Assert"])
  OBVIOUS
<1>5. LawfulSeq(LineRules["Trace"])
  OBVIOUS
<1>6. LawfulSeq(LineRules["Breakpoint"])
  OBVIOUS
<1>7. LawfulSeq(LineRules["Break"])
  OBVIOUS
<1>8. LawfulSeq(LineRules["Continue"])
  OBVIOUS
<1>9. LawfulSeq(LineRules["VarDecl"])
  OBVIOUS
<1>10. LawfulSeq(LineRules["Plain"])
  OBVIOUS
<1>11. LawfulSeq(LineRules["Handled"])
  OBVIOUS
<1>12. LawfulSeq(LineRules["Handle"])
  OBVIOUS
<1>13. LawfulSeq(LineRules["Block"])
  BY SMTT(30)
<1> QED BY ZenonT(60), <1>1, <1>2, <1>3, <1>4, <1>5, <1>6, <1>7, <1>8, <1>9, <1>10, <1>11, <1>12, <1>13

LEMMA LawfulExpressionRules == \A r \in DOMAIN ExpressionRules : LawfulSeq(ExpressionRules[r])
<1> USE LawfulLeaves, LawfulCompounds, LawfulIf, LawfulOne, LawfulNone, LawfulTuples,
        LawfulSymbols, LawfulIndents DEF ExpressionRules, Leaves, Called
<1>1. LawfulSeq(ExpressionRules["Expr"])
  OBVIOUS
<1>2. LawfulSeq(ExpressionRules["Paren"])
  OBVIOUS
<1>3. LawfulSeq(ExpressionRules["Wrapped"])
  OBVIOUS
<1>4. LawfulSeq(ExpressionRules["Default"])
  OBVIOUS
<1>5. LawfulSeq(ExpressionRules["Items"])
  OBVIOUS
<1>6. LawfulSeq(ExpressionRules["Entries"])
  OBVIOUS
<1>7. LawfulSeq(ExpressionRules["InlineFn"])
  OBVIOUS
<1>8. LawfulSeq(ExpressionRules["Segments"])
  OBVIOUS
<1>9. LawfulSeq(ExpressionRules["Args"])
  OBVIOUS
<1>10. LawfulSeq(ExpressionRules["Generic"])
  OBVIOUS
<1>11. LawfulSeq(ExpressionRules["Step"])
  OBVIOUS
<1>12. LawfulSeq(ExpressionRules["Pipeline"])
  OBVIOUS
<1>13. LawfulSeq(ExpressionRules["Lines"])
  OBVIOUS
<1> QED BY ZenonT(60), <1>1, <1>2, <1>3, <1>4, <1>5, <1>6, <1>7, <1>8, <1>9, <1>10, <1>11, <1>12, <1>13

LEMMA LawfulRules == \A r \in DOMAIN Rules : LawfulSeq(Rules[r])
<1>1. DOMAIN Rules =
        UNION {DOMAIN ItemRules, DOMAIN MemberRules, DOMAIN DataRules, DOMAIN MachineRules,
               DOMAIN TypeRules, DOMAIN StatementRules, DOMAIN LineRules,
               DOMAIN ExpressionRules}
  BY DEF Rules
<1> QED BY <1>1, RulesAre, LawfulItemRules, LawfulMemberRules, LawfulDataRules,
           LawfulMachineRules, LawfulTypeRules, LawfulStatementRules, LawfulLineRules,
           LawfulExpressionRules

-----------------------------------------------------------------------------
(* Taking tokens.                                                          *)

\* The rules that take the next token, whatever it is, except Dedent or Eof.
Taking ==
  {"TypeExpr", "FnType", "NamedType", "Expr", "Plain", "VarDecl", "Field", "Bits",
   "DeclRest", "Function", "Block", "Param", "Paren", "Wrapped", "Default", "Items",
   "Entries", "InlineFn", "Segments"}

\* What is sure to take a token if the next one is a k that is neither.
Takes(k, s) ==
  \/ s.op \in {"advance", "typename", "stmt", "operand", "prefix"}
  \/ s.op = "expect" /\ s.k = k
  \/ s.op \in {"ident", "qualified"} /\ k \in Idents
  \/ s.op = "call" /\ s.k \in Taking
  \/ s.op = "call" /\ s.k \in StatementStarts /\ s.k = k
  \/ s.op = "call" /\ s.k = "Params" /\ k # "RParen"
  \/ s.op = "list" /\ s.k = "RParen" /\ s.body = <<Call("Param")>> /\ k # "RParen"
  \/ s.op = "many" /\ s.body \in AdvancingBodies
Chosen(k, s) == IF k \in s.kinds THEN s.body[1] ELSE s.body[2]
Chooses(k, s) ==
  Takes(k, s) \/ (s.op = "if" /\ \E j \in DOMAIN Chosen(k, s) : Takes(k, Chosen(k, s)[j]))
Sure(k, s) ==
  \/ Chooses(k, s)
  \/ s.op = "if" /\ \E j \in DOMAIN Chosen(k, s) : Chooses(k, Chosen(k, s)[j])
  \/ s.op = "nested" /\ \E j \in DOMAIN s.body : Takes(k, s.body[j])
SureSeq(k, q) == \E j \in DOMAIN q : Sure(k, q[j])

Halts == {"Dedent", "Eof"}

LEMMA SureTuples ==
  ASSUME NEW k
  PROVE  /\ \A a : Sure(k, a) => SureSeq(k, <<a>>)
         /\ \A a, b :
              Sure(k, a) \/ Sure(k, b)
                => SureSeq(k, <<a, b>>)
         /\ \A a, b, c :
              Sure(k, a) \/ Sure(k, b) \/ Sure(k, c)
                => SureSeq(k, <<a, b, c>>)
         /\ \A a, b, c, d :
              Sure(k, a) \/ Sure(k, b) \/ Sure(k, c) \/ Sure(k, d)
                => SureSeq(k, <<a, b, c, d>>)
         /\ \A a, b, c, d, e :
              Sure(k, a) \/ Sure(k, b) \/ Sure(k, c) \/ Sure(k, d) \/ Sure(k, e)
                => SureSeq(k, <<a, b, c, d, e>>)
         /\ \A a, b, c, d, e, f :
              Sure(k, a) \/ Sure(k, b) \/ Sure(k, c) \/ Sure(k, d) \/ Sure(k, e)
              \/ Sure(k, f)
                => SureSeq(k, <<a, b, c, d, e, f>>)
         /\ \A a, b, c, d, e, f, g :
              Sure(k, a) \/ Sure(k, b) \/ Sure(k, c) \/ Sure(k, d) \/ Sure(k, e)
              \/ Sure(k, f) \/ Sure(k, g)
                => SureSeq(k, <<a, b, c, d, e, f, g>>)
         /\ \A a, b, c, d, e, f, g, h :
              Sure(k, a) \/ Sure(k, b) \/ Sure(k, c) \/ Sure(k, d) \/ Sure(k, e)
              \/ Sure(k, f) \/ Sure(k, g) \/ Sure(k, h)
                => SureSeq(k, <<a, b, c, d, e, f, g, h>>)
<1>1. ASSUME NEW a, NEW i \in 1 .. 1, Sure(k, <<a>>[i])
      PROVE  SureSeq(k, <<a>>)
  BY <1>1 DEF SureSeq
<1>2. ASSUME NEW a, NEW b, NEW i \in 1 .. 2, Sure(k, <<a, b>>[i])
      PROVE  SureSeq(k, <<a, b>>)
  BY <1>2 DEF SureSeq
<1>3. ASSUME NEW a, NEW b, NEW c, NEW i \in 1 .. 3, Sure(k, <<a, b, c>>[i])
      PROVE  SureSeq(k, <<a, b, c>>)
  BY <1>3 DEF SureSeq
<1>4. ASSUME NEW a, NEW b, NEW c, NEW d, NEW i \in 1 .. 4, Sure(k, <<a, b, c, d>>[i])
      PROVE  SureSeq(k, <<a, b, c, d>>)
  BY <1>4 DEF SureSeq
<1>5. ASSUME NEW a, NEW b, NEW c, NEW d, NEW e, NEW i \in 1 .. 5, Sure(k, <<a, b, c, d, e>>[i])
      PROVE  SureSeq(k, <<a, b, c, d, e>>)
  BY <1>5 DEF SureSeq
<1>6. ASSUME NEW a, NEW b, NEW c, NEW d, NEW e, NEW f, NEW i \in 1 .. 6, Sure(k, <<a, b, c, d, e, f>>[i])
      PROVE  SureSeq(k, <<a, b, c, d, e, f>>)
  BY <1>6 DEF SureSeq
<1>7. ASSUME NEW a, NEW b, NEW c, NEW d, NEW e, NEW f, NEW g, NEW i \in 1 .. 7, Sure(k, <<a, b, c, d, e, f, g>>[i])
      PROVE  SureSeq(k, <<a, b, c, d, e, f, g>>)
  BY <1>7 DEF SureSeq
<1>8. ASSUME NEW a, NEW b, NEW c, NEW d, NEW e, NEW f, NEW g, NEW h, NEW i \in 1 .. 8, Sure(k, <<a, b, c, d, e, f, g, h>>[i])
      PROVE  SureSeq(k, <<a, b, c, d, e, f, g, h>>)
  BY <1>8, SMTT(30) DEF SureSeq
<1> QED BY <1>1, <1>2, <1>3, <1>4, <1>5, <1>6, <1>7, <1>8

LEMMA SureSymbols ==
  ASSUME NEW k
  PROVE  /\ Sure(k, Advance) /\ Sure(k, Do("typename")) /\ Sure(k, Do("stmt"))
         /\ Sure(k, Do("prefix")) /\ \A n : Sure(k, At("operand", n))
         /\ Sure(k, Expect(k)) /\ (k \in Idents => Sure(k, Name) /\ Sure(k, Do("qualified")))
         /\ \A r \in Taking : Sure(k, Call(r))
         /\ k \in StatementStarts => Sure(k, Call(k))
         /\ k # "RParen" => Sure(k, Call("Params"))
         /\ \A b \in AdvancingBodies : Sure(k, Many(b))
<1>1. /\ Do("advance").op = "advance" /\ Do("typename").op = "typename"
      /\ Do("stmt").op = "stmt" /\ Do("prefix").op = "prefix" /\ Do("ident").op = "ident"
      /\ Do("qualified").op = "qualified" /\ \A n : At("operand", n).op = "operand"
      /\ \A r : Expect(r).op = "expect" /\ Expect(r).k = r
      /\ \A r : Call(r).op = "call" /\ Call(r).k = r
      /\ \A b : Many(b).op = "many" /\ Many(b).body = b
  BY DEF Do, At, Expect, Call, Many, Symbol
<1> QED BY <1>1, ZenonT(30) DEF Sure, Chooses, Takes, Advance, Name

\* A choice is sure if both of its sides are.
LEMMA SureIf ==
  ASSUME NEW k, NEW kinds, NEW yes, NEW no, NEW i \in DOMAIN yes, NEW j \in DOMAIN no
  PROVE  /\ Takes(k, yes[i]) /\ Takes(k, no[j]) => Chooses(k, IfPeek(kinds, yes, no))
         /\ Chooses(k, yes[i]) /\ Chooses(k, no[j]) => Sure(k, IfPeek(kinds, yes, no))
<1>1. /\ IfPeek(kinds, yes, no).op = "if"
      /\ Chosen(k, IfPeek(kinds, yes, no)) = IF k \in kinds THEN yes ELSE no
  BY DEF IfPeek, On, Symbol, Chosen
<1> QED BY <1>1 DEF Sure, Chooses

LEMMA SureChoices ==
  ASSUME NEW k
  PROVE  /\ Sure(k, Member)
         /\ SureSeq(k, TypeRules["TypeExpr"])
         /\ SureSeq(k, DataRules["Bits"])
         /\ Sure(k, Body(<<Do("stmt")>>))
<1>1. /\ \A r \in Taking : Takes(k, Call(r))
      /\ Takes(k, Advance) /\ Takes(k, Many(<<Do("stmt")>>))
  BY DEF Takes, Call, Advance, Do, Many, Symbol, AdvancingBodies
<1>2. Sure(k, Member)
  <2> DEFINE yes == <<Call("Function")>>
             no == <<Call("Field")>>
  <2>1. 1 \in DOMAIN yes /\ Takes(k, yes[1]) /\ 1 \in DOMAIN no /\ Takes(k, no[1])
    BY <1>1 DEF Taking
  <2> HIDE DEF yes, no
  <2>2. Chooses(k, IfPeek({"Function"}, yes, no))
    BY <2>1, SureIf
  <2> QED BY <2>2 DEF Sure, Member, yes, no
<1>3. SureSeq(k, TypeRules["TypeExpr"])
  <2> DEFINE yes == <<Call("FnType")>>
             no == <<Call("NamedType")>>
             view == <<Advance, Call("TypeExpr")>>
             named == <<IfPeek({"Function"}, yes, no)>>
  <2>1. /\ 1 \in DOMAIN yes /\ Takes(k, yes[1]) /\ 1 \in DOMAIN no /\ Takes(k, no[1])
        /\ 1 \in DOMAIN view /\ Chooses(k, view[1])
    BY <1>1 DEF Taking, Chooses
  <2> HIDE DEF yes, no, view
  <2>2. 1 \in DOMAIN named /\ Chooses(k, named[1])
    BY <2>1, SureIf
  <2> HIDE DEF named
  <2>3. Sure(k, IfPeek({"View"}, view, named))
    BY <2>1, <2>2, SureIf
  <2>4. TypeRules["TypeExpr"] =
          <<IfPeek({"View"}, view, named), While({"At"}, <<Advance, Name>>)>>
    BY DEF TypeRules, view, named, yes, no
  <2> QED BY <2>3, <2>4, SureTuples
<1>4. SureSeq(k, DataRules["Bits"])
  <2> DEFINE yes == <<Advance, IfPeek({"Bit"}, <<Advance>>, <<Expect("Bits")>>),
                      Opt("As", <<Call("TypeExpr")>>)>>
             no == <<Call("TypeExpr")>>
  <2>1. /\ 1 \in DOMAIN yes /\ Takes(k, yes[1]) /\ 1 \in DOMAIN no /\ Takes(k, no[1])
    BY <1>1 DEF Taking
  <2>2. DataRules["Bits"] = <<IfPeek({"IntLiteral"}, yes, no)>>
    BY DEF DataRules
  <2> HIDE DEF yes, no
  <2>3. Chooses(k, IfPeek({"IntLiteral"}, yes, no))
    BY <2>1, SureIf
  <2> QED BY <2>2, <2>3, SureTuples DEF Sure
<1>5. Sure(k, Body(<<Do("stmt")>>))
  <2> DEFINE q == <<Newlines, Expect("Indent"), Newlines>>
             m == <<Many(<<Do("stmt")>>)>>
  <2>1. (q \o m \o <<Close>>)[4] = Many(<<Do("stmt")>>) /\ 4 \in DOMAIN (q \o m \o <<Close>>)
    OBVIOUS
  <2>2. Body(<<Do("stmt")>>) = Nested(q \o m \o <<Close>>)
    BY DEF Body, Indented
  <2>3. \A b : Nested(b).op = "nested" /\ Nested(b).body = b
    BY DEF Nested, Symbol
  <2>4. PICK b : b = q \o m \o <<Close>>
    OBVIOUS
  <2> HIDE DEF q, m
  <2>5. 4 \in DOMAIN b /\ Takes(k, b[4])
    BY <1>1, <2>1, <2>4, Zenon
  <2>6. Body(<<Do("stmt")>>).op = "nested" /\ Body(<<Do("stmt")>>).body = b
    BY <2>2, <2>3, <2>4, Zenon
  <2>7. PICK s : s = Body(<<Do("stmt")>>)
    OBVIOUS
  <2>8. Sure(k, s)
    BY <2>5, <2>6, <2>7, Zenon DEF Sure
  <2> QED BY <2>7, <2>8, Zenon
<1> QED BY <1>2, <1>3, <1>4, <1>5

LEMMA SureRules ==
  ASSUME NEW k, NEW r \in Taking
  PROVE  r \in DOMAIN Rules /\ SureSeq(k, Rules[r])
<1> USE SureTuples, SureSymbols, SureChoices DEF Taking
<1>1. \A x \in {"TypeExpr", "FnType", "NamedType"} : x \in DOMAIN TypeRules /\ SureSeq(k, TypeRules[x])
  <2>1. SureSeq(k, TypeRules["TypeExpr"])
    BY DEF TypeRules
  <2>2. SureSeq(k, TypeRules["FnType"])
    BY DEF TypeRules
  <2>3. SureSeq(k, TypeRules["NamedType"])
    BY DEF TypeRules
  <2> QED BY <2>1, <2>2, <2>3 DEF TypeRules
<1>2. \A x \in {"DeclRest", "Function", "Param"} : x \in DOMAIN ItemRules /\ SureSeq(k, ItemRules[x])
  <2>1. SureSeq(k, ItemRules["DeclRest"])
    BY DEF ItemRules
  <2>2. SureSeq(k, ItemRules["Function"])
    BY DEF ItemRules
  <2>3. SureSeq(k, ItemRules["Param"])
    BY DEF ItemRules
  <2> QED BY <2>1, <2>2, <2>3 DEF ItemRules
<1>3. \A x \in {"Field"} : x \in DOMAIN MemberRules /\ SureSeq(k, MemberRules[x])
  <2>1. SureSeq(k, MemberRules["Field"])
    BY DEF MemberRules
  <2> QED BY <2>1 DEF MemberRules
<1>4. \A x \in {"Bits"} : x \in DOMAIN DataRules /\ SureSeq(k, DataRules[x])
  <2>1. SureSeq(k, DataRules["Bits"])
    BY DEF DataRules
  <2> QED BY <2>1 DEF DataRules
<1>5. \A x \in {"VarDecl", "Plain", "Block"} : x \in DOMAIN LineRules /\ SureSeq(k, LineRules[x])
  <2>1. SureSeq(k, LineRules["VarDecl"])
    BY DEF LineRules
  <2>2. SureSeq(k, LineRules["Plain"])
    BY DEF LineRules
  <2>3. SureSeq(k, LineRules["Block"])
    BY SMTT(30) DEF LineRules
  <2> QED BY <2>1, <2>2, <2>3, ZenonT(30) DEF LineRules
<1>6. \A x \in {"Expr", "Paren", "Wrapped", "Default", "Items", "Entries", "InlineFn", "Segments"} : x \in DOMAIN ExpressionRules /\ SureSeq(k, ExpressionRules[x])
  <2>1. SureSeq(k, ExpressionRules["Expr"])
    BY DEF ExpressionRules
  <2>2. SureSeq(k, ExpressionRules["Paren"])
    BY DEF ExpressionRules
  <2>3. SureSeq(k, ExpressionRules["Wrapped"])
    BY DEF ExpressionRules
  <2>4. SureSeq(k, ExpressionRules["Default"])
    BY DEF ExpressionRules
  <2>5. SureSeq(k, ExpressionRules["Items"])
    BY DEF ExpressionRules
  <2>6. SureSeq(k, ExpressionRules["Entries"])
    BY DEF ExpressionRules
  <2>7. SureSeq(k, ExpressionRules["InlineFn"])
    BY DEF ExpressionRules
  <2>8. SureSeq(k, ExpressionRules["Segments"])
    BY DEF ExpressionRules
  <2> QED BY <2>1, <2>2, <2>3, <2>4, <2>5, <2>6, <2>7, <2>8, ZenonT(30) DEF ExpressionRules
<1> HIDE SureTuples, SureSymbols, SureChoices
<1> QED BY <1>1, <1>2, <1>3, <1>4, <1>5, <1>6, RulesAre

LEMMA SureStatements ==
  ASSUME NEW k \in StatementStarts
  PROVE  k \in DOMAIN Rules /\ SureSeq(k, Rules[k])
<1> USE SureTuples, SureSymbols
<1>1. \A x \in {"Return", "Respond", "Comptime", "If", "For", "While"} :
        x \in DOMAIN StatementRules /\ SureSeq(x, StatementRules[x])
  BY DEF StatementRules
<1>2. \A x \in {"Match", "Use", "Assert", "Trace", "Breakpoint", "Break", "Continue"} :
        x \in DOMAIN LineRules /\ SureSeq(x, LineRules[x])
  BY DEF LineRules
<1> HIDE SureTuples, SureSymbols
<1> QED BY <1>1, <1>2, RulesAre DEF StatementStarts

LEMMA SureBodies ==
  ASSUME NEW k, NEW b \in AdvancingBodies
  PROVE  SureSeq(k, b)
BY SureTuples, SureSymbols, SureChoices DEF AdvancingBodies, Taking

LEMMA SureParams ==
  ASSUME NEW k, k # "RParen"
  PROVE  "Params" \in DOMAIN Rules /\ SureSeq(k, Rules["Params"])
<1>1. Sure(k, List("RParen", <<Call("Param")>>))
  BY DEF Sure, Chooses, Takes, List, Symbol
<1> QED BY <1>1, SureTuples, RulesAre DEF ItemRules

-----------------------------------------------------------------------------
(* The inductive invariant.  While a turn of a loop has taken no token its  *)
(* body is in progress before the loop's symbol, and something of it that   *)
(* is left will take one.                                                   *)

Held(s) ==
  \/ Lawful(s)
  \/ s.op = "again" /\ s.body \in Bodies /\ s.n \in Nat
  \/ s.op = "combine" /\ s.n \in DOMAIN tokens
Turns(q, i) ==
  q[i].op = "again" =>
    /\ q[i].n <= pos
    /\ q[i].n = pos =>
         /\ Peek \notin Halts
         /\ q[i].body \in StallingBodies \/ \E j \in 1 .. (i - 1) : Sure(Peek, q[j])
PInv ==
  /\ tokens \in Seq(Kinds) /\ pos \in 1 .. (Len(tokens) + 1)
  /\ \E S : todo \in Seq(S)
  /\ \A i \in DOMAIN todo : Held(todo[i]) /\ Turns(todo, i)

LEMMA LawfulHeld ==
  ASSUME NEW s, Lawful(s)
  PROVE  s.op \notin {"again", "combine"} /\ DOMAIN s = Slots /\ Held(s)
BY DEF Lawful, Closed, Held

LEMMA InitPInv == Init => PInv
<1> SUFFICES ASSUME Init PROVE PInv
  OBVIOUS
<1>1. tokens \in Seq(Kinds) /\ pos = 1 /\ Len(tokens) \in Nat
  BY InputsAreSequences DEF Init
<1>2. LawfulSeq(todo)
  BY LawfulLeaves, LawfulTuples DEF Init, Leaves
<1>3. \A i \in DOMAIN todo : Held(todo[i]) /\ Turns(todo, i)
  BY <1>2, LawfulMember, LawfulHeld DEF Turns
<1> QED BY <1>1, <1>2, <1>3 DEF PInv, LawfulSeq

\* The symbol on top gives way to others, none to all.
LEMMA Replaced ==
  ASSUME PInv, todo # <<>>, NEW q, \E S : q \in Seq(S), todo' = q \o Tail(todo),
         tokens' = tokens, pos' \in pos .. (Len(tokens) + 1),
         \A i \in DOMAIN q :
           /\ Held(q[i])
           /\ q[i].op = "again" => pos' = pos /\ Turns(q, i),
         pos' = pos /\ Peek \notin Halts /\ Sure(Peek, Top) => SureSeq(Peek, q)
  PROVE  PInv'
<1> DEFINE rest == Tail(todo)
<1>1. /\ tokens \in Seq(Kinds) /\ Len(tokens) \in Nat /\ pos \in 1 .. (Len(tokens) + 1)
      /\ \A i \in DOMAIN todo : Held(todo[i]) /\ Turns(todo, i)
  BY DEF PInv
<1>2. PICK S : todo \in Seq(S)
  BY DEF PInv
<1>3. PICK T : q \in Seq(T)
  OBVIOUS
<1>4. /\ rest \in Seq(S) /\ Len(todo) \in Nat \ {0} /\ Len(rest) = Len(todo) - 1
      /\ \A i \in 1 .. Len(rest) : rest[i] = todo[i + 1]
      /\ DOMAIN todo = 1 .. Len(todo) /\ todo[1] = Top
  BY <1>2, HeadTailProperties, LenProperties, EmptySeq DEF Top
<1>5. /\ q \in Seq(S \union T) /\ rest \in Seq(S \union T)
      /\ Len(q) \in Nat /\ DOMAIN q = 1 .. Len(q)
  BY <1>3, <1>4, WiderSeq
<1> HIDE DEF rest
<1>6. /\ todo' \in Seq(S \union T) /\ DOMAIN todo' = 1 .. (Len(q) + Len(rest))
      /\ \A i \in 1 .. Len(q) : todo'[i] = q[i]
      /\ \A i \in 1 .. Len(rest) : todo'[Len(q) + i] = rest[i]
  BY <1>5 DEF rest
<1>7. pos' = pos => Peek' = Peek
  BY DEF Peek, Kind
<1>8. \A x : Held(x)' <=> Held(x)
  BY DEF Held
<1>9. ASSUME NEW i \in 1 .. Len(q) PROVE Held(todo[i])' /\ Turns(todo, i)'
  <2>1. todo'[i] = q[i] /\ i \in DOMAIN q
    BY <1>5, <1>6
  <2>2. CASE q[i].op # "again"
    BY <1>8, <2>1, <2>2 DEF Turns
  <2>3. CASE q[i].op = "again"
    <3>1. pos' = pos /\ Turns(q, i) /\ Peek' = Peek
      BY <1>7, <2>1, <2>3
    <3>2. \A j \in 1 .. (i - 1) : todo'[j] = q[j]
      BY <1>5, <1>6
    <3> QED BY <1>8, <2>1, <3>1, <3>2 DEF Turns
  <2> QED BY <2>2, <2>3
<1>10. ASSUME NEW m \in 1 .. Len(rest)
       PROVE  Held(todo[Len(q) + m])' /\ Turns(todo, Len(q) + m)'
  <2>1. todo'[Len(q) + m] = todo[m + 1] /\ m + 1 \in DOMAIN todo
    <3>1. todo'[Len(q) + m] = rest[m]
      BY <1>6
    <3>2. rest[m] = todo[m + 1]
      BY <1>4
    <3>3. m + 1 \in 1 .. Len(todo)
      BY <1>4
    <3> QED BY <1>4, <3>1, <3>2, <3>3, Zenon
  <2>2. Held(todo[m + 1]) /\ Turns(todo, m + 1)
    BY <1>1, <2>1
  <2>3. ASSUME todo[m + 1].op = "again"
        PROVE  /\ todo[m + 1].n <= pos'
               /\ todo[m + 1].n = pos' => pos' = pos
    <3>1. todo[m + 1].n \in Nat
      BY <2>2, <2>3, LawfulHeld DEF Held
    <3>2. todo[m + 1].n <= pos
      BY <2>2, <2>3 DEF Turns
    <3> QED BY <1>1, <3>1, <3>2
  <2>4. ASSUME todo[m + 1].op = "again", todo[m + 1].n = pos', pos' = pos,
               todo[m + 1].body \notin StallingBodies
        PROVE  Peek \notin Halts /\ \E j \in 1 .. ((Len(q) + m) - 1) : Sure(Peek, todo'[j])
    <3>1. Peek \notin Halts
      BY <2>2, <2>4 DEF Turns
    <3>2. PICK j \in 1 .. m : Sure(Peek, todo[j])
      BY <2>2, <2>4 DEF Turns
    <3>3. CASE j = 1
      <4>1. PICK i \in 1 .. Len(q) : Sure(Peek, q[i])
        BY <1>4, <1>5, <2>4, <3>1, <3>2, <3>3 DEF SureSeq
      <4>2. todo'[i] = q[i] /\ i \in 1 .. ((Len(q) + m) - 1)
        BY <1>5, <1>6
      <4> QED BY <3>1, <4>1, <4>2
    <3>4. CASE j # 1
      <4>1. j - 1 \in 1 .. Len(rest) /\ rest[j - 1] = todo[j]
        BY <1>4, <3>4
      <4>2. /\ todo'[Len(q) + (j - 1)] = todo[j]
            /\ Len(q) + (j - 1) \in 1 .. ((Len(q) + m) - 1)
        BY <1>5, <1>6, <3>4, <4>1, SMTT(30)
      <4> QED BY <3>1, <3>2, <4>2
    <3> QED BY <3>3, <3>4
  <2>5. ASSUME todo[m + 1].op = "again", todo[m + 1].n = pos'
        PROVE  Peek' \notin Halts
    BY <1>7, <2>2, <2>3, <2>5 DEF Turns
  <2>6. Held(todo[Len(q) + m])'
    BY <1>8, <2>1, <2>2, Zenon
  <2>7. Turns(todo, Len(q) + m)'
    BY <1>7, <2>1, <2>3, <2>4, <2>5, Zenon DEF Turns
  <2> QED BY <2>6, <2>7
<1>11. \A i \in DOMAIN todo' : i \in 1 .. Len(q) \/ \E m \in 1 .. Len(rest) : i = Len(q) + m
  <2> SUFFICES ASSUME NEW i \in DOMAIN todo', i \notin 1 .. Len(q)
               PROVE  \E m \in 1 .. Len(rest) : i = Len(q) + m
    OBVIOUS
  <2>1. i - Len(q) \in 1 .. Len(rest) /\ i = Len(q) + (i - Len(q))
    BY <1>4, <1>5, <1>6
  <2> QED BY <2>1
<1>12. \A i \in DOMAIN todo' : Held(todo[i])' /\ Turns(todo, i)'
  BY <1>9, <1>10, <1>11
<1>13. tokens' \in Seq(Kinds) /\ pos' \in 1 .. (Len(tokens') + 1)
  BY <1>1
<1> QED BY <1>6, <1>12, <1>13 DEF PInv

LEMMA Pushed ==
  ASSUME PInv, todo # <<>>, NEW q, LawfulSeq(q), todo' = q \o Tail(todo),
         tokens' = tokens, pos' \in pos .. (Len(tokens) + 1),
         pos' = pos /\ Peek \notin Halts /\ Sure(Peek, Top) => SureSeq(Peek, q)
  PROVE  PInv'
<1>1. \A i \in DOMAIN q : Held(q[i]) /\ q[i].op # "again"
  BY LawfulMember, LawfulHeld
<1>2. \E S : q \in Seq(S)
  BY DEF LawfulSeq
<1> QED BY <1>1, <1>2, Replaced

\* A token is taken, and the same symbols are left to do.
LEMMA Reads ==
  ASSUME PInv, todo' = todo, tokens' = tokens, pos' \in (pos + 1) .. (Len(tokens) + 1)
  PROVE  PInv'
<1>1. pos' \in 1 .. (Len(tokens) + 1) /\ pos < pos' /\ pos \in Nat /\ pos' \in Nat
  BY DEF PInv
<1>2. ASSUME NEW i \in DOMAIN todo PROVE Held(todo[i])' /\ Turns(todo, i)'
  <2>1. Held(todo[i]) /\ Turns(todo, i)
    BY <1>2 DEF PInv
  <2>2. Held(todo[i])'
    BY <2>1 DEF Held
  <2>3. CASE todo[i].op = "again"
    <3>1. todo[i].n \in Nat /\ todo[i].n <= pos
      BY <2>1, <2>3, LawfulHeld DEF Held, Turns
    <3>2. todo[i].n < pos'
      BY <1>1, <3>1
    <3> QED BY <1>1, <2>2, <3>1, <3>2 DEF Turns
  <2> QED BY <2>2, <2>3 DEF Turns
<1> QED BY <1>1, <1>2 DEF PInv

LEMMA Consumed ==
  ASSUME PInv, Consume
  PROVE  /\ pos' \in pos .. (Len(tokens) + 1)
         /\ Peek # "Eof" => pos' = pos + 1 /\ pos' \in (pos + 1) .. (Len(tokens) + 1)
<1>1. pos \in 1 .. (Len(tokens) + 1) /\ Len(tokens) \in Nat /\ DOMAIN tokens = 1 .. Len(tokens)
  BY DEF PInv
<1>2. CASE pos \in DOMAIN tokens
  BY <1>1, <1>2 DEF Consume, After
<1>3. CASE pos \notin DOMAIN tokens
  BY <1>1, <1>3 DEF Consume, After, Peek, Kind
<1> QED BY <1>2, <1>3

LEMMA Kept ==
  ASSUME PInv, Keep
  PROVE  pos' \in pos .. (Len(tokens) + 1)
BY DEF PInv, Keep

LEMMA TopLawful ==
  ASSUME PInv, todo # <<>>, Top.op \notin {"again", "combine"}
  PROVE  Lawful(Top)
<1>1. 1 \in DOMAIN todo /\ todo[1] = Top
  BY EmptySeq DEF PInv, Top
<1> QED BY <1>1 DEF PInv, Held

\* What is sure to take a token.
LEMMA SureKinds ==
  ASSUME NEW k, NEW s, Sure(k, s)
  PROVE  /\ s.op \in {"advance", "typename", "stmt", "operand", "prefix", "expect", "ident",
                      "qualified", "call", "list", "many", "if", "nested"}
         /\ s.op = "expect" => s.k = k
         /\ s.op \in {"ident", "qualified"} => k \in Idents
         /\ s.op = "list" => s.k = "RParen" /\ s.body = <<Call("Param")>> /\ k # "RParen"
         /\ s.op = "many" => s.body \in AdvancingBodies
         /\ s.op = "nested" => \E j \in DOMAIN s.body : Takes(k, s.body[j])
         /\ s.op = "call" => \/ s.k \in Taking
                             \/ s.k \in StatementStarts /\ s.k = k
                             \/ s.k = "Params" /\ k # "RParen"
         /\ s.op = "if" => SureSeq(k, Chosen(k, s))
<1>1. CASE Takes(k, s)
  <2>1. s.op \in {"advance", "typename", "stmt", "operand", "prefix", "expect", "ident",
                 "qualified", "call", "list", "many"}
    BY <1>1 DEF Takes
  <2>2. /\ s.op = "expect" => s.k = k
        /\ s.op \in {"ident", "qualified"} => k \in Idents
    BY <1>1 DEF Takes
  <2>3. s.op = "list" => s.k = "RParen" /\ s.body = <<Call("Param")>> /\ k # "RParen"
    BY <1>1 DEF Takes
  <2>4. s.op = "many" => s.body \in AdvancingBodies
    BY <1>1 DEF Takes
  <2>5. s.op = "call" => \/ s.k \in Taking
                         \/ s.k \in StatementStarts /\ s.k = k
                         \/ s.k = "Params" /\ k # "RParen"
    BY <1>1 DEF Takes
  <2>6. /\ s.op \notin {"if", "nested"}
        /\ s.op \in {"advance", "typename", "stmt", "operand", "prefix", "expect", "ident",
                    "qualified", "call", "list", "many", "if", "nested"}
    BY <2>1
  <2>7. s.op # "if" /\ s.op # "nested"
    BY <2>6
  <2> QED BY <2>2, <2>3, <2>4, <2>5, <2>6, <2>7, Zenon
<1>2. CASE s.op = "if" /\ SureSeq(k, Chosen(k, s))
  BY <1>2
<1>3. CASE s.op = "nested" /\ \E j \in DOMAIN s.body : Takes(k, s.body[j])
  BY <1>3
<1>4. \A x : Takes(k, x) \/ Chooses(k, x) => Sure(k, x)
  BY DEF Chooses, Sure
<1>5. \/ Takes(k, s)
      \/ s.op = "if" /\ SureSeq(k, Chosen(k, s))
      \/ s.op = "nested" /\ \E j \in DOMAIN s.body : Takes(k, s.body[j])
  <2>1. CASE Takes(k, s)
    BY <2>1
  <2>2. CASE s.op = "if" /\ \E j \in DOMAIN Chosen(k, s) : Takes(k, Chosen(k, s)[j])
    BY <1>4, <2>2, Zenon DEF SureSeq
  <2>3. CASE s.op = "if" /\ \E j \in DOMAIN Chosen(k, s) : Chooses(k, Chosen(k, s)[j])
    BY <1>4, <2>3, Zenon DEF SureSeq
  <2> QED BY <2>1, <2>2, <2>3, Zenon DEF Sure, Chooses
<1> QED BY <1>1, <1>2, <1>3, <1>5

-----------------------------------------------------------------------------
(* The steps.                                                              *)

LEMMA TokenSteps ==
  ASSUME PInv, ExpectStep \/ IdentStep \/ AdvanceStep \/ NewlinesStep
  PROVE  PInv'
<1>1. tokens' = tokens /\ todo # <<>>
  BY DEF ExpectStep, IdentStep, AdvanceStep, NewlinesStep, Doing, NoGhost
<1>2. CASE NewlinesStep /\ Peek = "Newline"
  BY <1>1, <1>2, Consumed, Reads DEF NewlinesStep
<1>3. CASE ~(NewlinesStep /\ Peek = "Newline")
  <2>1. todo' = <<>> \o Tail(todo) /\ (Consume \/ Keep)
    BY <1>3 DEF ExpectStep, IdentStep, AdvanceStep, NewlinesStep, Then
  <2>2. pos' \in pos .. (Len(tokens) + 1)
    BY <2>1, Consumed, Kept
  <2>3. ASSUME Peek \notin Halts, Sure(Peek, Top) PROVE Consume
    BY <1>3, <2>3, SureKinds
       DEF ExpectStep, IdentStep, AdvanceStep, NewlinesStep, Doing
  <2>4. ASSUME Peek \notin Halts, Sure(Peek, Top) PROVE pos' # pos
    BY <2>3, <2>4, Consumed DEF Halts, PInv
  <2> QED BY <1>1, <2>1, <2>2, <2>4, LawfulNone, Pushed
<1> QED BY <1>2, <1>3

LEMMA QuietSteps ==
  ASSUME PInv, LeaveStep \/ DeclaredStep \/ CombineStep
  PROVE  PInv'
<1>1. /\ tokens' = tokens /\ todo # <<>> /\ pos' = pos /\ todo' = <<>> \o Tail(todo)
      /\ Top.op \in {"leave", "declared", "combine"}
  BY DEF LeaveStep, DeclaredStep, CombineStep, Doing, NoGhost, Then
<1>2. ~Sure(Peek, Top)
  BY <1>1, SureKinds
<1>3. pos' \in pos .. (Len(tokens) + 1)
  BY <1>1, Kept DEF Keep
<1> QED BY <1>1, <1>2, <1>3, LawfulNone, Pushed

LEMMA NameSteps ==
  ASSUME PInv, QualifiedStep \/ DotsStep \/ TypeNameStep
  PROVE  PInv'
<1>1. tokens' = tokens /\ todo # <<>> /\ (Consume \/ Keep)
  BY DEF QualifiedStep, DotsStep, TypeNameStep, Doing, NoGhost
<1>2. pos' \in pos .. (Len(tokens) + 1)
  BY <1>1, Consumed, Kept
<1>3. PICK q \in {<<>>, <<Do("dots")>>, <<Do("qualified")>>} :
        /\ todo' = q \o Tail(todo)
        /\ Sure(Peek, Top) /\ ~Consume => q = <<Do("qualified")>> /\ Peek \in Idents
  <2>1. CASE QualifiedStep
    BY <2>1, SureKinds DEF QualifiedStep, Doing, Then
  <2>2. CASE DotsStep
    BY <2>2, SureKinds DEF DotsStep, Doing, Then
  <2>3. CASE TypeNameStep
    BY <2>3 DEF TypeNameStep, Doing, Then, Idents
  <2> QED BY <2>1, <2>2, <2>3
<1>4. LawfulSeq(q)
  BY LawfulOne, LawfulNone, LawfulLeaves DEF Leaves
<1>5. ASSUME pos' = pos, Peek \notin Halts, Sure(Peek, Top) PROVE SureSeq(Peek, q)
  <2>1. ~Consume
    BY <1>5, Consumed DEF Halts, PInv
  <2> QED BY <1>3, <1>5, <2>1, SureSymbols, SureTuples
<1> QED BY <1>1, <1>2, <1>3, <1>4, <1>5, Pushed

LEMMA LawfulStatement == LawfulSeq(StatementRule) /\ (Peek \notin Halts => SureSeq(Peek, StatementRule))
<1>1. CASE Peek \in StatementStarts
  <2>1. Lawful(Call(Peek)) /\ Sure(Peek, Call(Peek))
    BY <1>1, SureStatements, LawfulLeaves, SureSymbols
  <2> QED BY <1>1, <2>1, LawfulOne, SureTuples DEF StatementRule
<1>2. CASE Peek \notin StatementStarts
  <2>1. \A r \in {"VarDecl", "Plain"} :
          LawfulSeq(<<Call(r)>>) /\ SureSeq(Peek, <<Call(r)>>)
    BY LawfulSymbols, LawfulOne, SureSymbols, SureTuples DEF Called, Taking
  <2> QED BY <1>2, <2>1, LawfulNone DEF StatementRule, Halts
<1> QED BY <1>1, <1>2

LEMMA StatementSteps ==
  ASSUME PInv, StatementStep \/ MembersStep
  PROVE  PInv'
<1>1. tokens' = tokens /\ todo # <<>>
  BY DEF StatementStep, MembersStep, Doing, NoGhost
<1>2. CASE Peek = "Newline"
  <2>1. Consume /\ todo' = todo
    BY <1>2 DEF StatementStep, MembersStep
  <2> QED BY <1>1, <1>2, <2>1, Consumed, Reads
<1>3. CASE StatementStep /\ Peek # "Newline"
  <2>1. Keep /\ todo' = StatementRule \o Tail(todo)
    BY <1>3 DEF StatementStep, Then
  <2> QED BY <1>1, <2>1, LawfulStatement, Kept, Pushed
<1>4. CASE MembersStep /\ Peek # "Newline"
  <2>1. Keep /\ Top.op = "members"
    BY <1>4 DEF MembersStep, Doing
  <2>2. PICK q \in {<<Call("Receive"), Do("members")>>, <<Call("VarDecl"), Do("members")>>, <<>>} :
          todo' = q \o Tail(todo)
    BY <1>4 DEF MembersStep, Then
  <2>3. LawfulSeq(q)
    BY LawfulSymbols, LawfulLeaves, LawfulTuples, LawfulNone DEF Called, Leaves
  <2>4. ~Sure(Peek, Top)
    BY <2>1, SureKinds
  <2> QED BY <1>1, <2>1, <2>2, <2>3, <2>4, Kept, Pushed
<1> QED BY <1>2, <1>3, <1>4

LEMMA LawfulPrefix ==
  ASSUME NEW k
  PROVE  LawfulSeq(Prefix(k)) /\ SureSeq(k, Prefix(k))
<1>1. CASE k \in DOMAIN PrefixRules
  <2>1. PrefixRules[k] \in Taking
    BY <1>1 DEF PrefixRules, Taking
  <2> HIDE DEF PrefixRules
  <2>2. LawfulSeq(<<Call(PrefixRules[k])>>) /\ SureSeq(k, <<Call(PrefixRules[k])>>)
    BY <2>1, SureRules, LawfulLeaves, LawfulOne, SureSymbols, SureTuples
  <2>3. k \notin Literals /\ k \notin DOMAIN Operators
    BY <1>1 DEF PrefixRules, Literals, Operators
  <2> QED BY <1>1, <2>2, <2>3 DEF Prefix
<1>2. CASE k \in DOMAIN Operators
  <2>1. /\ LawfulSeq(<<Advance, At("operand", Operators[k])>>)
        /\ SureSeq(k, <<Advance, At("operand", Operators[k])>>)
    BY LawfulLeaves, LawfulTuples, SureSymbols, SureTuples DEF Leaves
  <2>2. k \notin Literals
    BY <1>2 DEF Literals, Operators
  <2> QED BY <1>2, <2>1, <2>2 DEF Prefix
<1>3. /\ LawfulSeq(<<Advance>>) /\ LawfulSeq(<<Name>>) /\ LawfulSeq(<<Do("typename")>>)
      /\ SureSeq(k, <<Advance>>) /\ SureSeq(k, <<Do("typename")>>)
      /\ k \in Idents => SureSeq(k, <<Name>>)
  BY LawfulLeaves, LawfulOne, SureSymbols, SureTuples DEF Leaves
<1> QED BY <1>1, <1>2, <1>3 DEF Prefix

LEMMA LawfulExpressions ==
  /\ LawfulSeq(FieldCall) /\ LawfulSeq(Postfix) /\ LawfulSeq(Fields)
  /\ LawfulSeq(MaybeGeneric) /\ LawfulSeq(Argument) /\ LawfulSeq(Segments)
<1> USE LawfulSymbols, LawfulLeaves, LawfulTuples, LawfulOne, LawfulNone DEF Called, Leaves
<1>1. LawfulSeq(FieldCall)
  BY DEF FieldCall
<1>2. LawfulSeq(Postfix)
  BY DEF Postfix
<1>3. LawfulSeq(Fields)
  BY DEF Fields
<1>4. LawfulSeq(MaybeGeneric)
  BY DEF MaybeGeneric
<1>5. LawfulSeq(Argument)
  BY DEF Argument
<1>6. LawfulSeq(Segments)
  BY DEF Segments
<1> QED BY <1>1, <1>2, <1>3, <1>4, <1>5, <1>6

LEMMA ExpressionSteps ==
  ASSUME PInv, ExpressionStep
  PROVE  PInv'
<1>1. tokens' = tokens /\ todo # <<>> /\ pos' = pos
  BY DEF ExpressionStep, NoGhost
<1>2. pos' \in pos .. (Len(tokens) + 1)
  BY <1>1, Kept DEF Keep
<1>3. CASE Top.op = "operand" /\ todo' = <<Do("prefix"), At("infix", Top.n)>> \o Tail(todo)
  <2>1. /\ LawfulSeq(<<Do("prefix"), At("infix", Top.n)>>)
        /\ SureSeq(Peek, <<Do("prefix"), At("infix", Top.n)>>)
    BY LawfulLeaves, LawfulTuples, SureSymbols, SureTuples DEF Leaves
  <2> QED BY <1>1, <1>2, <1>3, <2>1, Pushed
<1>4. CASE Top.op = "prefix" /\ todo' = Prefix(Peek) \o Tail(todo)
  BY <1>1, <1>2, <1>4, LawfulPrefix, Pushed
<1>5. CASE /\ Top.op \in {"fieldcall", "postfix", "fields", "generic", "argument", "segments"}
           /\ \E q \in {FieldCall, Postfix, Fields, MaybeGeneric, Argument, Segments} :
                todo' = q \o Tail(todo)
  <2>1. ~Sure(Peek, Top)
    BY <1>5, SureKinds
  <2> QED BY <1>1, <1>2, <1>5, <2>1, LawfulExpressions, Pushed
<1>6. CASE Top.op = "infix" /\ todo' = InfixExpansion \o Tail(todo)
  <2>1. ~Sure(Peek, Top)
    BY <1>6, SureKinds
  <2>2. LawfulSeq(<<Top>>)
    BY <1>1, <1>6, TopLawful, LawfulOne
  <2>3. \A r \in {"Args", "Generic", "Handle"} : LawfulSeq(<<Call(r)>> \o <<Top>>)
    BY <2>2, LawfulSymbols, LawfulOne, LawfulConcat DEF Called
  <2>4. /\ LawfulSeq(<<Advance, Name, Do("fieldcall")>> \o <<Top>>)
        /\ LawfulSeq(<<Advance, Name>> \o <<Top>>) /\ LawfulSeq(<<>>)
    BY <2>2, LawfulLeaves, LawfulTuples, LawfulConcat, LawfulNone DEF Leaves
  <2>5. CASE LawfulSeq(InfixExpansion)
    BY <1>1, <1>2, <1>6, <2>1, <2>5, Pushed
  <2> DEFINE right == <<Advance, At("operand", RightPower(Peek))>>
             q == <<Advance, At("operand", RightPower(Peek)), At("combine", pos)>>
  <2>6. CASE Peek \in DOMAIN LeftPower /\ InfixExpansion = q \o <<Top>>
    <3>1. pos \in DOMAIN tokens
      BY <2>6 DEF Peek, Kind, LeftPower
    <3>2. At("combine", pos).op = "combine" /\ At("combine", pos).n = pos
      BY DEF At, Do, Symbol
    <3>3. Lawful(Advance) /\ Lawful(At("operand", RightPower(Peek))) /\ Lawful(Top)
      BY <1>1, <1>6, LawfulLeaves, TopLawful DEF Leaves
    <3> DEFINE c == At("combine", pos)
               o == At("operand", RightPower(Peek))
               f == q \o <<Top>>
    <3> HIDE DEF c, o
    <3>4. f \in Seq({Advance, o, c, Top})
      <4>1. q = <<Advance, o, c>>
        BY DEF c, o
      <4>2. <<Advance, o, c>> \in Seq({Advance, o, c, Top}) /\ <<Top>> \in Seq({Advance, o, c, Top})
        OBVIOUS
      <4> HIDE DEF q
      <4> QED BY <4>1, <4>2, ConcatProperties
    <3>5. Held(c) /\ c.op # "again"
      BY <3>1, <3>2 DEF Held, c
    <3>6. \A x \in {Advance, o, Top} : Held(x) /\ x.op # "again"
      BY <3>3, LawfulHeld DEF o
    <3> HIDE DEF f
    <3>7. \A i \in DOMAIN f : Held(f[i]) /\ f[i].op # "again"
      BY <3>4, <3>5, <3>6
    <3>8. \E S : f \in Seq(S)
      BY <3>4
    <3> QED BY <1>1, <1>2, <1>6, <2>1, <2>6, <3>7, <3>8, Replaced DEF f
  <2>7. LawfulSeq(InfixExpansion) \/ (Peek \in DOMAIN LeftPower /\ InfixExpansion = q \o <<Top>>)
    BY <2>3, <2>4 DEF InfixExpansion
  <2> QED BY <2>5, <2>6, <2>7
<1> QED BY <1>3, <1>4, <1>5, <1>6, Zenon DEF ExpressionStep, Then

LEMMA MinIn ==
  ASSUME NEW A \in SUBSET Nat, A # {}
  PROVE  Min(A) \in A
BY LeastNatural DEF Min

\* A scan from a position ends at the Eof at the latest.
LEMMA Scanned ==
  ASSUME PInv, NEW from \in 1 .. (Len(tokens) + 1), NEW K, "Eof" \in K
  PROVE  LET found == {i \in from .. (Len(tokens) + 1) : Kind(i) \in K}
         IN  Min(found) \in found
<1>1. Len(tokens) \in Nat /\ DOMAIN tokens = 1 .. Len(tokens)
  BY DEF PInv
<1>2. Kind(Len(tokens) + 1) = "Eof"
  BY <1>1 DEF Kind
<1> DEFINE found == {i \in from .. (Len(tokens) + 1) : Kind(i) \in K}
<1>3. found \in SUBSET Nat /\ Len(tokens) + 1 \in found
  BY <1>1, <1>2
<1> HIDE DEF found
<1>4. Min(found) \in found
  BY <1>3, MinIn
<1> QED BY <1>4 DEF found

LEMMA Inside ==
  ASSUME PInv, NEW i \in 1 .. (Len(tokens) + 1), Kind(i) # "Eof"
  PROVE  i \in DOMAIN tokens /\ i + 1 \in 1 .. (Len(tokens) + 1)
BY DEF PInv, Kind

LEMMA PipelineSteps ==
  ASSUME PInv, PipelineStep
  PROVE  PInv'
<1>1. tokens' = tokens /\ todo # <<>> /\ Top.op = "pipe"
  BY DEF PipelineStep, Doing, NoGhost
<1>2. ~Sure(Peek, Top)
  BY <1>1, SureKinds
<1>3. PICK q \in {<<Call("Pipeline")>>, <<Call("Lines"), Leave>>, <<>>} : todo' = q \o Tail(todo)
  BY DEF PipelineStep, Then
<1>4. LawfulSeq(q)
  BY LawfulSymbols, LawfulLeaves, LawfulTuples, LawfulOne, LawfulNone
     DEF Called, Leaves, Leave
<1>5. pos' \in pos .. (Len(tokens) + 1)
  <2>1. CASE Keep
    BY <2>1, Kept
  <2>2. CASE pos' = NextInLine + 1 /\ Kind(NextInLine) = "Indent"
    <3> DEFINE K == {Kind(i) : i \in 1 .. (Len(tokens) + 1)} \union {"Eof"}
               L == K \ {"Newline"}
    <3>1. pos \in 1 .. (Len(tokens) + 1) /\ pos \in Nat /\ Len(tokens) \in Nat
      BY DEF PInv
    <3>2. {i \in pos .. (Len(tokens) + 1) : Kind(i) # "Newline"}
            = {i \in pos .. (Len(tokens) + 1) : Kind(i) \in L}
      BY <3>1
    <3>3. "Eof" \in L
      OBVIOUS
    <3> HIDE DEF L
    <3>4. NextInLine \in pos .. (Len(tokens) + 1)
      BY <3>1, <3>2, <3>3, Scanned DEF NextInLine
    <3>5. NextInLine \in 1 .. (Len(tokens) + 1)
      BY <3>1, <3>4
    <3>6. NextInLine \in DOMAIN tokens
      BY <2>2, <3>5, Inside
    <3> HIDE DEF NextInLine
    <3>7. DOMAIN tokens = 1 .. Len(tokens)
      BY DEF PInv
    <3> QED BY <2>2, <3>1, <3>4, <3>6, <3>7
  <2> QED BY <2>1, <2>2 DEF PipelineStep
<1> QED BY <1>1, <1>2, <1>3, <1>4, <1>5, Pushed

LEMMA Recovers ==
  ASSUME PInv, NEW from \in pos .. (Len(tokens) + 1)
  PROVE  Recovered(from) \in pos .. (Len(tokens) + 1)
<1>1. /\ pos \in 1 .. (Len(tokens) + 1) /\ Len(tokens) \in Nat /\ DOMAIN tokens = 1 .. Len(tokens)
      /\ from \in 1 .. (Len(tokens) + 1)
  BY DEF PInv
<1> DEFINE stop == Min({i \in from .. (Len(tokens) + 1) : Kind(i) \in LineEnds})
           next == IF Kind(stop) = "Newline" THEN stop + 1 ELSE stop
<1>2. stop \in from .. (Len(tokens) + 1)
  BY <1>1, Scanned DEF LineEnds
<1> HIDE DEF stop
<1>3. next \in pos .. (Len(tokens) + 1)
  <2>1. Kind(stop) = "Newline" => stop \in DOMAIN tokens
    BY <1>1, <1>2, Inside
  <2> QED BY <1>1, <1>2, <2>1
<1>4. After(pos) \in pos .. (Len(tokens) + 1)
  BY <1>1 DEF After
<1>5. Recovered(from) = IF next = pos THEN After(pos) ELSE next
  BY DEF Recovered, stop
<1> HIDE DEF next
<1> QED BY <1>3, <1>4, <1>5

LEMMA ItemSteps ==
  ASSUME PInv, ItemStep
  PROVE  PInv'
<1>1. tokens' = tokens /\ todo # <<>> /\ Top.op = "items"
  BY DEF ItemStep, Doing, NoGhost
<1>2. ~Sure(Peek, Top)
  BY <1>1, SureKinds
<1> DEFINE exported == Peek = "Export"
           start == IF exported THEN pos + 1 ELSE pos
           root == exported /\ Kind(start) = "Root"
           at == IF root THEN start + 1 ELSE start
<1>3. at \in pos .. (Len(tokens) + 1)
  <2>1. pos \in 1 .. (Len(tokens) + 1) /\ Len(tokens) \in Nat
    BY DEF PInv
  <2>2. start \in pos .. (Len(tokens) + 1)
    BY <2>1, Inside DEF Peek
  <2> HIDE DEF start
  <2>3. start \in 1 .. (Len(tokens) + 1)
    BY <2>1, <2>2
  <2>4. root => start + 1 \in 1 .. (Len(tokens) + 1)
    BY <2>3, Inside
  <2> QED BY <2>1, <2>2, <2>4
<1> HIDE DEF at
<1>4. /\ pos' \in pos .. (Len(tokens) + 1)
      /\ \E q : LawfulSeq(q) /\ todo' = q \o Tail(todo)
  <2>1. LawfulSeq(<<Newlines, Do("items")>>) /\ LawfulSeq(<<>>)
    BY LawfulLeaves, LawfulTuples, LawfulNone DEF Leaves
  <2>2. \A r \in ItemStarts \union {"Bitfield", "VarDecl"} :
          LawfulSeq(<<Call(r), Newlines, Do("items")>>)
    <3>1. ItemStarts \union {"Bitfield", "VarDecl"} \subseteq DOMAIN Rules
      BY RulesAre, ZenonT(30) DEF ItemStarts, ItemRules, MemberRules, DataRules, MachineRules, LineRules
    <3> QED BY <3>1, LawfulLeaves, LawfulTuples, SMTT(30) DEF Leaves
  <2>3. CASE Keep /\ todo' = <<>> \o Tail(todo)
    BY <2>1, <2>3, Kept
  <2>4. CASE pos' = at /\ \E r \in ItemStarts \union {"Bitfield", "VarDecl"} :
                 todo' = <<Call(r), Newlines, Do("items")>> \o Tail(todo)
    BY <1>3, <2>2, <2>4
  <2>5. CASE pos' = Recovered(at) /\ todo' = <<Newlines, Do("items")>> \o Tail(todo)
    BY <1>3, <2>1, <2>5, Recovers
  <2> QED BY <2>3, <2>4, <2>5 DEF ItemStep, Then, at
<1> QED BY <1>1, <1>2, <1>4, Pushed

\* What a symbol holds is lawful.
LEMMA LawfulInner ==
  ASSUME NEW s, Lawful(s)
  PROVE  /\ s.op = "if" => LawfulSeq(s.body[1]) /\ LawfulSeq(s.body[2])
         /\ s.op \in Loops => LawfulSeq(s.body)
         /\ s.op = "call" => s.k \in DOMAIN Rules
         /\ s.op = "many" => s.body \in Bodies
<1>1. PICK S : Closed(S) /\ s \in S
  BY DEF Lawful
<1>2. \A q \in Inner(s) : LawfulSeq(q)
  BY <1>1 DEF Closed, LawfulSeq
<1>3. s.op = "if" => s.body[1] \in Inner(s) /\ s.body[2] \in Inner(s)
  BY DEF Inner
<1>4. s.op \in Loops => s.body \in Inner(s)
  BY DEF Inner, Loops
<1>5. s.op = "call" => s.k \in DOMAIN Rules
  BY <1>1 DEF Closed
<1>6. s.op = "many" => s.body \in Bodies
  BY <1>1 DEF Closed
<1> QED BY <1>2, <1>3, <1>4, <1>5, <1>6

\* The items of a list: each is followed by more of them, or by none.
LEMMA LawfulLists ==
  ASSUME NEW s, Lawful(s), s.op \in Loops
  PROVE  /\ Lawful(More(s)) /\ LawfulSeq(s.body \o <<More(s)>>)
         /\ Lawful([s EXCEPT !.op = "item"])
<1>1. DOMAIN s = Slots /\ LawfulSeq(s.body)
  BY LawfulHeld, LawfulInner
<1>2. ASSUME NEW op \in {"more", "item"}
      PROVE  Lawful([s EXCEPT !.op = op])
  <2> DEFINE r == [s EXCEPT !.op = op]
  <2>1. DOMAIN r = Slots /\ r.op = op /\ r.body = s.body
    BY <1>1 DEF Slots
  <2> HIDE DEF r
  <2>2. r.op \in Loops /\ r.op # "many"
    BY <1>2, <2>1 DEF Loops
  <2>3. Lawful(r)
    BY <1>1, <2>1, <2>2, LawfulLoop
  <2> QED BY <2>3 DEF r
<1>3. Lawful(More(s))
  BY <1>2 DEF More
<1> QED BY <1>1, <1>2, <1>3, LawfulOne, LawfulConcat

\* A call is replaced by its rule, a choice by the side it takes.
LEMMA CallSteps ==
  ASSUME PInv, Expand, Top.op \in {"call", "if"}
  PROVE  PInv'
<1>1. /\ tokens' = tokens /\ todo # <<>> /\ pos' = pos
      /\ todo' = Expansion \o Tail(todo)
  BY DEF Expand, NoGhost, Then
<1>2. pos' \in pos .. (Len(tokens) + 1)
  BY <1>1, Kept DEF Keep
<1>3. Lawful(Top)
  BY <1>1, TopLawful
<1>4. CASE Top.op = "call"
  <2>1. Top.k \in DOMAIN Rules /\ LawfulSeq(Rules[Top.k]) /\ Expansion = Rules[Top.k]
    BY <1>3, <1>4, LawfulInner, LawfulRules DEF Expansion
  <2>2. ASSUME Sure(Peek, Top) PROVE SureSeq(Peek, Rules[Top.k])
    <3>1. \/ Top.k \in Taking
          \/ Top.k \in StatementStarts /\ Top.k = Peek
          \/ Top.k = "Params" /\ Peek # "RParen"
      BY <1>4, <2>2, SureKinds
    <3> QED BY <3>1, SureRules, SureStatements, SureParams
  <2> QED BY <1>1, <1>2, <2>1, <2>2, Pushed
<1>5. CASE Top.op = "if"
  <2>1. Expansion = Chosen(Peek, Top)
    BY <1>5 DEF Expansion, Chosen
  <2>2. LawfulSeq(Chosen(Peek, Top))
    BY <1>3, <1>5, LawfulInner DEF Chosen
  <2>3. Sure(Peek, Top) => SureSeq(Peek, Chosen(Peek, Top))
    BY <1>5, SureKinds
  <2> QED BY <1>1, <1>2, <2>1, <2>2, <2>3, Pushed
<1> QED BY <1>4, <1>5

LEMMA ListSteps ==
  ASSUME PInv, Expand, Top.op \in {"while", "list", "more", "item"}
  PROVE  PInv'
<1>1. /\ tokens' = tokens /\ todo # <<>> /\ pos' = pos
      /\ todo' = Expansion \o Tail(todo)
  BY DEF Expand, NoGhost, Then
<1>2. pos' \in pos .. (Len(tokens) + 1)
  BY <1>1, Kept DEF Keep
<1>3. Lawful(Top) /\ Top.op \in Loops
  BY <1>1, TopLawful DEF Loops
<1>4. CASE Top.op = "list"
  <2>1. Expansion = IF Peek = Top.k THEN <<>> ELSE Top.body \o <<More(Top)>>
    BY <1>4 DEF Expansion
  <2>2. LawfulSeq(Expansion)
    BY <1>3, <2>1, LawfulLists, LawfulNone
  <2>3. ASSUME Sure(Peek, Top) PROVE SureSeq(Peek, Expansion)
    <3>1. Top.k # Peek /\ Top.body = <<Call("Param")>>
      BY <1>4, <2>3, SureKinds
    <3>2. Expansion = <<Call("Param")>> \o <<More(Top)>>
      BY <2>1, <3>1
    <3>3. Sure(Peek, Call("Param"))
      BY SureSymbols DEF Taking
    <3>4. \A a, b : 1 \in DOMAIN (<<a>> \o <<b>>) /\ (<<a>> \o <<b>>)[1] = a
      OBVIOUS
    <3> QED BY <3>2, <3>3, <3>4, Zenon DEF SureSeq
  <2> QED BY <1>1, <1>2, <2>2, <2>3, Pushed
<1>5. CASE Top.op # "list"
  <2>1. ~Sure(Peek, Top)
    BY <1>5, SureKinds
  <2>2. LawfulSeq(Top.body \o <<Top>>) /\ LawfulSeq(Top.body \o <<More(Top)>>) /\ LawfulSeq(<<>>)
    BY <1>3, LawfulInner, LawfulOne, LawfulConcat, LawfulLists, LawfulNone
  <2>3. LawfulSeq(<<Advance, [Top EXCEPT !.op = "item"]>>)
    BY <1>3, LawfulLists, LawfulLeaves, LawfulTuples
  <2>4. Expansion \in {<<>>, Top.body \o <<Top>>, Top.body \o <<More(Top)>>,
                       <<Advance, [Top EXCEPT !.op = "item"]>>}
    BY <1>5 DEF Expansion
  <2> QED BY <1>1, <1>2, <2>1, <2>2, <2>3, <2>4, Pushed
<1> QED BY <1>4, <1>5

\* The loops over bodies and the indented parts.  Only here does a loop begin
\* a turn: its body, ahead of it, takes a token or is one of those excepted.
LEMMA ManySteps ==
  ASSUME PInv, Expand, Top.op = "many"
  PROVE  PInv'
<1>1. /\ tokens' = tokens /\ todo # <<>> /\ pos' = pos
      /\ todo' = Expansion \o Tail(todo)
  BY DEF Expand, NoGhost, Then
<1>2. pos' \in pos .. (Len(tokens) + 1) /\ pos \in Nat
  BY <1>1, Kept DEF Keep, PInv
<1>3. Lawful(Top) /\ Top.body \in Bodies /\ LawfulSeq(Top.body)
  BY <1>1, TopLawful, LawfulInner, LawfulBodies
<1>4. CASE Peek \in Halts
  <2>1. Expansion = <<>>
    BY <1>4 DEF Expansion, Halts
  <2> QED BY <1>1, <1>2, <1>4, <2>1, LawfulNone, Pushed
<1>5. CASE Peek \notin Halts
  <2> DEFINE b == Top.body
             a == Again(b, pos)
             f == b \o <<Newlines, a>>
  <2>1. Expansion = f
    BY <1>5 DEF Expansion, Halts
  <2>2. a.op = "again" /\ a.body = b /\ a.n = pos
    BY DEF Again, Many, Symbol
  <2>3. Held(a)
    BY <1>2, <1>3, <2>2 DEF Held
  <2> HIDE DEF a, b
  <2>4. PICK S : b \in Seq(S)
    BY <1>3 DEF LawfulSeq, b
  <2>5. b \in Seq(S \union {Newlines, a}) /\ <<Newlines, a>> \in Seq(S \union {Newlines, a})
    BY <2>4, WiderSeq
  <2>6. /\ f \in Seq(S \union {Newlines, a}) /\ Len(b) \in Nat /\ DOMAIN b = 1 .. Len(b)
        /\ DOMAIN f = 1 .. (Len(b) + 2)
        /\ \A i \in 1 .. Len(b) : f[i] = b[i]
        /\ f[Len(b) + 1] = Newlines /\ f[Len(b) + 2] = a
    BY <2>5
  <2> HIDE DEF f
  <2>7. b \in StallingBodies \/ SureSeq(Peek, b)
    BY <1>3, SureBodies DEF Bodies, b
  <2>8. Turns(f, Len(b) + 2)
    <3>1. ASSUME b \notin StallingBodies
          PROVE  \E j \in 1 .. ((Len(b) + 2) - 1) : Sure(Peek, f[j])
      <4>1. PICK j \in 1 .. Len(b) : Sure(Peek, b[j])
        BY <2>6, <2>7, <3>1 DEF SureSeq
      <4>2. j \in 1 .. ((Len(b) + 2) - 1) /\ f[j] = b[j]
        BY <2>6
      <4> QED BY <4>1, <4>2
    <3> QED BY <1>2, <1>5, <2>2, <2>6, <3>1 DEF Turns
  <2>9. ASSUME NEW i \in DOMAIN f
        PROVE  Held(f[i]) /\ (f[i].op = "again" => pos' = pos /\ Turns(f, i))
    <3>1. CASE i \in 1 .. Len(b)
      <4>1. Lawful(f[i])
        BY <1>3, <2>6, <3>1, LawfulMember DEF b
      <4> QED BY <4>1, LawfulHeld
    <3>2. CASE i = Len(b) + 1
      <4>1. Lawful(f[i])
        BY <2>6, <3>2, LawfulLeaves
      <4> QED BY <4>1, LawfulHeld
    <3>3. CASE i = Len(b) + 2
      BY <1>1, <2>3, <2>6, <2>8, <3>3
    <3> QED BY <2>6, <3>1, <3>2, <3>3
  <2>10. ASSUME Sure(Peek, Top) PROVE SureSeq(Peek, f)
    <3>1. SureSeq(Peek, b)
      BY <2>10, SureKinds, SureBodies DEF b
    <3>2. PICK j \in 1 .. Len(b) : Sure(Peek, b[j])
      BY <2>6, <3>1 DEF SureSeq
    <3>3. j \in DOMAIN f /\ f[j] = b[j]
      BY <2>6
    <3> QED BY <3>2, <3>3 DEF SureSeq
  <2>11. \E T : f \in Seq(T)
    BY <2>6
  <2> QED BY <1>1, <1>2, <2>1, <2>9, <2>10, <2>11, Replaced
<1> QED BY <1>4, <1>5

LEMMA BodySteps ==
  ASSUME PInv, Expand, Top.op \in {"again", "nested"}
  PROVE  PInv'
<1>1. /\ tokens' = tokens /\ todo # <<>> /\ pos' = pos
      /\ todo' = Expansion \o Tail(todo)
  BY DEF Expand, NoGhost, Then
<1>2. pos' \in pos .. (Len(tokens) + 1)
  BY <1>1, Kept DEF Keep
<1>3. CASE Top.op = "again"
  <2>1. 1 \in DOMAIN todo /\ todo[1] = Top
    BY <1>1, EmptySeq DEF PInv, Top
  <2>2. Held(Top)
    BY <2>1 DEF PInv
  <2>3. Top.body \in Bodies
    BY <1>3, <2>2, LawfulHeld DEF Held
  <2>4. LawfulSeq(<<Many(Top.body)>>) /\ Expansion = <<Many(Top.body)>>
    BY <1>3, <2>3, LawfulBodies, LawfulCompounds, LawfulOne DEF Expansion
  <2>5. ~Sure(Peek, Top)
    BY <1>3, SureKinds
  <2> QED BY <1>1, <1>2, <2>4, <2>5, Pushed
<1>4. CASE Top.op = "nested"
  <2> DEFINE b == Top.body
             f == b \o <<Leave>>
  <2>1. LawfulSeq(b) /\ Expansion = f
    BY <1>1, <1>4, TopLawful, LawfulInner DEF Expansion, Loops
  <2>2. LawfulSeq(<<Leave>>) /\ LawfulSeq(f)
    BY <2>1, LawfulLeaves, LawfulOne, LawfulConcat DEF Leave, Leaves
  <2>3. ASSUME Sure(Peek, Top) PROVE SureSeq(Peek, f)
    <3>1. PICK j \in DOMAIN b : Takes(Peek, b[j])
      BY <1>4, <2>3, SureKinds
    <3>2. PICK S : b \in Seq(S)
      BY <2>1 DEF LawfulSeq
    <3> HIDE DEF b
    <3>3. j \in DOMAIN f /\ f[j] = b[j]
      BY <3>2
    <3> HIDE DEF f
    <3>4. Sure(Peek, f[j])
      BY <3>1, <3>3 DEF Sure, Chooses
    <3> QED BY <3>3, <3>4 DEF SureSeq
  <2> QED BY <1>1, <1>2, <2>1, <2>2, <2>3, Pushed
<1> QED BY <1>3, <1>4

LEMMA StepPInv == PInv /\ [Next]_vars => PInv'
<1> SUFFICES ASSUME PInv, [Next]_vars PROVE PInv'
  OBVIOUS
<1>1. CASE ExpectStep \/ IdentStep \/ AdvanceStep \/ NewlinesStep
  BY <1>1, TokenSteps
<1>2. CASE Expand
  <2>1. Top.op \in Deciding
    BY <1>2 DEF Expand
  <2>2. \/ Top.op \in {"call", "if"} \/ Top.op \in {"while", "list", "more", "item"}
        \/ Top.op = "many" \/ Top.op \in {"again", "nested"}
    BY <2>1 DEF Deciding
  <2> QED BY <1>2, <2>2, CallSteps, ListSteps, ManySteps, BodySteps
<1>3. CASE LeaveStep \/ DeclaredStep \/ CombineStep
  BY <1>3, QuietSteps
<1>4. CASE QualifiedStep \/ DotsStep \/ TypeNameStep
  BY <1>4, NameSteps
<1>5. CASE StatementStep \/ MembersStep
  BY <1>5, StatementSteps
<1>6. CASE ExpressionStep
  BY <1>6, ExpressionSteps
<1>7. CASE PipelineStep
  BY <1>7, PipelineSteps
<1>8. CASE ItemStep
  BY <1>8, ItemSteps
<1>9. CASE UNCHANGED vars
  <2>1. tokens' = tokens /\ pos' = pos /\ todo' = todo
    BY <1>9 DEF vars
  <2>2. \A i \in DOMAIN todo : Held(todo[i])' /\ Turns(todo, i)'
    BY <2>1 DEF PInv, Held, Turns, Peek, Kind
  <2> QED BY <2>1, <2>2 DEF PInv
<1> QED BY <1>1, <1>2, <1>3, <1>4, <1>5, <1>6, <1>7, <1>8, <1>9 DEF Next

LEMMA SpecPInv == Spec => []PInv
BY InitPInv, StepPInv, PTL DEF Spec

-----------------------------------------------------------------------------
(* What follows.                                                           *)

\* When a turn of a loop is over nothing is left ahead of the loop that could
\* still take a token: it has taken one, or its body is one of those excepted.
LEMMA TurnsAdvance == PInv => LoopsAdvance
<1> SUFFICES ASSUME PInv, Doing("again"), ~(pos > Top.n)
             PROVE  Stalled
  BY DEF LoopsAdvance
<1>1. 1 \in DOMAIN todo /\ todo[1] = Top
  BY EmptySeq DEF PInv, Top, Doing
<1>2. Held(todo[1]) /\ Turns(todo, 1)
  BY <1>1 DEF PInv
<1>3. Top.op = "again" /\ Top.n \in Nat /\ Top.n <= pos
  BY <1>1, <1>2, LawfulHeld DEF Held, Turns, Doing
<1>4. pos \in Nat
  BY DEF PInv
<1>5. Top.n = pos
  BY <1>3, <1>4
<1>6. Top.body \in StallingBodies
  BY <1>1, <1>2, <1>3, <1>5 DEF Turns
<1> QED BY <1>5, <1>6 DEF Stalled

\* Whatever the tokens are, malformed as they may be, no loop of the parser
\* over the lines of a body goes around without having consumed a token, but
\* for those over variants, states and transitions.
THEOREM ParserLoopsAdvance == Spec => []LoopsAdvance
BY SpecPInv, TurnsAdvance, PTL

-----------------------------------------------------------------------------
(* Types.  The operators that are combined are tokens because the symbol     *)
(* that combines one was pushed when it was the next token.                  *)

TInv == PInv /\ TypeOK /\ combined \in Seq(Nat)

LEMMA StepTypeOK ==
  ASSUME TInv, [Next]_vars
  PROVE  TypeOK' /\ combined' \in Seq(Nat)
<1>1. PInv'
  BY StepPInv DEF TInv
<1>2. tokens' = tokens
  BY DEF Next, vars, NoGhost, ExpectStep, IdentStep, AdvanceStep, NewlinesStep, Expand,
         LeaveStep, DeclaredStep, CombineStep, QualifiedStep, DotsStep, TypeNameStep,
         StatementStep, MembersStep, ExpressionStep, PipelineStep, ItemStep
<1>3. failed' \in BOOLEAN
  BY DEF Next, vars, NoError, Error, TInv, TypeOK,
         ExpectStep, IdentStep, AdvanceStep, NewlinesStep, Expand,
         LeaveStep, DeclaredStep, CombineStep, QualifiedStep, DotsStep, TypeNameStep,
         StatementStep, MembersStep, ExpressionStep, PipelineStep, ItemStep
<1>4. misnested' \in BOOLEAN
  BY DEF Next, vars, NoGhost, TInv, TypeOK,
         ExpectStep, IdentStep, AdvanceStep, NewlinesStep, Expand,
         LeaveStep, DeclaredStep, CombineStep, QualifiedStep, DotsStep, TypeNameStep,
         StatementStep, MembersStep, ExpressionStep, PipelineStep, ItemStep
<1>5. Range(combined') \subseteq DOMAIN tokens /\ combined' \in Seq(Nat)
  <2>1. CASE combined' = combined
    BY <2>1 DEF TInv, TypeOK
  <2>2. CASE CombineStep
    <3>1. 1 \in DOMAIN todo /\ todo[1] = Top /\ Top.op = "combine"
      BY <2>2, EmptySeq DEF TInv, PInv, Top, CombineStep, Doing
    <3>2. Held(Top)
      BY <3>1 DEF TInv, PInv
    <3>3. Top.n \in DOMAIN tokens
      BY <3>1, <3>2, LawfulHeld DEF Held
    <3>4. Top.n \in Nat
      BY <3>3 DEF TInv, PInv
    <3> DEFINE n == Top.n
    <3>5. combined' = Append(combined, n) /\ combined \in Seq(Nat) /\ n \in Nat
      BY <2>2, <3>4 DEF CombineStep, TInv
    <3> HIDE DEF n
    <3>6. /\ combined' \in Seq(Nat)
          /\ \A i \in DOMAIN combined' : combined'[i] = n \/ \E j \in DOMAIN combined : combined'[i] = combined[j]
      BY <3>5
    <3>7. \A j \in DOMAIN combined : combined[j] \in DOMAIN tokens
      BY DEF TInv, TypeOK, Range
    <3> QED BY <3>3, <3>6, <3>7 DEF Range, n
  <2>3. combined' = combined \/ CombineStep
    BY DEF Next, vars, NoGhost, ExpectStep, IdentStep, AdvanceStep, NewlinesStep, Expand,
         LeaveStep, DeclaredStep, QualifiedStep, DotsStep, TypeNameStep,
         StatementStep, MembersStep, ExpressionStep, PipelineStep, ItemStep
  <2> QED BY <2>1, <2>2, <2>3
<1>6. pos' \in 1 .. (Len(tokens') + 1)
  BY <1>1 DEF PInv
<1> QED BY <1>2, <1>3, <1>4, <1>5, <1>6 DEF TypeOK

\* The parser never reads past the Eof that ends the tokens, in none of its
\* scans, recoveries and steps back, and it combines operators it has read.
THEOREM ParserTypeOK == Spec => []TypeOK
<1>1. Init => TInv
  <2> SUFFICES ASSUME Init PROVE TInv
    OBVIOUS
  <2>1. PInv /\ combined = <<>> /\ failed = FALSE /\ misnested = FALSE
    BY InitPInv DEF Init
  <2>2. combined \in Seq(Nat) /\ DOMAIN combined = {}
    BY <2>1
  <2>3. Range(combined) \subseteq DOMAIN tokens
    BY <2>2 DEF Range
  <2>4. pos \in 1 .. (Len(tokens) + 1) /\ failed \in BOOLEAN /\ misnested \in BOOLEAN
    BY <2>1 DEF PInv
  <2> QED BY <2>1, <2>2, <2>3, <2>4 DEF TInv, TypeOK
<1>2. TInv /\ [Next]_vars => TInv'
  BY StepPInv, StepTypeOK DEF TInv
<1>3. TInv => TypeOK
  BY DEF TInv
<1> QED BY <1>1, <1>2, <1>3, PTL DEF Spec

=============================================================================
