---------------------------- MODULE LexerProofs ----------------------------
(***************************************************************************)
(* For every set of sources and every indentation unit: the lexer stays in *)
(* its source and its stack of levels strictly increases (TypeOK,          *)
(* LevelsIncrease), the blocks of the token stream are balanced            *)
(* (BlocksBalanced), and without errors the tokens say where lines end and *)
(* how deep they are nested (LayoutMirrorsSource) and account for every    *)
(* byte (NothingLost).  The first three follow from IInv; the others need  *)
(* LInv, which adds what is true at every byte of a source read without    *)
(* errors so far (Faithful).                                               *)
(***************************************************************************)
EXTENDS Lexer, SequenceFacts

-----------------------------------------------------------------------------
(* The scans stay inside the source                                        *)

LEMMA RunEndScan ==
  ASSUME source \in Seq(Byte), NEW i \in 0 .. End, NEW S
  PROVE  /\ RunEnd(i, S) \in i .. End
         /\ RunEnd(i, S) = End \/ At(RunEnd(i, S)) \notin S
         /\ \A k \in i .. (RunEnd(i, S) - 1) : At(k) \in S
<1> DEFINE Stops == {j \in i .. End : j = End \/ At(j) \notin S}
<1>1. End \in Nat
  BY LenProperties DEF End
<1>2. Stops \in SUBSET Nat /\ Stops # {}
  <2>1. End \in Stops
    BY <1>1
  <2>2. i .. End \subseteq Nat
    BY <1>1
  <2> QED BY <2>1, <2>2
<1>3. PICK j \in Stops : \A k \in Stops : j <= k
  BY <1>2, LeastNatural
<1>4. \A k \in i .. (j - 1) : At(k) \in S
  BY <1>1, <1>3
<1>5. \E n \in i .. End : /\ n = End \/ At(n) \notin S
                          /\ \A k \in i .. (n - 1) : At(k) \in S
  BY <1>3, <1>4
<1> QED BY <1>5 DEF RunEnd

LEMMA RunEndType ==
  ASSUME source \in Seq(Byte), NEW i \in 0 .. End, NEW S
  PROVE  RunEnd(i, S) \in i .. End
BY RunEndScan

LEMMA AfterNewlineType ==
  ASSUME source \in Seq(Byte), NEW i \in 0 .. End
  PROVE  AfterNewline(i) \in i .. End
<1>1. End \in Nat
  BY LenProperties DEF End
<1>2. \A k \in 0 .. End : Peek(k) \in {"cr", "nl"} => k + 1 \in 0 .. End
  BY <1>1 DEF Peek
<1> QED BY <1>1, <1>2 DEF AfterNewline

LEMMA AfterNewlineScan ==
  ASSUME source \in Seq(Byte), NEW i \in 0 .. End
  PROVE  /\ AfterNewline(i) \in i .. End
         /\ \A q \in i .. (AfterNewline(i) - 1) : At(q) \in Newlines
         /\ Peek(i) \in Newlines => AfterNewline(i) > i
<1>1. End \in Nat
  BY LenProperties DEF End
<1>2. \A k \in 0 .. End : Peek(k) \in Newlines =>
                           k < End /\ k + 1 \in 0 .. End /\ At(k) \in Newlines
  BY <1>1 DEF Peek, Newlines
<1> DEFINE j == IF Peek(i) = "cr" THEN i + 1 ELSE i
<1>3. /\ j \in 0 .. End
      /\ j = i \/ (j = i + 1 /\ At(i) \in Newlines)
      /\ Peek(i) = "cr" => j = i + 1
      /\ Peek(i) # "cr" => j = i
  BY <1>1, <1>2 DEF Newlines
<1>4. AfterNewline(i) = IF Peek(j) = "nl" THEN j + 1 ELSE j
  BY DEF AfterNewline
<1> HIDE DEF j
<1>5. CASE Peek(j) = "nl"
  <2>1. j + 1 \in 0 .. End /\ At(j) \in Newlines /\ AfterNewline(i) = j + 1
    BY <1>2, <1>3, <1>4, <1>5 DEF Newlines
  <2> QED BY <1>1, <1>3, <2>1
<1>6. CASE Peek(j) # "nl"
  <2>1. AfterNewline(i) = j
    BY <1>4, <1>6
  <2>2. Peek(i) \in Newlines => j = i + 1
    BY <1>3, <1>6 DEF Newlines
  <2>3. j \in i .. End /\ \A q \in i .. (j - 1) : At(q) \in Newlines
    <3>1. CASE j = i
      BY <1>1, <1>3, <3>1
    <3>2. CASE j = i + 1 /\ At(i) \in Newlines
      <4>1. \A q \in i .. (j - 1) : q = i
        BY <1>1, <3>2
      <4>2. \A q \in i .. (j - 1) : At(q) \in Newlines
        BY <3>2, <4>1, Zenon
      <4>3. j \in i .. End
        BY <1>1, <1>3, <3>2
      <4> QED BY <4>2, <4>3
    <3> QED BY <1>3, <3>1, <3>2
  <2>4. Peek(i) \in Newlines => j > i
    BY <1>1, <2>2
  <2> QED BY <2>1, <2>3, <2>4
<1> QED BY <1>5, <1>6

\* Where a line begins, and that only one place can be it.
BeginsLine(b, i) ==
  /\ b \in 0 .. i
  /\ b = 0 \/ At(b - 1) \in Newlines
  /\ \A q \in b .. (i - 1) : At(q) \notin Newlines

LEMMA LineBeginScan ==
  ASSUME NEW i \in Nat
  PROVE  /\ BeginsLine(LineBegin(i), i)
         /\ \A b : BeginsLine(b, i) => b = LineBegin(i)
<1> DEFINE Back == {n \in 0 .. i : n = i \/ At(i - n - 1) \in Newlines}
<1>1. i \in Back /\ Back \in SUBSET Nat
  OBVIOUS
<1>2. PICK n \in Back : \A m \in Back : n <= m
  BY <1>1, LeastNatural
<1>3. BeginsLine(i - n, i)
  <2>1. i - n \in 0 .. i /\ (i - n = 0 \/ At(i - n - 1) \in Newlines)
    BY <1>2
  <2>2. ASSUME NEW q \in (i - n) .. (i - 1) PROVE At(q) \notin Newlines
    <3>1. i - q - 1 \in 0 .. i /\ i - (i - q - 1) - 1 = q /\ i - q - 1 < n
      BY <1>2, <2>1
    <3> QED BY <1>2, <3>1
  <2> QED BY <2>1, <2>2 DEF BeginsLine
<1>4. BeginsLine(LineBegin(i), i)
  <2>1. \E b \in 0 .. i : /\ b = 0 \/ At(b - 1) \in Newlines
                          /\ \A q \in b .. (i - 1) : At(q) \notin Newlines
    BY <1>3 DEF BeginsLine
  <2> QED BY <2>1 DEF LineBegin, BeginsLine
<1>5. ASSUME NEW b, NEW c, BeginsLine(b, i), BeginsLine(c, i) PROVE ~(b < c)
  <2>1. b \in 0 .. i /\ c \in 0 .. i /\ (c = 0 \/ At(c - 1) \in Newlines)
        /\ \A q \in b .. (i - 1) : At(q) \notin Newlines
    BY <1>5 DEF BeginsLine
  <2>2. b < c => c - 1 \in b .. (i - 1) /\ c # 0
    BY <2>1
  <2> QED BY <2>1, <2>2
<1>6. ASSUME NEW b, BeginsLine(b, i) PROVE b = LineBegin(i)
  <2>1. ~(b < LineBegin(i)) /\ ~(LineBegin(i) < b)
    BY <1>4, <1>5, <1>6
  <2>2. b \in 0 .. i /\ LineBegin(i) \in 0 .. i
    BY <1>4, <1>6 DEF BeginsLine
  <2> QED BY <2>1, <2>2
<1> QED BY <1>4, <1>6

-----------------------------------------------------------------------------
(* Counting tokens                                                         *)

LEMMA CountOfConcat ==
  ASSUME NEW s \in Seq(TokenType), NEW t \in Seq(TokenType), NEW kind
  PROVE  /\ CountIn(s, kind) \in Nat
         /\ CountIn(s \o t, kind) = CountIn(s, kind) + CountIn(t, kind)
<1> DEFINE A == {x \in TokenType : x.kind = kind}
<1>1. \A u \in Seq(TokenType) : CountIn(u, kind) = Cardinality(PlacesIn(u, A))
  <2>1. \A u \in Seq(TokenType) :
          {i \in 1 .. Len(u) : u[i].kind = kind} = PlacesIn(u, A)
    BY LenProperties DEF PlacesIn
  <2> QED BY <2>1 DEF CountIn
<1>2. s \o t \in Seq(TokenType)
  BY ConcatProperties
<1> HIDE DEF A
<1>4. /\ IsFiniteSet(PlacesIn(s, A))
      /\ Cardinality(PlacesIn(s \o t, A))
           = Cardinality(PlacesIn(s, A)) + Cardinality(PlacesIn(t, A))
  BY CountConcat
<1> QED BY <1>1, <1>2, <1>4, FS_CardinalityType

LEMMA CountOfOne ==
  ASSUME NEW x \in TokenType, NEW kind
  PROVE  /\ <<x>> \in Seq(TokenType)
         /\ CountIn(<<x>>, kind) = IF x.kind = kind THEN 1 ELSE 0
<1>1. {i \in 1 .. Len(<<x>>) : <<x>>[i].kind = kind}
        = IF x.kind = kind THEN {1} ELSE {}
  OBVIOUS
<1>2. Cardinality({1}) = 1 /\ Cardinality({}) = 0
  BY FS_EmptySet, FS_Singleton
<1>3. <<x>> \in Seq(TokenType)
  OBVIOUS
<1> QED BY <1>1, <1>2, <1>3 DEF CountIn

LEMMA CountOfNone ==
  ASSUME NEW kind
  PROVE  CountIn(<<>>, kind) = 0
<1>1. {i \in 1 .. Len(<<>>) : <<>>[i].kind = kind} = {}
  OBVIOUS
<1> QED BY <1>1, FS_EmptySet DEF CountIn

LEMMA CountOfDedents ==
  ASSUME NEW n \in Nat, NEW at \in Nat
  PROVE  /\ Dedents(n, at) \in Seq(TokenType)
         /\ CountIn(Dedents(n, at), "Dedent") = n
         /\ CountIn(Dedents(n, at), "Indent") = 0
<1> DEFINE D == Dedents(n, at)
<1>1. Token("Dedent", at, at) \in TokenType
  BY DEF Token, TokenType, Kinds, Layout
<1>2. D \in Seq(TokenType)
  BY <1>1, SMT DEF Dedents
<1>3. {i \in 1 .. Len(D) : D[i].kind = "Dedent"} = 1 .. n
  BY DEF Dedents, Token
<1>4. {i \in 1 .. Len(D) : D[i].kind = "Indent"} = {}
  BY DEF Dedents, Token
<1>5. Cardinality(1 .. n) = n
  BY FS_Interval
<1> QED BY <1>2, <1>3, <1>4, <1>5, FS_EmptySet DEF CountIn

\* Tokens that open and close no block.
Quiet(t) ==
  /\ t \in Seq(TokenType)
  /\ CountIn(t, "Indent") = 0
  /\ CountIn(t, "Dedent") = 0

LEMMA QuietOne ==
  ASSUME NEW x \in TokenType, x.kind \notin {"Indent", "Dedent"}
  PROVE  Quiet(<<x>>)
BY CountOfOne DEF Quiet

LEMMA QuietNone == Quiet(<<>>)
BY CountOfNone DEF Quiet

\* Quiet tokens keep the balance.
LEMMA BalancedQuiet ==
  ASSUME NEW toks \in Seq(TokenType), NEW levels \in Seq(Nat),
         Balanced(toks, levels), NEW q, Quiet(q)
  PROVE  toks \o q \in Seq(TokenType) /\ Balanced(toks \o q, levels)
<1> DEFINE all == toks \o q
<1>1. q \in Seq(TokenType) /\ CountIn(q, "Indent") = 0 /\ CountIn(q, "Dedent") = 0
  BY DEF Quiet
<1>2. /\ CountIn(all, "Indent") = CountIn(toks, "Indent") + CountIn(q, "Indent")
      /\ CountIn(all, "Dedent") = CountIn(toks, "Dedent") + CountIn(q, "Dedent")
      /\ CountIn(toks, "Indent") \in Nat /\ CountIn(toks, "Dedent") \in Nat
  BY <1>1, CountOfConcat
<1>3. all \in Seq(TokenType)
  BY <1>1, ConcatProperties
<1> HIDE DEF all
<1>4. Balanced(all, levels)
  BY <1>1, <1>2 DEF Balanced
<1> QED BY <1>3, <1>4 DEF all

LEMMA BalancedPush ==
  ASSUME NEW toks \in Seq(TokenType), NEW levels \in Seq(Nat),
         Balanced(toks, levels), NEW at \in Nat, NEW spaces \in Nat
  PROVE  /\ Append(toks, Token("Indent", at, at)) \in Seq(TokenType)
         /\ Balanced(Append(toks, Token("Indent", at, at)), Append(levels, spaces))
<1> DEFINE x == Token("Indent", at, at)
           all == Append(toks, x)
           deeper == Append(levels, spaces)
<1>1. x \in TokenType /\ x.kind = "Indent"
  BY DEF Token, TokenType, Kinds, Layout
<1> HIDE DEF x
<1>2. /\ <<x>> \in Seq(TokenType)
      /\ CountIn(<<x>>, "Indent") = 1 /\ CountIn(<<x>>, "Dedent") = 0
  BY <1>1, CountOfOne
<1>3. all = toks \o <<x>> /\ all \in Seq(TokenType)
  BY <1>1, AppendIsConcat, AppendProperties
<1>4. Len(deeper) = Len(levels) + 1 /\ Len(levels) \in Nat
  BY AppendProperties, LenProperties
<1>5. /\ CountIn(toks \o <<x>>, "Indent") = CountIn(toks, "Indent") + CountIn(<<x>>, "Indent")
      /\ CountIn(toks \o <<x>>, "Dedent") = CountIn(toks, "Dedent") + CountIn(<<x>>, "Dedent")
      /\ CountIn(toks, "Indent") \in Nat /\ CountIn(toks, "Dedent") \in Nat
  BY <1>2, CountOfConcat
<1>6. /\ CountIn(all, "Indent") = CountIn(toks, "Indent") + CountIn(<<x>>, "Indent")
      /\ CountIn(all, "Dedent") = CountIn(toks, "Dedent") + CountIn(<<x>>, "Dedent")
  BY <1>3, <1>5
<1> HIDE DEF all, deeper
<1>7. Balanced(all, deeper)
  BY <1>2, <1>4, <1>5, <1>6 DEF Balanced
<1> QED BY <1>3, <1>7 DEF all, deeper, x

LEMMA BalancedPop ==
  ASSUME NEW toks \in Seq(TokenType), NEW levels \in Seq(Nat),
         Balanced(toks, levels), NEW at \in Nat,
         NEW kept \in Seq(Nat), Len(levels) - Len(kept) \in Nat
  PROVE  /\ toks \o Dedents(Len(levels) - Len(kept), at) \in Seq(TokenType)
         /\ Balanced(toks \o Dedents(Len(levels) - Len(kept), at), kept)
<1> DEFINE d == Dedents(Len(levels) - Len(kept), at)
           all == toks \o d
<1>1. /\ d \in Seq(TokenType)
      /\ CountIn(d, "Dedent") = Len(levels) - Len(kept)
      /\ CountIn(d, "Indent") = 0
  BY CountOfDedents
<1> HIDE DEF d
<1>2. /\ CountIn(all, "Indent") = CountIn(toks, "Indent") + CountIn(d, "Indent")
      /\ CountIn(all, "Dedent") = CountIn(toks, "Dedent") + CountIn(d, "Dedent")
      /\ CountIn(toks, "Indent") \in Nat /\ CountIn(toks, "Dedent") \in Nat
  BY <1>1, CountOfConcat
<1>3. all \in Seq(TokenType)
  BY <1>1, ConcatProperties
<1>4. Len(levels) \in Nat /\ Len(kept) \in Nat
  BY LenProperties
<1> HIDE DEF all
<1>5. Balanced(all, kept)
  BY <1>1, <1>2, <1>4 DEF Balanced
<1> QED BY <1>3, <1>5 DEF all, d

-----------------------------------------------------------------------------
(* The inductive invariant                                                 *)

IInv == TypeOK /\ LevelsIncrease /\ BlocksBalanced

LEMMA SourceType ==
  ASSUME TypeOK
  PROVE  /\ source \in Seq(Byte) /\ End \in Nat /\ pos \in 0 .. End
         /\ Lead \in pos .. End
         /\ \A i \in 0 .. End : (Peek(i) # "none" => i < End)
<1>1. source \in Seq(Byte)
  BY SourcesAssumption DEF TypeOK
<1>2. End \in Nat
  BY <1>1, LenProperties DEF End
<1>3. pos \in 0 .. End
  BY DEF TypeOK
<1>4. Lead \in pos .. End
  BY <1>1, <1>3, RunEndType DEF Lead
<1> QED BY <1>1, <1>2, <1>3, <1>4 DEF Peek

LEMMA OneError ==
  ASSUME NEW e \in ErrorKinds
  PROVE  <<e>> \in Seq(ErrorKinds) /\ <<>> \in Seq(ErrorKinds)
OBVIOUS

LEMMA TabTokensQuiet ==
  ASSUME TypeOK
  PROVE  Quiet(TabTokens) /\ TabErrors \in Seq(ErrorKinds)
<1>1. Token("Invalid", pos, Lead) \in TokenType
  BY SourceType DEF Token, TokenType, Kinds
<1>2. Quiet(<<Token("Invalid", pos, Lead)>>)
  BY <1>1, QuietOne DEF Token
<1>3. Quiet(TabTokens)
  BY <1>2, QuietNone DEF TabTokens
<1>4. TabErrors \in Seq(ErrorKinds)
  <2>1. <<"tabs in indentation">> \in Seq(ErrorKinds) /\ <<>> \in Seq(ErrorKinds)
    BY OneError DEF ErrorKinds
  <2> QED BY <2>1, Zenon DEF TabErrors
<1> QED BY <1>3, <1>4

LEMMA QuietConcat ==
  ASSUME NEW s, NEW t, Quiet(s), Quiet(t)
  PROVE  Quiet(s \o t)
<1>1. s \in Seq(TokenType) /\ t \in Seq(TokenType) /\ s \o t \in Seq(TokenType)
  BY ConcatProperties DEF Quiet
<1>2. /\ CountIn(s \o t, "Indent") = CountIn(s, "Indent") + CountIn(t, "Indent")
      /\ CountIn(s \o t, "Dedent") = CountIn(s, "Dedent") + CountIn(t, "Dedent")
  BY <1>1, CountOfConcat
<1> QED BY <1>1, <1>2 DEF Quiet

LEMMA InitIInv == Init => IInv
<1> SUFFICES ASSUME Init PROVE IInv
  OBVIOUS
<1>1. source \in Seq(Byte)
  BY SourcesAssumption DEF Init
<1>2. End \in Nat
  BY <1>1, LenProperties DEF End
<1>3. TypeOK
  <2>1. source \in Sources /\ pos \in 0 .. End
    BY <1>2 DEF Init
  <2>2. /\ tokens \in Seq(TokenType) /\ comments \in Seq([from : Nat, to : Nat])
        /\ errors \in Seq(ErrorKinds) /\ strings \in Seq([quote : Nat, braces : Nat \ {0}])
    BY EmptySeq DEF Init
  <2>3. indentStack \in Seq(Nat) /\ indentStack # <<>>
    BY DEF Init
  <2> QED BY <2>1, <2>2, <2>3 DEF Init, TypeOK
<1>4. BlocksBalanced
  BY CountOfNone DEF Init, BlocksBalanced, Balanced
<1>5. LevelsIncrease
  BY DEF Init, LevelsIncrease, Increasing
<1> QED BY <1>3, <1>4, <1>5 DEF IInv

\* A step that appends quiet tokens, leaves the stack alone and stays typed.
LEMMA QuietIInv ==
  ASSUME IInv, NEW t, Quiet(t), tokens' = tokens \o t,
         indentStack' = indentStack, source' = source,
         pos' \in 0 .. End, comments' \in Seq([from : Nat, to : Nat]),
         atLineStart' \in BOOLEAN, emittedContent' \in BOOLEAN,
         errors' \in Seq(ErrorKinds),
         strings' \in Seq([quote : Nat, braces : Nat \ {0}]),
         phase' \in {"lexing", "done", "panicked"}
  PROVE  IInv'
<1>1. tokens' \in Seq(TokenType) /\ BlocksBalanced'
  BY BalancedQuiet DEF IInv, TypeOK, BlocksBalanced
<1>2. TypeOK'
  BY <1>1 DEF IInv, TypeOK, End
<1>3. LevelsIncrease'
  BY DEF IInv, LevelsIncrease
<1> QED BY <1>1, <1>2, <1>3 DEF IInv

LEMMA LineStartIInv ==
  ASSUME IInv, BlankLine \/ CommentLine
  PROVE  IInv'
<1>1. TypeOK
  BY DEF IInv
<1>2. Quiet(TabTokens) /\ errors \o TabErrors \in Seq(ErrorKinds)
  BY <1>1, TabTokensQuiet, ConcatProperties DEF TypeOK
<1>3. CommentEnd(Lead) \in Lead .. End
  BY <1>1, SourceType, RunEndType DEF CommentEnd
<1>4. CASE BlankLine
  <2>1. pos' \in 0 .. End
    BY <1>1, <1>4, SourceType, AfterNewlineType DEF BlankLine
  <2> QED BY <1>1, <1>2, <1>4, <2>1, QuietIInv DEF BlankLine, TypeOK
<1>5. CASE CommentLine
  <2>1. pos' \in 0 .. End
    BY <1>1, <1>3, <1>5, SourceType, AfterNewlineType DEF CommentLine
  <2>2. [from |-> Lead, to |-> CommentEnd(Lead)] \in [from : Nat, to : Nat]
    BY <1>1, <1>3, SourceType
  <2>3. comments' \in Seq([from : Nat, to : Nat])
    BY <1>1, <1>5, <2>2, AppendProperties DEF CommentLine, TypeOK
  <2> QED BY <1>1, <1>2, <1>5, <2>1, <2>3, QuietIInv DEF CommentLine, TypeOK
<1> QED BY <1>4, <1>5

\* Errors stay errors when one more is reported under a condition.
LEMMA ErrorsConcat ==
  ASSUME NEW s \in Seq(ErrorKinds), NEW e \in ErrorKinds
  PROVE  s \o <<e>> \in Seq(ErrorKinds) /\ s \o <<>> \in Seq(ErrorKinds)
BY OneError, ConcatProperties

LEMMA IncreasingPush ==
  ASSUME NEW s \in Seq(Nat), s # <<>>, Increasing(s),
         NEW x \in Nat, x > Top(s)
  PROVE  /\ Append(s, x) \in Seq(Nat) /\ Append(s, x) # <<>>
         /\ Len(Append(s, x)) = Len(s) + 1
         /\ Increasing(Append(s, x))
<1>1. Len(s) \in Nat \ {0} /\ s \in [1 .. Len(s) -> Nat]
  BY EmptySeq, LenProperties
<1>2. \A i \in 1 .. Len(s) : s[i] < x
  BY <1>1 DEF Increasing, Top
<1>3. /\ Append(s, x) \in Seq(Nat) /\ Append(s, x) # <<>>
      /\ Len(Append(s, x)) = Len(s) + 1
      /\ \A i \in 1 .. Len(s) : Append(s, x)[i] = s[i]
      /\ Append(s, x)[Len(s) + 1] = x
  BY <1>1, AppendProperties
<1>4. ASSUME NEW i \in 1 .. (Len(s) + 1), NEW j \in 1 .. (Len(s) + 1), i < j
      PROVE  Append(s, x)[i] < Append(s, x)[j]
  <2>1. CASE j = Len(s) + 1
    BY <1>1, <1>2, <1>3, <1>4, <2>1
  <2>2. CASE j \in 1 .. Len(s)
    BY <1>1, <1>3, <1>4, <2>2 DEF Increasing
  <2> QED BY <1>1, <2>1, <2>2
<1>5. Append(s, x)[1] = 0
  BY <1>1, <1>3 DEF Increasing
<1> QED BY <1>3, <1>4, <1>5 DEF Increasing

LEMMA IncreasingKeep ==
  ASSUME NEW s \in Seq(Nat), Increasing(s), NEW n \in 1 .. Len(s)
  PROVE  /\ SubSeq(s, 1, n) \in Seq(Nat) /\ SubSeq(s, 1, n) # <<>>
         /\ Len(SubSeq(s, 1, n)) = n
         /\ Increasing(SubSeq(s, 1, n))
<1>1. Len(s) \in Nat /\ s \in [1 .. Len(s) -> Nat]
  BY LenProperties
<1>2. /\ SubSeq(s, 1, n) \in Seq(Nat) /\ Len(SubSeq(s, 1, n)) = n
      /\ \A i \in 1 .. n : SubSeq(s, 1, n)[i] = s[i]
  BY <1>1, SubSeqProperties
<1> HIDE DEF Increasing
<1>3. SubSeq(s, 1, n) # <<>>
  BY <1>2, EmptySeq
<1> QED BY <1>1, <1>2, <1>3 DEF Increasing

LEMMA KeptDepthType ==
  ASSUME TypeOK, LevelsIncrease, NEW spaces \in Nat
  PROVE  KeptDepth(spaces) \in 1 .. Len(indentStack)
<1> DEFINE L == Len(indentStack)
           Pops == {p \in 0 .. (L - 1) : L - p = 1 \/ indentStack[L - p] <= spaces}
<1>1. /\ L \in Nat \ {0} /\ indentStack \in [1 .. L -> Nat]
  BY EmptySeq, LenProperties DEF TypeOK
<1>2. L - 1 \in Pops /\ Pops \in SUBSET Nat
  BY <1>1
<1>3. PICK p \in Pops : \A q \in Pops : p <= q
  BY <1>2, LeastNatural
<1>4. p \in 0 .. (L - 1) /\ (L - p = 1 \/ indentStack[L - p] <= spaces)
  BY <1>3
<1> HIDE DEF L
<1>5. L - p \in 1 .. L
  BY <1>1, <1>4
<1>6. ASSUME NEW m \in (L - p + 1) .. L PROVE indentStack[m] > spaces
  <2>1. /\ m \in 1 .. L /\ m # 1 /\ L - m \in 0 .. (L - 1)
        /\ L - (L - m) = m /\ ~(p <= L - m)
    BY <1>1, <1>4, <1>5
  <2>2. L - m \notin Pops
    BY <1>3, <2>1
  <2>3. ~(indentStack[m] <= spaces)
    BY <2>1, <2>2
  <2> QED BY <1>1, <2>1, <2>3
<1>7. \E n \in 1 .. L : /\ n = 1 \/ indentStack[n] <= spaces
                        /\ \A m \in (n + 1) .. L : indentStack[m] > spaces
  BY <1>4, <1>5, <1>6
<1> QED BY <1>7 DEF KeptDepth, L

\* Every way a line of code may start: one level pushed, some popped, or none.
LEMMA StartLineIInv ==
  ASSUME IInv, StartLine
  PROVE  IInv'
<1> DEFINE odd  == ~LeadHasTab /\ Spaces % IndentUnit # 0
           base == errors \o TabErrors
                    \o (IF odd THEN <<"indentation not a multiple">> ELSE <<>>)
           q == TabTokens \o (IF odd THEN <<Token("Invalid", pos, Lead)>> ELSE <<>>)
<1>1. TypeOK /\ LevelsIncrease /\ BlocksBalanced
  BY DEF IInv
<1>2. Lead \in Nat /\ Spaces \in Nat
  BY <1>1, SourceType DEF Spaces
<1>3. base \in Seq(ErrorKinds)
  <2>1. errors \o TabErrors \in Seq(ErrorKinds)
    BY <1>1, TabTokensQuiet, ConcatProperties DEF TypeOK
  <2>2. /\ (errors \o TabErrors) \o <<"indentation not a multiple">> \in Seq(ErrorKinds)
        /\ (errors \o TabErrors) \o <<>> \in Seq(ErrorKinds)
    BY <2>1, ErrorsConcat DEF ErrorKinds
  <2>3. CASE odd
    BY <2>2, <2>3, Zenon
  <2>4. CASE ~odd
    BY <2>2, <2>4, Zenon
  <2> QED BY <2>3, <2>4
<1>4. /\ Quiet(q)
      /\ tokens \o TabTokens \o (IF odd THEN <<Token("Invalid", pos, Lead)>> ELSE <<>>)
           = tokens \o q
  <2>1. Token("Invalid", pos, Lead) \in TokenType
    BY <1>1, <1>2, SourceType DEF Token, TokenType, Kinds
  <2>2. Quiet(<<Token("Invalid", pos, Lead)>>)
    BY <2>1, QuietOne DEF Token
  <2>3. Quiet(IF odd THEN <<Token("Invalid", pos, Lead)>> ELSE <<>>)
    BY <2>2, QuietNone
  <2>4. Quiet(TabTokens) /\ tokens \in Seq(TokenType)
    BY <1>1, TabTokensQuiet DEF TypeOK
  <2>5. Quiet(q)
    BY <2>3, <2>4, QuietConcat
  <2> DEFINE o == IF odd THEN <<Token("Invalid", pos, Lead)>> ELSE <<>>
  <2>6. o \in Seq(TokenType) /\ TabTokens \in Seq(TokenType)
    BY <2>3, <2>4 DEF Quiet
  <2> HIDE DEF o
  <2>7. (tokens \o TabTokens) \o o = tokens \o (TabTokens \o o)
    BY <2>4, <2>6, ConcatAssociative, SMTT(30)
  <2> QED BY <2>5, <2>7 DEF o
<1>5. /\ source' = source /\ pos' = Lead /\ comments' = comments
      /\ atLineStart' = FALSE /\ emittedContent' = emittedContent
      /\ strings' = strings /\ phase' = phase
  BY ZenonT(30) DEF StartLine
<1>6. \/ /\ Spaces > Top(indentStack)
         /\ indentStack' = Append(indentStack, Spaces)
         /\ tokens' = Append(tokens \o q, Token("Indent", Lead, Lead))
         /\ errors' = base \o (IF Spaces # Top(indentStack) + IndentUnit
                                THEN <<"level skipped">> ELSE <<>>)
      \/ /\ indentStack' = Kept(Spaces)
         /\ tokens' = (tokens \o q)
                        \o Dedents(Len(indentStack) - Len(Kept(Spaces)), Lead)
         /\ errors' = base \o (IF Top(Kept(Spaces)) # Spaces
                                THEN <<"dedent to no level">> ELSE <<>>)
      \/ /\ indentStack' = indentStack
         /\ tokens' = tokens \o q
         /\ errors' = base
  BY <1>4 DEF StartLine
<1> HIDE DEF base, q
<1>7. errors' \in Seq(ErrorKinds)
  <2>1. /\ base \o <<"level skipped">> \in Seq(ErrorKinds) /\ base \o <<>> \in Seq(ErrorKinds)
        /\ base \o <<"dedent to no level">> \in Seq(ErrorKinds)
    BY <1>3, ErrorsConcat DEF ErrorKinds
  <2> QED BY <1>3, <1>6, <2>1, Zenon
<1>8. /\ indentStack \in Seq(Nat) /\ indentStack # <<>>
      /\ tokens \o q \in Seq(TokenType) /\ Balanced(tokens \o q, indentStack)
  BY <1>1, <1>4, BalancedQuiet DEF TypeOK, BlocksBalanced
<1>9. /\ tokens' \in Seq(TokenType)
      /\ indentStack' \in Seq(Nat) /\ indentStack' # <<>>
      /\ Increasing(indentStack') /\ Balanced(tokens', indentStack')
  <2> DEFINE before == tokens \o q
  <2>1. /\ before \in Seq(TokenType) /\ Balanced(before, indentStack)
        /\ Increasing(indentStack)
    BY <1>1, <1>8 DEF LevelsIncrease
  <2> HIDE DEF before
  <2>2. CASE /\ Spaces > Top(indentStack)
             /\ indentStack' = Append(indentStack, Spaces)
             /\ tokens' = Append(before, Token("Indent", Lead, Lead))
    BY <1>2, <1>8, <2>1, <2>2, BalancedPush, IncreasingPush
  <2>3. CASE /\ indentStack' = Kept(Spaces)
             /\ tokens' = before \o Dedents(Len(indentStack) - Len(Kept(Spaces)), Lead)
    <3> DEFINE n == KeptDepth(Spaces)
               kept == Kept(Spaces)
    <3>1. n \in 1 .. Len(indentStack)
      BY <1>1, <1>2, KeptDepthType
    <3>2. /\ kept \in Seq(Nat) /\ kept # <<>> /\ Len(kept) = n
          /\ Increasing(kept)
      BY <1>8, <2>1, <3>1, IncreasingKeep DEF Kept
    <3>3. Len(indentStack) \in Nat
      BY <1>8, LenProperties
    <3> HIDE DEF n, kept
    <3>4. Len(indentStack) - Len(kept) \in Nat
      BY <3>1, <3>2, <3>3
    <3>5. /\ before \o Dedents(Len(indentStack) - Len(kept), Lead) \in Seq(TokenType)
          /\ Balanced(before \o Dedents(Len(indentStack) - Len(kept), Lead), kept)
      BY <1>2, <1>8, <2>1, <3>2, <3>4, BalancedPop
    <3> QED BY <2>3, <3>2, <3>5 DEF kept
  <2>4. CASE indentStack' = indentStack /\ tokens' = before
    BY <1>8, <2>1, <2>4
  <2> QED BY <1>6, <2>2, <2>3, <2>4 DEF before
<1>10. pos' \in 0 .. End
  BY <1>1, <1>5, SourceType
<1> QED BY <1>1, <1>5, <1>7, <1>9, <1>10
        DEF IInv, TypeOK, End, LevelsIncrease, BlocksBalanced

-----------------------------------------------------------------------------
(* The steps inside a line                                                 *)

\* The rest of the state, when a step appends no token or one quiet token.
Typed ==
  /\ source' = source
  /\ indentStack' = indentStack
  /\ pos' \in 0 .. End
  /\ comments' \in Seq([from : Nat, to : Nat])
  /\ atLineStart' \in BOOLEAN
  /\ emittedContent' \in BOOLEAN
  /\ errors' \in Seq(ErrorKinds)
  /\ strings' \in Seq([quote : Nat, braces : Nat \ {0}])
  /\ phase' \in {"lexing", "done", "panicked"}

LEMMA NoTokenIInv ==
  ASSUME IInv, Typed, tokens' = tokens
  PROVE  IInv'
<1>1. tokens \in Seq(TokenType)
  BY DEF IInv, TypeOK
<1>2. tokens' = tokens \o <<>>
  BY <1>1, ConcatEmptySeq
<1> QED BY <1>2, QuietNone, QuietIInv DEF Typed

LEMMA OneTokenIInv ==
  ASSUME IInv, Typed, NEW kind \in Kinds \ {"Indent", "Dedent"},
         NEW from \in Nat, NEW to \in Nat,
         tokens' = Append(tokens, Token(kind, from, to))
  PROVE  IInv'
<1> DEFINE x == Token(kind, from, to)
<1>1. tokens \in Seq(TokenType)
  BY DEF IInv, TypeOK
<1>2. x \in TokenType /\ x.kind \notin {"Indent", "Dedent"}
  BY DEF Token, TokenType
<1>3. Append(tokens, x) = tokens \o <<x>>
  BY <1>1, <1>2, AppendIsConcat
<1> HIDE DEF x
<1>4. Quiet(<<x>>)
  BY <1>2, QuietOne
<1> QED BY <1>3, <1>4, QuietIInv DEF Typed, x

LEMMA ReportError ==
  ASSUME TypeOK, NEW e \in ErrorKinds
  PROVE  Append(errors, e) \in Seq(ErrorKinds)
BY AppendProperties DEF TypeOK

LEMMA TokenStepIInv ==
  ASSUME IInv, TokenStep
  PROVE  IInv'
<1>1. TypeOK
  BY DEF IInv
<1>2. /\ source \in Seq(Byte) /\ End \in Nat /\ pos \in 0 .. End
      /\ \A i \in 0 .. End : (Peek(i) # "none" => i < End)
  BY <1>1, SourceType
<1>3. CASE SkipSpaces
  <2>1. pos' \in 0 .. End
    BY <1>2, <1>3, RunEndType DEF SkipSpaces
  <2> QED BY <1>1, <1>3, <2>1, NoTokenIInv DEF SkipSpaces, Typed, TypeOK
<1>4. CASE HandleNewline
  <2>1. AfterNewline(pos) \in 0 .. End
    BY <1>2, AfterNewlineType
  <2>2. errors' \in Seq(ErrorKinds)
    <3>1. /\ errors \o <<"trailing whitespace">> \in Seq(ErrorKinds)
          /\ errors \o <<>> \in Seq(ErrorKinds)
      BY <1>1, ErrorsConcat DEF TypeOK, ErrorKinds
    <3> QED BY <1>4, <3>1, Zenon DEF HandleNewline
  <2> DEFINE t == IF emittedContent
                    THEN <<Token("Newline", pos, AfterNewline(pos))>> ELSE <<>>
  <2>3. Quiet(t)
    <3>1. Token("Newline", pos, AfterNewline(pos)) \in TokenType
      BY <1>2, <2>1 DEF Token, TokenType, Kinds, Layout
    <3>2. Quiet(<<Token("Newline", pos, AfterNewline(pos))>>)
      BY <3>1, QuietOne DEF Token
    <3> QED BY <3>2, QuietNone
  <2>4. tokens' = tokens \o t /\ indentStack' = indentStack
    BY <1>4 DEF HandleNewline
  <2> HIDE DEF t
  <2> QED BY <1>1, <1>4, <2>1, <2>2, <2>3, <2>4, QuietIInv DEF HandleNewline, TypeOK
<1>5. CASE InlineTab
  <2>1. errors' \in Seq(ErrorKinds)
    BY <1>1, <1>5, ReportError DEF InlineTab, ErrorKinds
  <2>2. /\ pos' \in 0 .. End /\ pos \in Nat /\ pos + 1 \in Nat
        /\ tokens' = Append(tokens, Token("Invalid", pos, pos + 1))
    BY <1>2, <1>5 DEF InlineTab, Outside, InLine
  <2>3. "Invalid" \in Kinds \ {"Indent", "Dedent"}
    BY DEF Kinds, Layout
  <2>4. Typed
    BY <1>1, <1>5, <2>1, <2>2 DEF InlineTab, Typed, TypeOK
  <2> QED BY <2>2, <2>3, <2>4, OneTokenIInv
<1>6. CASE InlineComment
  <2>1. CommentEnd(pos) \in pos .. End
    BY <1>2, RunEndType DEF CommentEnd
  <2>2. [from |-> pos, to |-> CommentEnd(pos)] \in [from : Nat, to : Nat]
    BY <1>2, <2>1
  <2>3. comments' \in Seq([from : Nat, to : Nat])
    BY <1>1, <1>6, <2>2, AppendProperties DEF InlineComment, TypeOK
  <2> QED BY <1>1, <1>2, <1>6, <2>1, <2>3, NoTokenIInv DEF InlineComment, Typed, TypeOK
<1>7. ASSUME NEW kind \in Kinds \ {"Indent", "Dedent"}, NEW to \in 0 .. End,
             Content(kind, to), errors' \in Seq(ErrorKinds),
             UNCHANGED <<source, comments, indentStack, atLineStart, strings, phase>>
      PROVE  IInv'
  <2>1. Typed
    BY <1>1, <1>7 DEF Content, Typed, TypeOK
  <2>2. tokens' = Append(tokens, Token(kind, pos, to)) /\ pos \in Nat /\ to \in Nat
    BY <1>2, <1>7 DEF Content
  <2> QED BY <2>1, <2>2, OneTokenIInv
<1>8. {"Int", "Float", "Word", "Symbol", "Invalid"} \subseteq Kinds \ {"Indent", "Dedent"}
  BY DEF Kinds, Layout
<1>9. CASE Number
  <2> DEFINE whole == RunEnd(pos, {"digit"})
  <2>1. whole \in 0 .. End
    BY <1>2, RunEndType
  <2>2. errors' \in Seq(ErrorKinds)
        /\ UNCHANGED <<source, comments, indentStack, atLineStart, strings, phase>>
    BY <1>1, <1>9 DEF Number, TypeOK
  <2>3. CASE Peek(whole) = "dot" /\ Peek(whole + 1) = "digit"
    <3>1. whole + 1 \in 0 .. End
      BY <1>2, <2>1, <2>3
    <3>2. RunEnd(whole + 1, {"digit"}) \in 0 .. End
      BY <1>2, <3>1, RunEndType
    <3>3. Content("Float", RunEnd(whole + 1, {"digit"}))
      BY <1>9, <2>3 DEF Number
    <3> QED BY <1>7, <1>8, <2>2, <3>2, <3>3
  <2>4. CASE ~(Peek(whole) = "dot" /\ Peek(whole + 1) = "digit")
    <3>1. Content("Int", whole)
      BY <1>9, <2>4 DEF Number
    <3> QED BY <1>7, <1>8, <2>1, <2>2, <3>1
  <2> QED BY <2>3, <2>4
<1>10. CASE Word
  <2>1. RunEnd(pos, IdentBytes) \in 0 .. End
    BY <1>2, RunEndType
  <2> QED BY <1>1, <1>7, <1>8, <1>10, <2>1 DEF Word, TypeOK
<1>11. CASE Symbol
  <2>1. pos + 1 \in 0 .. End
    BY <1>2, <1>11 DEF Symbol, InLine
  <2> QED BY <1>1, <1>7, <1>8, <1>11, <2>1 DEF Symbol, TypeOK
<1>12. CASE UnknownByte
  <2>1. pos + 1 \in 0 .. End
    <3>1. pos < End
      BY <1>12 DEF UnknownByte, InLine
    <3> QED BY <1>2, <3>1
  <2>2. errors' \in Seq(ErrorKinds)
    BY <1>1, <1>12, ReportError DEF UnknownByte, ErrorKinds
  <2> QED BY <1>7, <1>8, <1>12, <2>1, <2>2 DEF UnknownByte
<1>13. CASE WideCharacter
  BY <1>1, <1>2, <1>13, NoTokenIInv DEF WideCharacter, Typed, TypeOK
<1> QED BY <1>3, <1>4, <1>5, <1>6, <1>9, <1>10, <1>11, <1>12, <1>13 DEF TokenStep

LEMMA StringsType ==
  ASSUME TypeOK, strings # <<>>
  PROVE  /\ Outer \in Seq([quote : Nat, braces : Nat \ {0}])
         /\ Braces \in Nat \ {0}
         /\ \A n \in Nat \ {0} : WithBraces(n) \in Seq([quote : Nat, braces : Nat \ {0}])
<1> DEFINE F == [quote : Nat, braces : Nat \ {0}]
<1>1. strings \in Seq(F) /\ Len(strings) \in Nat \ {0}
  BY EmptySeq DEF TypeOK
<1>2. strings[Len(strings)] \in F
  <2> HIDE DEF F
  <2> QED BY <1>1
<1>3. Outer \in Seq(F)
  <2> HIDE DEF F
  <2>1. \A i \in 1 .. (Len(strings) - 1) : strings[i] \in F
    BY <1>1
  <2> QED BY <1>1, <2>1, SubSeqProperties DEF Outer
<1>4. ASSUME NEW n \in Nat \ {0} PROVE WithBraces(n) \in Seq(F)
  <2>1. [strings[Len(strings)] EXCEPT !.braces = n] \in F
    BY <1>2
  <2>2. Len(strings) \in 1 .. Len(strings)
    BY <1>1
  <2>3. WithBraces(n)
          = [strings EXCEPT ![Len(strings)] = [strings[Len(strings)] EXCEPT !.braces = n]]
    BY DEF WithBraces
  <2> QED BY <1>1, <2>1, <2>2, <2>3, ExceptSeq
<1>5. Braces \in Nat \ {0}
  BY <1>2 DEF Braces, Top
<1> QED BY <1>3, <1>4, <1>5

LEMMA StringStepIInv ==
  ASSUME IInv, StringStep
  PROVE  IInv'
<1> DEFINE F == [quote : Nat, braces : Nat \ {0}]
<1>1. TypeOK
  BY DEF IInv
<1>2. /\ source \in Seq(Byte) /\ End \in Nat /\ pos \in 0 .. End
      /\ \A i \in 0 .. End : (Peek(i) # "none" => i < End)
  BY <1>1, SourceType
<1>3. {"String", "StringStart", "StringMid", "StringEnd", "Invalid"}
        \subseteq Kinds \ {"Indent", "Dedent"}
  BY DEF Kinds, Layout
<1>4. CASE SimpleString
  <2>1. PICK stop \in (pos + 1) .. End :
          IF Peek(stop) = "quote"
            THEN Content("String", stop + 1) /\ errors' = errors
            ELSE /\ Content("Invalid", stop)
                 /\ errors' = Append(errors, "unterminated string")
    BY <1>4 DEF SimpleString
  <2>2. errors' \in Seq(ErrorKinds)
    BY <1>1, <2>1, ReportError DEF ErrorKinds, TypeOK
  <2>3. stop \in 0 .. End /\ (Peek(stop) = "quote" => stop + 1 \in 0 .. End)
    <3>1. stop \in 0 .. End
      BY <1>2
    <3>2. Peek(stop) # "none" => stop < End
      BY <1>2, <3>1
    <3>3. stop < End => stop + 1 \in 0 .. End
      BY <1>2, <3>1
    <3> QED BY <3>1, <3>2, <3>3
  <2>4. PICK kind \in {"String", "Invalid"}, to \in 0 .. End : Content(kind, to)
    BY <2>1, <2>3
  <2>5. Typed
    BY <1>1, <1>4, <2>2, <2>4 DEF SimpleString, Content, Typed, TypeOK
  <2>6. /\ tokens' = Append(tokens, Token(kind, pos, to)) /\ pos \in Nat /\ to \in Nat
        /\ kind \in Kinds \ {"Indent", "Dedent"}
    BY <1>2, <1>3, <2>4 DEF Content
  <2> QED BY <2>5, <2>6, OneTokenIInv
<1>5. CASE InterpolatedString
  <2>1. PICK stop \in (pos + 1) .. End :
          /\ Peek(stop) = "open"
          /\ tokens' = Append(tokens, Token("StringStart", pos, stop))
          /\ pos' = stop + 1
    BY <1>5 DEF InterpolatedString
  <2>2. pos' \in 0 .. End /\ pos \in Nat /\ stop \in Nat
    BY <1>2, <2>1
  <2>3. strings' \in Seq(F)
    <3>1. [quote |-> pos, braces |-> 1] \in F
      BY <1>2
    <3> QED BY <1>1, <1>5, <3>1, AppendProperties DEF InterpolatedString, TypeOK
  <2>4. Typed
    BY <1>1, <1>5, <2>2, <2>3 DEF InterpolatedString, Typed, TypeOK
  <2> QED BY <1>3, <2>1, <2>2, <2>4, OneTokenIInv
<1>6. CASE InnerBrace
  <2>1. pos < End /\ strings # <<>>
    BY <1>6 DEF InnerBrace, InBraces, InLine
  <2>2. pos' \in 0 .. End
    BY <1>2, <1>6, <2>1 DEF InnerBrace
  <2>3. strings' = WithBraces(Braces + 1) \/ (Braces > 1 /\ strings' = WithBraces(Braces - 1))
    BY <1>6 DEF InnerBrace
  <2>4. strings' \in Seq(F)
    BY <1>1, <2>1, <2>3, StringsType
  <2> QED BY <1>1, <1>6, <2>2, <2>4, NoTokenIInv DEF InnerBrace, Typed, TypeOK
<1>7. CASE CloseInterpolation
  <2>1. strings # <<>> /\ pos < End
    BY <1>7 DEF CloseInterpolation, InBraces, InLine
  <2>2. strings' \in Seq(F)
    BY <1>1, <1>7, <2>1, StringsType DEF CloseInterpolation, TypeOK
  <2>3. errors' \in Seq(ErrorKinds)
    BY <1>1, <1>7, ReportError DEF CloseInterpolation, ErrorKinds, TypeOK
  <2>4. PICK stop \in (pos + 1) .. End :
          \/ /\ Peek(stop) = "quote"
             /\ tokens' = Append(tokens, Token("StringEnd", pos + 1, stop + 1))
             /\ pos' = stop + 1
          \/ /\ Peek(stop) = "open"
             /\ tokens' = Append(tokens, Token("StringMid", pos + 1, stop))
             /\ pos' = stop + 1
          \/ /\ tokens' = Append(tokens, Token("Invalid", pos + 1, stop))
             /\ pos' = stop
    BY <1>7 DEF CloseInterpolation
  <2>5. pos' \in 0 .. End /\ pos + 1 \in Nat /\ stop \in Nat /\ stop + 1 \in Nat
    BY <1>2, <2>4
  <2>6. Typed
    BY <1>1, <1>7, <2>2, <2>3, <2>5 DEF CloseInterpolation, Typed, TypeOK
  <2>7. \/ tokens' = Append(tokens, Token("StringEnd", pos + 1, stop + 1))
        \/ tokens' = Append(tokens, Token("StringMid", pos + 1, stop))
        \/ tokens' = Append(tokens, Token("Invalid", pos + 1, stop))
    BY <2>4
  <2> QED BY <1>3, <2>5, <2>6, <2>7, OneTokenIInv
<1>8. CASE NewlineInBraces
  <2>1. pos < End /\ strings # <<>>
    BY <1>8 DEF NewlineInBraces, InBraces, InLine
  <2>2. pos' \in 0 .. End /\ strings' \in Seq(F)
    <3>1. pos' \in 0 .. End
      <4>1. pos' = pos + 1
        BY <1>8 DEF NewlineInBraces
      <4> QED BY <1>2, <2>1, <4>1
    <3>2. strings' \in Seq(F)
      BY <1>1, <1>8, <2>1, StringsType DEF NewlineInBraces
    <3> QED BY <3>1, <3>2
  <2>3. errors' \in Seq(ErrorKinds)
    <3>1. <<"newline in interpolation", "unterminated interpolation">> \in Seq(ErrorKinds)
      BY DEF ErrorKinds
    <3> QED BY <1>1, <1>8, <3>1, ConcatProperties DEF NewlineInBraces, TypeOK
  <2> QED BY <1>1, <1>8, <2>2, <2>3, NoTokenIInv DEF NewlineInBraces, Typed, TypeOK
<1>9. CASE EndInBraces
  <2>1. strings' \in Seq(F)
    BY <1>1, <1>9, StringsType DEF EndInBraces
  <2>2. errors' \in Seq(ErrorKinds)
    BY <1>1, <1>9, ReportError DEF EndInBraces, ErrorKinds
  <2> QED BY <1>1, <1>2, <1>9, <2>1, <2>2, NoTokenIInv DEF EndInBraces, Typed, TypeOK
<1> QED BY <1>4, <1>5, <1>6, <1>7, <1>8, <1>9 DEF StringStep

LEMMA FinishIInv ==
  ASSUME IInv, Finish
  PROVE  IInv'
<1> DEFINE eof == Token("Eof", pos, pos)
           closing == Dedents(Len(indentStack) - 1, pos)
<1>1. TypeOK /\ LevelsIncrease /\ BlocksBalanced
  BY DEF IInv
<1>2. /\ tokens \in Seq(TokenType) /\ indentStack \in Seq(Nat) /\ pos \in Nat
      /\ Len(indentStack) - 1 \in Nat
  BY <1>1, SourceType, EmptySeq DEF TypeOK
<1>3. <<0>> \in Seq(Nat) /\ Len(<<0>>) = 1 /\ Increasing(<<0>>)
  BY DEF Increasing
<1>4. tokens \o closing \in Seq(TokenType) /\ Balanced(tokens \o closing, <<0>>)
  BY <1>1, <1>2, <1>3, BalancedPop DEF BlocksBalanced
<1>5. eof \in TokenType /\ Quiet(<<eof>>)
  <2>1. eof \in TokenType /\ eof.kind \notin {"Indent", "Dedent"}
    BY <1>2 DEF Token, TokenType, Kinds, Layout
  <2> HIDE DEF eof
  <2> QED BY <2>1, QuietOne
<1>6. closing \in Seq(TokenType) /\ <<eof>> \in Seq(TokenType)
  BY <1>2, <1>5, CountOfDedents DEF Quiet
<1>7. tokens' = tokens \o (closing \o <<eof>>) /\ indentStack' = <<0>>
  BY DEF Finish, EofTokens
<1> HIDE DEF closing, eof
<1>8. tokens' = (tokens \o closing) \o <<eof>>
  BY <1>2, <1>6, <1>7, ConcatAssociative, SMTT(30)
<1> DEFINE before == tokens \o closing
<1> HIDE DEF before
<1>9. before \in Seq(TokenType) /\ Balanced(before, <<0>>)
  BY <1>4 DEF before
<1>10. before \o <<eof>> \in Seq(TokenType) /\ Balanced(before \o <<eof>>, <<0>>)
  BY <1>3, <1>5, <1>9, BalancedQuiet
<1>11. tokens' \in Seq(TokenType) /\ BlocksBalanced'
  BY <1>7, <1>8, <1>10 DEF before, BlocksBalanced
<1>12. LevelsIncrease' /\ indentStack' \in Seq(Nat) /\ indentStack' # <<>>
  BY <1>3, <1>7 DEF LevelsIncrease
<1> QED BY <1>1, <1>11, <1>12 DEF IInv, Finish, TypeOK, End

-----------------------------------------------------------------------------
LEMMA StepIInv == IInv /\ [Next]_vars => IInv'
<1> SUFFICES ASSUME IInv, [Next]_vars PROVE IInv'
  OBVIOUS
<1>1. CASE LineStart
  BY <1>1, LineStartIInv, StartLineIInv DEF LineStart
<1>2. CASE TokenStep
  BY <1>2, TokenStepIInv
<1>3. CASE StringStep
  BY <1>3, StringStepIInv
<1>4. CASE Finish
  BY <1>4, FinishIInv
<1>5. CASE UNCHANGED vars
  BY <1>5 DEF IInv, TypeOK, LevelsIncrease, BlocksBalanced, End, vars
<1> QED BY <1>1, <1>2, <1>3, <1>4, <1>5 DEF Next

-----------------------------------------------------------------------------
(* Sources without errors: the invariant                                   *)

\* What is in no token and no comment.
Gaps == {"sp", "nl", "cr", "open", "close"}

\* Tokens and comments stand side by side up to p, and leave only gaps.
Follow(s, p) ==
  /\ \A i \in 1 .. Len(s) : s[i].from <= s[i].to /\ s[i].to <= p
  /\ \A i, j \in 1 .. Len(s) : i < j => s[i].to <= s[j].from
Read(p, toks, coms) ==
  /\ Follow(toks, p) /\ Follow(coms, p)
  /\ \A i \in 1 .. Len(toks), j \in 1 .. Len(coms) :
       toks[i].to <= coms[j].from \/ coms[j].to <= toks[i].from
  /\ \A q \in 0 .. (p - 1) :
       \/ At(q) \in Gaps
       \/ \E i \in 1 .. Len(toks) : Covers(toks[i], q)
       \/ \E j \in 1 .. Len(coms) : Covers(coms[j], q)

\* Newlines after a content token have made a Newline token; only while the
\* line has no content is there none to be made.
IsContent(tok) == tok.kind \notin Layout
Newlined(toks, from, to) ==
  \E q \in from .. (to - 1) :
    /\ At(q) \in Newlines
    /\ \A k \in 1 .. Len(toks) : IsContent(toks[k]) => ~Covers(toks[k], q)
Ended(toks, i, j) == \E k \in (i + 1) .. (j - 1) : toks[k].kind = "Newline"
Lines(p, toks, emitted) ==
  /\ \A i, j \in 1 .. Len(toks) :
       /\ i < j /\ IsContent(toks[i]) /\ IsContent(toks[j])
       /\ Newlined(toks, toks[i].to, toks[j].from)
       => Ended(toks, i, j)
  /\ \A i \in 1 .. Len(toks) :
       IsContent(toks[i]) /\ (~emitted \/ Newlined(toks, toks[i].to, p))
       => Ended(toks, i, Len(toks) + 1)

\* The levels are whole: no line has skipped one, or returned to none.
Whole(levels) == \A k \in 1 .. Len(levels) : levels[k] = IndentUnit * (k - 1)

\* Before the first byte of a line, and where only its indentation is behind.
Indented(i) == \A q \in LineBegin(i) .. (i - 1) : At(q) = "sp"
AtBegin(p) == p < End => p = 0 \/ At(p - 1) \in Newlines
AtFirst(p, levels) ==
  Indented(p) => /\ p - LineBegin(p) = Top(levels)
                 /\ p < End => At(p) # "sp"
Depth(toks, i) ==
  Cardinality({k \in 1 .. (i - 1) : toks[k].kind = "Indent"})
    - Cardinality({k \in 1 .. (i - 1) : toks[k].kind = "Dedent"})
NestedLines(toks) ==
  \A i \in 1 .. Len(toks) :
    IsContent(toks[i]) /\ Indented(toks[i].from)
    => toks[i].from - LineBegin(toks[i].from) = IndentUnit * Depth(toks, i)

Faithful ==
  errors = <<>> =>
    /\ Read(pos, tokens, comments)
    /\ phase = "done" => pos = End
    /\ Lines(pos, tokens, emittedContent)
    /\ atLineStart => ~emittedContent
    /\ strings # <<>> => emittedContent
    /\ NestedLines(tokens) /\ Whole(indentStack)
    /\ phase = "lexing" => IF atLineStart THEN AtBegin(pos) ELSE AtFirst(pos, indentStack)
    /\ StringsNest

LInv == IInv /\ Faithful

-----------------------------------------------------------------------------
(* Tokens and comments that follow each other                              *)

Span == [from : Nat, to : Nat]

LEMMA SpansOf ==
  ASSUME NEW S, \A x \in S : x.from \in Nat /\ x.to \in Nat, NEW s \in Seq(S)
  PROVE  /\ Len(s) \in Nat
         /\ \A i \in 1 .. Len(s) : s[i].from \in Nat /\ s[i].to \in Nat
<1>1. \A i \in 1 .. Len(s) : s[i] \in S
  BY ElementOfSeq
<1> QED BY <1>1, LenProperties

LEMMA TokensAreSpans ==
  /\ \A x \in TokenType : x.from \in Nat /\ x.to \in Nat
  /\ \A x \in Span : x.from \in Nat /\ x.to \in Nat
BY DEF TokenType, Span

LEMMA FollowOn ==
  ASSUME NEW S, \A x \in S : x.from \in Nat /\ x.to \in Nat, NEW s \in Seq(S),
         NEW p \in Nat, NEW p2 \in Nat, p <= p2, Follow(s, p)
  PROVE  Follow(s, p2)
<1>1. \A i \in 1 .. Len(s) : s[i].to \in Nat
  BY SpansOf
<1>2. \A i \in 1 .. Len(s) : s[i].to <= p2
  BY <1>1 DEF Follow
<1> QED BY <1>2 DEF Follow

LEMMA FollowAppend ==
  ASSUME NEW S, \A x \in S : x.from \in Nat /\ x.to \in Nat, NEW s \in Seq(S),
         NEW p \in Nat, NEW p2 \in Nat, Follow(s, p),
         NEW x \in S, p <= x.from, x.from <= x.to, x.to <= p2
  PROVE  /\ Len(s) \in Nat /\ Len(Append(s, x)) = Len(s) + 1
         /\ Append(s, x)[Len(s) + 1] = x
         /\ \A i \in 1 .. Len(s) : i \in 1 .. (Len(s) + 1) /\ Append(s, x)[i] = s[i]
         /\ \A i \in 1 .. (Len(s) + 1) : i \in 1 .. Len(s) \/ i = Len(s) + 1
         /\ p <= p2 /\ Follow(Append(s, x), p2)
<1> DEFINE n == Len(s)
           all == Append(s, x)
<1>1. /\ n \in Nat /\ x.from \in Nat /\ x.to \in Nat
      /\ \A i \in 1 .. n : s[i].from \in Nat /\ s[i].to \in Nat
  BY SpansOf
<1>2. /\ Len(all) = n + 1 /\ all[n + 1] = x
      /\ \A i \in 1 .. n : all[i] = s[i]
  BY AppendProperties
<1> HIDE DEF all, n
<1>3. p <= p2
  BY <1>1
<1>4. \A i \in 1 .. n : s[i].from <= s[i].to /\ s[i].to <= p
  BY DEF Follow, n
<1>5. \A i \in 1 .. n : s[i].to <= p2 /\ s[i].to <= x.from
  BY <1>1, <1>3, <1>4
<1>6. /\ \A i \in 1 .. n : i \in 1 .. (n + 1)
      /\ \A i \in 1 .. (n + 1) : i \in 1 .. n \/ i = n + 1
  BY <1>1
<1>7. \A i \in 1 .. (n + 1) : all[i].from <= all[i].to /\ all[i].to <= p2
  BY <1>2, <1>4, <1>5, <1>6
<1>8. ASSUME NEW i \in 1 .. (n + 1), NEW j \in 1 .. (n + 1), i < j
      PROVE  all[i].to <= all[j].from
  <2>1. i \in 1 .. n /\ all[i] = s[i]
    BY <1>1, <1>2, <1>8
  <2>2. CASE j \in 1 .. n
    BY <1>2, <1>8, <2>1, <2>2 DEF Follow, n
  <2>3. CASE j = n + 1
    BY <1>2, <1>5, <2>1, <2>3
  <2> QED BY <1>6, <2>2, <2>3
<1>9. Follow(all, p2)
  BY <1>2, <1>7, <1>8 DEF Follow
<1> QED BY <1>1, <1>2, <1>3, <1>6, <1>9 DEF all, n

\* What is read stays read, further on, if there are only gaps in between.
LEMMA ReadOn ==
  ASSUME NEW toks \in Seq(TokenType), NEW coms \in Seq(Span),
         NEW p \in Nat, NEW p2 \in Nat, p <= p2, Read(p, toks, coms),
         \A q \in p .. (p2 - 1) : At(q) \in Gaps
  PROVE  Read(p2, toks, coms)
<1>1. Follow(toks, p2) /\ Follow(coms, p2)
  BY FollowOn, TokensAreSpans DEF Read
<1>2. \A q \in 0 .. (p2 - 1) : q \in 0 .. (p - 1) \/ q \in p .. (p2 - 1)
  OBVIOUS
<1> QED BY <1>1, <1>2 DEF Read

\* One more token, or comment, somewhere in what is read now.
LEMMA ReadToken ==
  ASSUME NEW toks \in Seq(TokenType), NEW coms \in Seq(Span),
         NEW p \in Nat, NEW p2 \in Nat, Read(p, toks, coms),
         NEW x \in TokenType, p <= x.from, x.from <= x.to, x.to <= p2,
         \A q \in p .. (p2 - 1) : At(q) \in Gaps \/ Covers(x, q)
  PROVE  Read(p2, Append(toks, x), coms)
<1> DEFINE n == Len(toks)
           all == Append(toks, x)
<1>1. /\ n \in Nat /\ Len(all) = n + 1 /\ all[n + 1] = x
      /\ \A i \in 1 .. n : i \in 1 .. (n + 1) /\ all[i] = toks[i]
      /\ \A i \in 1 .. (n + 1) : i \in 1 .. n \/ i = n + 1
      /\ p <= p2 /\ Follow(all, p2)
  BY FollowAppend, TokensAreSpans DEF Read
<1>2. Follow(coms, p2)
  BY <1>1, FollowOn, TokensAreSpans DEF Read
<1>3. \A j \in 1 .. Len(coms) : coms[j].to \in Nat /\ coms[j].to <= p /\ x.from \in Nat
  BY SpansOf, TokensAreSpans DEF Read, Follow
<1> HIDE DEF all, n
<1>4. \A j \in 1 .. Len(coms) : coms[j].to <= x.from
  BY <1>3
<1>5. \A i \in 1 .. (n + 1), j \in 1 .. Len(coms) :
        all[i].to <= coms[j].from \/ coms[j].to <= all[i].from
  BY <1>1, <1>4 DEF Read, n
<1>6. ASSUME NEW q \in 0 .. (p2 - 1)
      PROVE  \/ At(q) \in Gaps
             \/ \E i \in 1 .. (n + 1) : Covers(all[i], q)
             \/ \E j \in 1 .. Len(coms) : Covers(coms[j], q)
  <2>1. CASE q \in 0 .. (p - 1)
    BY <1>1, <2>1 DEF Read, n
  <2>2. CASE q \in p .. (p2 - 1)
    <3>1. n + 1 \in 1 .. (n + 1)
      BY <1>1
    <3> QED BY <1>1, <2>2, <3>1
  <2> QED BY <2>1, <2>2
<1> QED BY <1>1, <1>2, <1>5, <1>6 DEF Read, all, n

LEMMA ReadComment ==
  ASSUME NEW toks \in Seq(TokenType), NEW coms \in Seq(Span),
         NEW p \in Nat, NEW p2 \in Nat, Read(p, toks, coms),
         NEW x \in Span, p <= x.from, x.from <= x.to, x.to <= p2,
         \A q \in p .. (p2 - 1) : At(q) \in Gaps \/ Covers(x, q)
  PROVE  Read(p2, toks, Append(coms, x))
<1> DEFINE n == Len(coms)
           all == Append(coms, x)
<1>1. /\ n \in Nat /\ Len(all) = n + 1 /\ all[n + 1] = x
      /\ \A i \in 1 .. n : i \in 1 .. (n + 1) /\ all[i] = coms[i]
      /\ \A i \in 1 .. (n + 1) : i \in 1 .. n \/ i = n + 1
      /\ p <= p2 /\ Follow(all, p2)
  BY FollowAppend, TokensAreSpans, SMTT(30) DEF Read
<1>2. Follow(toks, p2)
  BY <1>1, FollowOn, TokensAreSpans DEF Read
<1>3. \A j \in 1 .. Len(toks) : toks[j].to \in Nat /\ toks[j].to <= p /\ x.from \in Nat
  BY SpansOf, TokensAreSpans DEF Read, Follow
<1> HIDE DEF all, n
<1>4. \A j \in 1 .. Len(toks) : toks[j].to <= x.from
  BY <1>3
<1>5. \A i \in 1 .. Len(toks), j \in 1 .. (n + 1) :
        toks[i].to <= all[j].from \/ all[j].to <= toks[i].from
  BY <1>1, <1>4 DEF Read, n
<1>6. ASSUME NEW q \in 0 .. (p2 - 1)
      PROVE  \/ At(q) \in Gaps
             \/ \E i \in 1 .. Len(toks) : Covers(toks[i], q)
             \/ \E j \in 1 .. (n + 1) : Covers(all[j], q)
  <2>1. CASE q \in 0 .. (p - 1)
    BY <1>1, <2>1 DEF Read, n
  <2>2. CASE q \in p .. (p2 - 1)
    <3>1. n + 1 \in 1 .. (n + 1)
      BY <1>1
    <3> QED BY <1>1, <2>2, <3>1
  <2> QED BY <2>1, <2>2
<1> QED BY <1>1, <1>2, <1>5, <1>6 DEF Read, all, n

\* Tokens without bytes, all at one place among gaps.
LEMMA ReadMarks ==
  ASSUME NEW toks \in Seq(TokenType), NEW coms \in Seq(Span),
         NEW p \in Nat, NEW p2 \in Nat, Read(p, toks, coms),
         NEW at \in Nat, p <= at, at <= p2, NEW ts \in Seq(TokenType),
         \A i \in 1 .. Len(ts) : ts[i].from = at /\ ts[i].to = at,
         \A q \in p .. (p2 - 1) : At(q) \in Gaps
  PROVE  Read(p2, toks \o ts, coms)
<1> DEFINE n == Len(toks)
           m == Len(ts)
           all == toks \o ts
<1>1. /\ n \in Nat /\ m \in Nat /\ p <= p2
      /\ \A i \in 1 .. n : toks[i].from \in Nat /\ toks[i].to \in Nat
  BY SpansOf, TokensAreSpans, LenProperties
<1>2. /\ Len(all) = n + m
      /\ \A i \in 1 .. n : all[i] = toks[i]
      /\ \A i \in (n + 1) .. (n + m) : i - n \in 1 .. m /\ all[i] = ts[i - n]
  BY <1>1, ConcatProperties
<1>3. \A i \in (n + 1) .. (n + m) : all[i].from = at /\ all[i].to = at
  BY <1>2
<1> HIDE DEF all, n, m
<1>4. \A i \in 1 .. (n + m) : i \in 1 .. n \/ i \in (n + 1) .. (n + m)
  BY <1>1
<1>5. \A i \in 1 .. n : toks[i].from <= toks[i].to /\ toks[i].to <= p
  BY DEF Read, Follow, n
<1>6. \A i \in 1 .. n : toks[i].to <= p2 /\ toks[i].to <= at
  BY <1>1, <1>5
<1>7. \A i \in 1 .. (n + m) : all[i].from <= all[i].to /\ all[i].to <= p2
  <2> SUFFICES ASSUME NEW i \in 1 .. (n + m) PROVE all[i].from <= all[i].to /\ all[i].to <= p2
    OBVIOUS
  <2>1. CASE i \in 1 .. n
    BY <1>2, <1>5, <1>6, <2>1
  <2>2. CASE i \in (n + 1) .. (n + m)
    <3>1. all[i].from = at /\ all[i].to = at
      BY <1>3, <2>2
    <3> QED BY <3>1
  <2> QED BY <1>4, <2>1, <2>2
<1>8. ASSUME NEW i \in 1 .. (n + m), NEW j \in 1 .. (n + m), i < j
      PROVE  all[i].to <= all[j].from
  <2>1. CASE j \in 1 .. n
    <3>1. i \in 1 .. n
      BY <1>1, <1>8, <2>1
    <3> QED BY <1>2, <1>8, <2>1, <3>1 DEF Read, Follow, n
  <2>2. CASE i \in 1 .. n /\ j \in (n + 1) .. (n + m)
    BY <1>2, <1>3, <1>6, <2>2
  <2>3. CASE i \in (n + 1) .. (n + m) /\ j \in (n + 1) .. (n + m)
    <3>1. all[i].to = at /\ all[j].from = at
      BY <1>3, <2>3
    <3> QED BY <3>1
  <2>4. CASE i \in (n + 1) .. (n + m) /\ j \in 1 .. n
    BY <1>1, <1>8, <2>4
  <2> QED BY <1>4, <2>1, <2>2, <2>3, <2>4
<1>9. \A j \in 1 .. Len(coms) : coms[j].to \in Nat /\ coms[j].to <= p
  BY SpansOf, TokensAreSpans DEF Read, Follow
<1>10. \A j \in 1 .. Len(coms) : coms[j].to <= at
  BY <1>9
<1>11. ASSUME NEW i \in 1 .. (n + m), NEW j \in 1 .. Len(coms)
       PROVE  all[i].to <= coms[j].from \/ coms[j].to <= all[i].from
  <2>1. CASE i \in 1 .. n
    BY <1>2, <2>1 DEF Read, n
  <2>2. CASE i \in (n + 1) .. (n + m)
    BY <1>3, <1>10, <2>2
  <2> QED BY <1>4, <2>1, <2>2
<1>12. ASSUME NEW q \in 0 .. (p2 - 1)
       PROVE  \/ At(q) \in Gaps
              \/ \E i \in 1 .. (n + m) : Covers(all[i], q)
              \/ \E j \in 1 .. Len(coms) : Covers(coms[j], q)
  <2>1. CASE q \in 0 .. (p - 1)
    <3>1. \A i \in 1 .. n : i \in 1 .. (n + m) /\ all[i] = toks[i]
      BY <1>1, <1>2
    <3> QED BY <2>1, <3>1 DEF Read, n
  <2>2. CASE q \in p .. (p2 - 1)
    BY <2>2
  <2> QED BY <2>1, <2>2
<1>13. Follow(all, p2) /\ Follow(coms, p2)
  BY <1>1, <1>2, <1>7, <1>8, FollowOn, TokensAreSpans DEF Follow, Read
<1> QED BY <1>2, <1>11, <1>12, <1>13 DEF Read, all, n, m

-----------------------------------------------------------------------------
(* Content tokens and the newlines between them                            *)

LEMMA AppendedTo ==
  ASSUME NEW S, NEW s \in Seq(S), NEW t \in Seq(S)
  PROVE  LET n == Len(s)
             m == Len(t)
             all == s \o t
         IN /\ n \in Nat /\ m \in Nat /\ Len(all) = n + m
            /\ \A i \in 1 .. n : i \in 1 .. (n + m) /\ all[i] = s[i]
            /\ \A i \in (n + 1) .. (n + m) : i - n \in 1 .. m /\ all[i] = t[i - n]
            /\ \A i \in 1 .. (n + m) : i \in 1 .. n \/ i \in (n + 1) .. (n + m)
<1>1. Len(s) \in Nat /\ Len(t) \in Nat
  BY LenProperties
<1> QED BY <1>1, ConcatProperties

\* A newline that is in no token of the longer stream is in none of the shorter.
LEMMA NewlinedBefore ==
  ASSUME NEW toks, NEW all, NEW from, NEW to, Len(toks) \in Nat, Len(all) \in Nat,
         \A i \in 1 .. Len(toks) : i \in 1 .. Len(all) /\ all[i] = toks[i],
         Newlined(all, from, to)
  PROVE  Newlined(toks, from, to)
BY DEF Newlined

LEMMA EndedLater ==
  ASSUME NEW s, NEW i \in Nat, NEW j \in Nat, NEW k \in Nat, j <= k, Ended(s, i, j)
  PROVE  Ended(s, i, k)
BY DEF Ended

\* Layout is added to the tokens: newlines are passed only by lines without
\* content.
LEMMA LinesLayout ==
  ASSUME NEW toks \in Seq(TokenType), NEW ts \in Seq(TokenType),
         \A i \in 1 .. Len(ts) : ts[i].kind \in Layout,
         NEW p \in Nat, NEW p2 \in Nat, NEW emitted \in BOOLEAN,
         ~emitted \/ \A q \in p .. (p2 - 1) : At(q) \notin Newlines,
         Lines(p, toks, emitted)
  PROVE  Lines(p2, toks \o ts, emitted)
<1> DEFINE n == Len(toks)
           m == Len(ts)
           all == toks \o ts
<1>1. /\ n \in Nat /\ m \in Nat /\ Len(all) = n + m
      /\ \A i \in 1 .. n : i \in 1 .. (n + m) /\ all[i] = toks[i]
      /\ \A i \in (n + 1) .. (n + m) : i - n \in 1 .. m /\ all[i] = ts[i - n]
      /\ \A i \in 1 .. (n + m) : i \in 1 .. n \/ i \in (n + 1) .. (n + m)
  BY AppendedTo
<1>2. \A i \in 1 .. (n + m) : IsContent(all[i]) => i \in 1 .. n /\ IsContent(toks[i])
  BY <1>1 DEF IsContent
<1>3. \A i \in 1 .. n : toks[i].to \in Nat
  BY SpansOf, TokensAreSpans
<1> HIDE DEF all, n, m
<1>4. \A from, to : Newlined(all, from, to) => Newlined(toks, from, to)
  <2>1. Len(toks) \in Nat /\ Len(all) \in Nat
        /\ \A i \in 1 .. Len(toks) : i \in 1 .. Len(all) /\ all[i] = toks[i]
    BY <1>1 DEF n
  <2> QED BY <2>1, NewlinedBefore
<1>5. \A i \in 1 .. n, j \in 1 .. (n + 1) : Ended(toks, i, j) => Ended(all, i, j)
  <2> SUFFICES ASSUME NEW i \in 1 .. n, NEW j \in 1 .. (n + 1), Ended(toks, i, j)
               PROVE  Ended(all, i, j)
    OBVIOUS
  <2>1. PICK k \in (i + 1) .. (j - 1) : toks[k].kind = "Newline"
    BY DEF Ended
  <2>2. k \in 1 .. n
    BY <1>1, <2>1
  <2>3. all[k].kind = "Newline"
    BY <1>1, <2>1, <2>2
  <2> QED BY <2>1, <2>3 DEF Ended
<1>6. ASSUME NEW i \in 1 .. n, Ended(all, i, n + 1) PROVE Ended(all, i, n + m + 1)
  BY <1>1, <1>6, EndedLater
<1>7. ASSUME NEW i \in 1 .. (n + m), NEW j \in 1 .. (n + m), i < j,
             IsContent(all[i]), IsContent(all[j]), Newlined(all, all[i].to, all[j].from)
      PROVE  Ended(all, i, j)
  <2>1. i \in 1 .. n /\ j \in 1 .. n /\ IsContent(toks[i]) /\ IsContent(toks[j])
    BY <1>2, <1>7
  <2>2. Newlined(toks, toks[i].to, toks[j].from) /\ j \in 1 .. (n + 1)
    BY <1>1, <1>4, <1>7, <2>1
  <2>3. Ended(toks, i, j)
    BY <1>7, <2>1, <2>2 DEF Lines, n
  <2> QED BY <1>5, <2>1, <2>2, <2>3
<1>8. ASSUME NEW i \in 1 .. (n + m), IsContent(all[i]),
             ~emitted \/ Newlined(all, all[i].to, p2)
      PROVE  Ended(all, i, n + m + 1)
  <2>1. i \in 1 .. n /\ IsContent(toks[i])
    BY <1>2, <1>8
  <2>2. ~emitted \/ Newlined(toks, toks[i].to, p)
    <3> SUFFICES ASSUME emitted PROVE Newlined(toks, toks[i].to, p)
      OBVIOUS
    <3>1. Newlined(toks, toks[i].to, p2) /\ toks[i].to \in Nat
      BY <1>1, <1>3, <1>4, <1>8, <2>1
    <3>2. PICK q \in toks[i].to .. (p2 - 1) :
            /\ At(q) \in Newlines
            /\ \A k \in 1 .. Len(toks) : IsContent(toks[k]) => ~Covers(toks[k], q)
      BY <3>1 DEF Newlined
    <3>3. q \notin p .. (p2 - 1)
      BY <3>2
    <3>4. q \in toks[i].to .. (p - 1)
      BY <3>1, <3>2, <3>3
    <3> QED BY <3>2, <3>4 DEF Newlined
  <2>3. Ended(toks, i, n + 1)
    BY <2>1, <2>2 DEF Lines, n
  <2>4. n + 1 \in 1 .. (n + 1)
    BY <1>1
  <2> QED BY <1>5, <1>6, <2>1, <2>3, <2>4
<1>9. Len(all) = n + m
  BY <1>1
<1>10. Lines(p2, all, emitted)
  BY <1>7, <1>8, <1>9 DEF Lines
<1> QED BY <1>10 DEF all

\* The Newline token of a line.
LEMMA LinesNewline ==
  ASSUME NEW toks \in Seq(TokenType), NEW x \in TokenType, x.kind = "Newline",
         NEW p, NEW p2, NEW emitted, Lines(p, toks, emitted)
  PROVE  Lines(p2, Append(toks, x), FALSE)
<1> DEFINE n == Len(toks)
           all == Append(toks, x)
<1>1. /\ n \in Nat /\ Len(all) = n + 1 /\ all[n + 1] = x
      /\ \A i \in 1 .. n : i \in 1 .. (n + 1) /\ all[i] = toks[i]
      /\ \A i \in 1 .. (n + 1) : i \in 1 .. n \/ i = n + 1
  BY AppendProperties, LenProperties
<1>2. \A i \in 1 .. (n + 1) : IsContent(all[i]) => i \in 1 .. n /\ IsContent(toks[i])
  BY <1>1 DEF IsContent, Layout
<1> HIDE DEF all, n
<1>3. \A from, to : Newlined(all, from, to) => Newlined(toks, from, to)
  <2>1. Len(toks) \in Nat /\ Len(all) \in Nat
        /\ \A i \in 1 .. Len(toks) : i \in 1 .. Len(all) /\ all[i] = toks[i]
    BY <1>1 DEF n
  <2> QED BY <2>1, NewlinedBefore
<1>4. ASSUME NEW i \in 1 .. (n + 1), NEW j \in 1 .. (n + 1), i < j,
             IsContent(all[i]), IsContent(all[j]), Newlined(all, all[i].to, all[j].from)
      PROVE  Ended(all, i, j)
  <2>1. i \in 1 .. n /\ j \in 1 .. n /\ IsContent(toks[i]) /\ IsContent(toks[j])
    BY <1>2, <1>4
  <2>2. Newlined(toks, toks[i].to, toks[j].from)
    BY <1>1, <1>3, <1>4, <2>1
  <2>3. Ended(toks, i, j)
    BY <1>4, <2>1, <2>2 DEF Lines, n
  <2>4. PICK k \in (i + 1) .. (j - 1) : toks[k].kind = "Newline"
    BY <2>3 DEF Ended
  <2>5. k \in 1 .. n
    BY <1>1, <2>1, <2>4
  <2> QED BY <1>1, <2>4, <2>5 DEF Ended
<1>5. ASSUME NEW i \in 1 .. (n + 1), IsContent(all[i])
      PROVE  Ended(all, i, n + 1 + 1)
  <2>1. i \in 1 .. n
    BY <1>2, <1>5
  <2>2. n + 1 \in (i + 1) .. (n + 1 + 1 - 1)
    BY <1>1, <2>1
  <2> QED BY <1>1, <2>2 DEF Ended
<1>6. Len(all) = n + 1
  BY <1>1
<1>7. Lines(p2, all, FALSE)
  BY <1>4, <1>5, <1>6 DEF Lines
<1> QED BY <1>7 DEF all

\* A content token, beside which no newline is passed.
LEMMA LinesContent ==
  ASSUME NEW toks \in Seq(TokenType), NEW x \in TokenType, IsContent(x),
         NEW p \in Nat, NEW p2 \in Nat, NEW emitted,
         p <= x.from, x.from <= x.to, x.to <= p2,
         \A q \in p .. (p2 - 1) : At(q) \notin Newlines \/ Covers(x, q),
         Lines(p, toks, emitted)
  PROVE  Lines(p2, Append(toks, x), TRUE)
<1> DEFINE n == Len(toks)
           all == Append(toks, x)
<1>1. /\ n \in Nat /\ Len(all) = n + 1 /\ all[n + 1] = x
      /\ \A i \in 1 .. n : i \in 1 .. (n + 1) /\ all[i] = toks[i]
      /\ \A i \in 1 .. (n + 1) : i \in 1 .. n \/ i = n + 1
      /\ x.from \in Nat /\ x.to \in Nat
  BY AppendProperties, LenProperties, TokensAreSpans
<1>2. \A i \in 1 .. n : toks[i].to \in Nat
  BY SpansOf, TokensAreSpans
<1> HIDE DEF all, n
<1>3. \A from, to : Newlined(all, from, to) => Newlined(toks, from, to)
  <2>1. Len(toks) \in Nat /\ Len(all) \in Nat
        /\ \A i \in 1 .. Len(toks) : i \in 1 .. Len(all) /\ all[i] = toks[i]
    BY <1>1 DEF n
  <2> QED BY <2>1, NewlinedBefore
<1>4. ASSUME NEW i \in 1 .. n, NEW to \in Nat, to <= p2, Newlined(all, toks[i].to, to)
      PROVE  Newlined(toks, toks[i].to, p)
  <2>1. PICK q \in toks[i].to .. (to - 1) :
          /\ At(q) \in Newlines
          /\ \A k \in 1 .. Len(all) : IsContent(all[k]) => ~Covers(all[k], q)
    BY <1>4 DEF Newlined
  <2>2. toks[i].to \in Nat /\ q \in Nat /\ q < p2
    BY <1>2, <1>4, <2>1
  <2>3. ~Covers(x, q)
    BY <1>1, <2>1
  <2>4. q < p
    BY <2>1, <2>2, <2>3
  <2>5. q \in toks[i].to .. (p - 1)
    BY <2>1, <2>2, <2>4
  <2>6. \A k \in 1 .. Len(toks) : IsContent(toks[k]) => ~Covers(toks[k], q)
    BY <1>1, <2>1 DEF n
  <2> QED BY <2>1, <2>5, <2>6 DEF Newlined
<1>5. \A i \in 1 .. n, j \in 1 .. (n + 1) : Ended(toks, i, j) => Ended(all, i, j)
  <2> SUFFICES ASSUME NEW i \in 1 .. n, NEW j \in 1 .. (n + 1), Ended(toks, i, j)
               PROVE  Ended(all, i, j)
    OBVIOUS
  <2>1. PICK k \in (i + 1) .. (j - 1) : toks[k].kind = "Newline"
    BY DEF Ended
  <2>2. k \in 1 .. n
    BY <1>1, <2>1
  <2> QED BY <1>1, <2>1, <2>2 DEF Ended
<1>6. ASSUME NEW i \in 1 .. n, Ended(all, i, n + 1) PROVE Ended(all, i, n + 1 + 1)
  BY <1>1, <1>6, EndedLater
<1>7. n + 1 \in 1 .. (n + 1)
  BY <1>1
<1>8. ASSUME NEW i \in 1 .. (n + 1), NEW j \in 1 .. (n + 1), i < j,
             IsContent(all[i]), IsContent(all[j]), Newlined(all, all[i].to, all[j].from)
      PROVE  Ended(all, i, j)
  <2>1. i \in 1 .. n /\ all[i] = toks[i] /\ IsContent(toks[i])
    BY <1>1, <1>8
  <2>2. CASE j = n + 1
    <3>1. x.from \in Nat /\ x.from <= p2
      BY <1>1
    <3>2. Newlined(toks, toks[i].to, p)
      BY <1>1, <1>4, <1>8, <2>1, <2>2, <3>1
    <3>3. Ended(toks, i, n + 1)
      BY <2>1, <3>2 DEF Lines, n
    <3> QED BY <1>5, <1>7, <2>1, <2>2, <3>3
  <2>3. CASE j \in 1 .. n
    <3>1. IsContent(toks[j]) /\ Newlined(toks, toks[i].to, toks[j].from)
      BY <1>1, <1>3, <1>8, <2>1, <2>3
    <3>2. Ended(toks, i, j)
      BY <1>8, <2>1, <2>3, <3>1 DEF Lines, n
    <3> QED BY <1>5, <2>1, <3>2
  <2> QED BY <1>1, <2>2, <2>3
<1>9. ASSUME NEW i \in 1 .. (n + 1), IsContent(all[i]), Newlined(all, all[i].to, p2)
      PROVE  Ended(all, i, n + 1 + 1)
  <2>1. i # n + 1
    <3> SUFFICES ASSUME i = n + 1 PROVE FALSE
      OBVIOUS
    <3>1. PICK q \in x.to .. (p2 - 1) :
            /\ At(q) \in Newlines
            /\ \A k \in 1 .. Len(all) : IsContent(all[k]) => ~Covers(all[k], q)
      BY <1>1, <1>9 DEF Newlined
    <3>2. ~Covers(x, q) /\ q \in p .. (p2 - 1)
      BY <1>1, <3>1
    <3> QED BY <3>1, <3>2
  <2>2. i \in 1 .. n /\ all[i] = toks[i] /\ IsContent(toks[i])
    BY <1>1, <1>9, <2>1
  <2>3. Newlined(toks, toks[i].to, p)
    BY <1>4, <1>9, <2>2
  <2>4. Ended(toks, i, n + 1)
    BY <2>2, <2>3 DEF Lines, n
  <2> QED BY <1>5, <1>6, <1>7, <2>2, <2>4
<1>10. Len(all) = n + 1
  BY <1>1
<1>11. Lines(p2, all, TRUE)
  BY <1>8, <1>9, <1>10 DEF Lines
<1> QED BY <1>11 DEF all

-----------------------------------------------------------------------------
(* Where a line begins, and how deep it is nested                          *)

\* Behind a byte that is no space, and no newline since, a line is under way.
LEMMA NotIndented ==
  ASSUME NEW p \in Nat, NEW q \in 0 .. (p - 1), At(q) # "sp",
         \A k \in q .. (p - 1) : At(k) \notin Newlines
  PROVE  ~Indented(p)
<1> DEFINE b == LineBegin(p)
<1>1. b \in 0 .. p /\ (b = 0 \/ At(b - 1) \in Newlines)
  BY LineBeginScan DEF BeginsLine
<1> HIDE DEF b
<1>2. ~(b > q)
  <2> SUFFICES ASSUME b > q PROVE FALSE
    OBVIOUS
  <2>1. b # 0 /\ b - 1 \in q .. (p - 1)
    BY <1>1
  <2> QED BY <1>1, <2>1
<1>3. q \in b .. (p - 1)
  BY <1>1, <1>2
<1> QED BY <1>3 DEF Indented, b

LEMMA StillNotIndented ==
  ASSUME NEW p \in Nat, NEW p2 \in Nat, p <= p2, ~Indented(p),
         \A k \in p .. (p2 - 1) : At(k) \notin Newlines
  PROVE  ~Indented(p2)
<1> DEFINE b == LineBegin(p)
<1>1. b \in 0 .. p /\ \A k \in b .. (p - 1) : At(k) \notin Newlines
  BY LineBeginScan DEF BeginsLine
<1>2. PICK q \in b .. (p - 1) : At(q) # "sp"
  BY DEF Indented
<1> HIDE DEF b
<1>3. q \in 0 .. (p2 - 1)
  BY <1>1
<1>4. ASSUME NEW k \in q .. (p2 - 1) PROVE At(k) \notin Newlines
  <2>1. k \in b .. (p - 1) \/ k \in p .. (p2 - 1)
    BY <1>1
  <2> QED BY <1>1, <2>1
<1> QED BY <1>2, <1>3, <1>4, NotIndented

\* Appended tokens change no depth before them.
LEMMA DepthKept ==
  ASSUME NEW toks \in Seq(TokenType), NEW ts \in Seq(TokenType)
  PROVE  /\ \A i \in 1 .. (Len(toks) + 1) : Depth(toks \o ts, i) = Depth(toks, i)
         /\ Depth(toks, Len(toks) + 1) = CountIn(toks, "Indent") - CountIn(toks, "Dedent")
<1> DEFINE n == Len(toks)
           all == toks \o ts
<1>1. n \in Nat /\ \A i \in 1 .. n : all[i] = toks[i]
  BY AppendedTo
<1> HIDE DEF n, all
<1>2. ASSUME NEW i \in 1 .. (n + 1) PROVE Depth(all, i) = Depth(toks, i)
  <2>1. \A kind : {k \in 1 .. (i - 1) : all[k].kind = kind}
                    = {k \in 1 .. (i - 1) : toks[k].kind = kind}
    <3>1. \A k \in 1 .. (i - 1) : all[k] = toks[k]
      BY <1>1
    <3> QED BY <3>1
  <2> QED BY <2>1 DEF Depth
<1>3. \A kind : {k \in 1 .. ((n + 1) - 1) : toks[k].kind = kind}
                 = {k \in 1 .. Len(toks) : toks[k].kind = kind}
  BY <1>1 DEF n
<1>4. \A kind : Cardinality({k \in 1 .. ((n + 1) - 1) : toks[k].kind = kind}) = CountIn(toks, kind)
  <2> SUFFICES ASSUME NEW kind
               PROVE  Cardinality({k \in 1 .. ((n + 1) - 1) : toks[k].kind = kind}) = CountIn(toks, kind)
    OBVIOUS
  <2> QED BY <1>3, Zenon DEF CountIn
<1>5. Depth(toks, n + 1) = CountIn(toks, "Indent") - CountIn(toks, "Dedent")
  <2>1. /\ Cardinality({k \in 1 .. ((n + 1) - 1) : toks[k].kind = "Indent"}) = CountIn(toks, "Indent")
        /\ Cardinality({k \in 1 .. ((n + 1) - 1) : toks[k].kind = "Dedent"}) = CountIn(toks, "Dedent")
    BY <1>4, Zenon
  <2> QED BY <2>1, Zenon DEF Depth
<1> QED BY <1>2, <1>5 DEF n, all

LEMMA NestedLayout ==
  ASSUME NEW toks \in Seq(TokenType), NEW ts \in Seq(TokenType),
         \A i \in 1 .. Len(ts) : ts[i].kind \in Layout, NestedLines(toks)
  PROVE  NestedLines(toks \o ts)
<1> DEFINE n == Len(toks)
           m == Len(ts)
           all == toks \o ts
<1>1. /\ n \in Nat /\ m \in Nat /\ Len(all) = n + m
      /\ \A i \in 1 .. n : i \in 1 .. (n + m) /\ all[i] = toks[i]
      /\ \A i \in (n + 1) .. (n + m) : i - n \in 1 .. m /\ all[i] = ts[i - n]
      /\ \A i \in 1 .. (n + m) : i \in 1 .. n \/ i \in (n + 1) .. (n + m)
  BY AppendedTo
<1>2. \A i \in 1 .. (n + m) : IsContent(all[i]) => i \in 1 .. n /\ IsContent(toks[i])
  BY <1>1 DEF IsContent
<1>3. \A i \in 1 .. n : i \in 1 .. (n + 1)
  BY <1>1
<1>4. \A i \in 1 .. n : Depth(all, i) = Depth(toks, i)
  BY <1>3, DepthKept
<1> HIDE DEF n, m, all
<1>5. ASSUME NEW i \in 1 .. Len(all), IsContent(all[i]), Indented(all[i].from)
      PROVE  all[i].from - LineBegin(all[i].from) = IndentUnit * Depth(all, i)
  <2>1. i \in 1 .. n /\ IsContent(toks[i]) /\ all[i] = toks[i]
    BY <1>1, <1>2, <1>5
  <2>2. Depth(all, i) = Depth(toks, i) /\ i \in 1 .. Len(toks)
    BY <1>4, <2>1 DEF n
  <2> QED BY <1>5, <2>1, <2>2 DEF NestedLines
<1> QED BY <1>5 DEF NestedLines, all

\* The outermost levels of a stack of whole levels, and one more level.
LEMMA WholeTop ==
  ASSUME NEW levels \in Seq(Nat), levels # <<>>, Whole(levels)
  PROVE  Top(levels) = IndentUnit * (Len(levels) - 1)
<1>1. Len(levels) \in Nat \ {0}
  BY EmptySeq
<1>2. Len(levels) \in 1 .. Len(levels)
  BY <1>1
<1> QED BY <1>2 DEF Whole, Top

LEMMA WholePush ==
  ASSUME NEW levels \in Seq(Nat), levels # <<>>, Whole(levels)
  PROVE  Whole(Append(levels, Top(levels) + IndentUnit))
<1> DEFINE n == Len(levels)
           all == Append(levels, Top(levels) + IndentUnit)
<1>1. IndentUnit \in Nat
  BY IndentUnitAssumption
<1>2. n \in Nat \ {0}
  BY EmptySeq
<1>3. Top(levels) = IndentUnit * (n - 1)
  BY WholeTop
<1>4. Top(levels) \in Nat
  <2>1. n \in 1 .. n
    BY <1>2
  <2>2. levels[n] \in Nat
    BY <2>1
  <2> QED BY <2>2 DEF Top
<1>5. /\ Len(all) = n + 1 /\ all[n + 1] = Top(levels) + IndentUnit
      /\ \A i \in 1 .. n : all[i] = levels[i]
  BY <1>1, <1>4, AppendProperties
<1> HIDE DEF n, all
<1>6. ASSUME NEW k \in 1 .. (n + 1) PROVE all[k] = IndentUnit * (k - 1)
  <2>1. CASE k \in 1 .. n
    BY <1>5, <2>1 DEF Whole, n
  <2>2. CASE k = n + 1
    <3>1. IndentUnit * (n - 1) + IndentUnit = IndentUnit * (k - 1)
      BY <1>1, <1>2, <2>2
    <3> QED BY <1>3, <1>5, <2>2, <3>1
  <2> QED BY <1>2, <2>1, <2>2
<1> QED BY <1>5, <1>6 DEF Whole, all

LEMMA WholeKeep ==
  ASSUME NEW levels \in Seq(Nat), Whole(levels), NEW n \in 1 .. Len(levels)
  PROVE  Whole(SubSeq(levels, 1, n))
<1>1. Len(levels) \in Nat
  BY LenProperties
<1>2. /\ Len(SubSeq(levels, 1, n)) = n
      /\ \A i \in 1 .. n : SubSeq(levels, 1, n)[i] = levels[i]
  BY <1>1, SubSeqProperties
<1> QED BY <1>1, <1>2 DEF Whole

\* A content token stands at the depth of the levels open in the stream.
LEMMA NestedContent ==
  ASSUME NEW toks \in Seq(TokenType), NEW x \in TokenType, NEW levels \in Seq(Nat),
         levels # <<>>, Whole(levels), Balanced(toks, levels), NestedLines(toks),
         Indented(x.from) => x.from - LineBegin(x.from) = Top(levels)
  PROVE  NestedLines(Append(toks, x))
<1> DEFINE n == Len(toks)
           all == Append(toks, x)
<1>1. /\ n \in Nat /\ Len(all) = n + 1 /\ all[n + 1] = x
      /\ \A i \in 1 .. n : i \in 1 .. (n + 1) /\ all[i] = toks[i]
      /\ \A i \in 1 .. (n + 1) : i \in 1 .. n \/ i = n + 1
  BY AppendProperties, LenProperties
<1>2. all = toks \o <<x>> /\ <<x>> \in Seq(TokenType)
  BY AppendIsConcat, CountOfOne
<1>3. /\ \A i \in 1 .. (n + 1) : Depth(all, i) = Depth(toks, i)
      /\ Depth(toks, n + 1) = CountIn(toks, "Indent") - CountIn(toks, "Dedent")
  BY <1>2, DepthKept, ZenonT(30)
<1>4. Top(levels) = IndentUnit * Depth(toks, n + 1)
  BY <1>3, WholeTop DEF Balanced
<1> HIDE DEF n, all
<1>5. ASSUME NEW i \in 1 .. Len(all), IsContent(all[i]), Indented(all[i].from)
      PROVE  all[i].from - LineBegin(all[i].from) = IndentUnit * Depth(all, i)
  <2>1. CASE i = n + 1
    <3>1. Depth(all, i) = Depth(toks, n + 1) /\ all[i] = x
      BY <1>1, <1>3, <1>5, <2>1
    <3> QED BY <1>4, <1>5, <3>1
  <2>2. CASE i \in 1 .. n
    <3>1. all[i] = toks[i] /\ Depth(all, i) = Depth(toks, i) /\ i \in 1 .. Len(toks)
      BY <1>1, <1>3, <2>2 DEF n
    <3> QED BY <1>5, <3>1 DEF NestedLines
  <2> QED BY <1>1, <1>5, <2>1, <2>2
<1> QED BY <1>5 DEF NestedLines, all

-----------------------------------------------------------------------------
(* Sources without errors: the steps                                       *)

\* The invariant after a step, said of the source before it.
LEMMA FaithfulAfter ==
  ASSUME source' = source,
         errors' = <<>> =>
           /\ Read(pos', tokens', comments')
           /\ phase' = "done" => pos' = End
           /\ Lines(pos', tokens', emittedContent')
           /\ atLineStart' => ~emittedContent'
           /\ strings' # <<>> => emittedContent'
           /\ NestedLines(tokens') /\ Whole(indentStack')
           /\ phase' = "lexing" => IF atLineStart' THEN AtBegin(pos')
                                   ELSE AtFirst(pos', indentStack')
           /\ CountIn(tokens', "StringStart") - CountIn(tokens', "StringEnd") = Len(strings')
  PROVE  Faithful'
<1> SUFFICES ASSUME errors' = <<>>
             PROVE  /\ Read(pos, tokens, comments)'
                    /\ (phase = "done" => pos = End)'
                    /\ Lines(pos, tokens, emittedContent)'
                    /\ atLineStart' => ~emittedContent'
                    /\ strings' # <<>> => emittedContent'
                    /\ NestedLines(tokens)' /\ Whole(indentStack)'
                    /\ (phase = "lexing" => IF atLineStart THEN AtBegin(pos)
                                            ELSE AtFirst(pos, indentStack))'
                    /\ StringsNest'
  BY DEF Faithful
<1>1. Read(pos, tokens, comments)'
  BY DEF Read, Follow, Covers, At
<1>2. (phase = "done" => pos = End)'
  BY DEF End
<1>3. Lines(pos, tokens, emittedContent)'
  BY Zenon DEF Lines, Newlined, Ended, At, Covers
<1>4. NestedLines(tokens)'
  BY Zenon DEF NestedLines, Indented, LineBegin, At, Depth
<1>5. Whole(indentStack)'
  BY DEF Whole
<1>6. AtBegin(pos)' <=> AtBegin(pos')
  BY DEF AtBegin, End, At
<1>7. AtFirst(pos, indentStack)' <=> AtFirst(pos', indentStack')
  BY Zenon DEF AtFirst, Indented, LineBegin, At, End, Top
<1>8. StringsNest'
  BY Zenon DEF StringsNest, Count, CountIn
<1> QED BY <1>1, <1>2, <1>3, <1>4, <1>5, <1>6, <1>7, <1>8

\* What the invariant says while there are no errors.
LEMMA FaithfulNow ==
  ASSUME LInv, errors = <<>>
  PROVE  /\ source \in Seq(Byte) /\ End \in Nat /\ pos \in 0 .. End /\ pos \in Nat
         /\ tokens \in Seq(TokenType) /\ comments \in Seq(Span)
         /\ indentStack \in Seq(Nat) /\ indentStack # <<>> /\ emittedContent \in BOOLEAN
         /\ Balanced(tokens, indentStack) /\ Increasing(indentStack)
         /\ Read(pos, tokens, comments)
         /\ Lines(pos, tokens, emittedContent)
         /\ atLineStart => ~emittedContent
         /\ strings # <<>> => emittedContent
         /\ NestedLines(tokens) /\ Whole(indentStack)
         /\ phase = "lexing" => IF atLineStart THEN AtBegin(pos) ELSE AtFirst(pos, indentStack)
         /\ CountIn(tokens, "StringStart") - CountIn(tokens, "StringEnd") = Len(strings)
<1>1. TypeOK /\ Balanced(tokens, indentStack) /\ Increasing(indentStack) /\ Faithful
  BY DEF LInv, IInv, BlocksBalanced, LevelsIncrease
<1>2. /\ source \in Seq(Byte) /\ End \in Nat /\ pos \in 0 .. End
  BY <1>1, SourceType
<1> QED BY <1>1, <1>2 DEF TypeOK, Faithful, StringsNest, Count, Span

\* One more content token, and the braces beside it.
LEMMA WrittenFaithful ==
  ASSUME LInv, InLine, errors = <<>>, NEW p \in Nat, pos' = p,
         NEW x \in TokenType, IsContent(x),
         tokens' = Append(tokens, x), emittedContent',
         source' = source, comments' = comments, indentStack' = indentStack,
         atLineStart' = atLineStart, phase' = phase,
         pos <= x.from, x.from <= x.to, x.to <= p, pos < p,
         x.from = pos \/ (x.from = pos + 1 /\ At(pos) = "close"),
         \A q \in pos .. (p - 1) : Covers(x, q) \/ At(q) \in {"open", "close"},
         At(p - 1) \notin {"sp"} \union Newlines,
         Len(strings') = Len(strings) + CountIn(<<x>>, "StringStart")
                                      - CountIn(<<x>>, "StringEnd"),
         Len(strings) \in Nat
  PROVE  Faithful'
<1>1. /\ pos \in Nat /\ tokens \in Seq(TokenType) /\ comments \in Seq(Span)
      /\ indentStack \in Seq(Nat) /\ indentStack # <<>>
      /\ Balanced(tokens, indentStack)
      /\ Read(pos, tokens, comments) /\ Lines(pos, tokens, emittedContent)
      /\ NestedLines(tokens) /\ Whole(indentStack)
      /\ AtFirst(pos, indentStack)
      /\ CountIn(tokens, "StringStart") - CountIn(tokens, "StringEnd") = Len(strings)
  BY FaithfulNow DEF InLine
<1>2. x.from \in Nat /\ x.to \in Nat
  BY TokensAreSpans
<1>3. \A q \in pos .. (p - 1) :
         /\ At(q) \in Gaps \/ Covers(x, q)
         /\ At(q) \notin Newlines \/ Covers(x, q)
  BY DEF Gaps, Newlines
<1>4. Read(p, tokens', comments')
  BY <1>1, <1>3, ReadToken
<1>5. Lines(p, tokens', emittedContent')
  <2>1. Lines(p, Append(tokens, x), TRUE)
    BY <1>1, <1>3, LinesContent
  <2>2. emittedContent' = TRUE
    BY <2>1
  <2> QED BY <2>1, <2>2
<1>6. NestedLines(tokens')
  <2>1. ASSUME Indented(x.from) PROVE x.from - LineBegin(x.from) = Top(indentStack)
    <3>1. CASE x.from = pos
      BY <1>1, <2>1, <3>1 DEF AtFirst
    <3>2. CASE x.from = pos + 1 /\ At(pos) = "close"
      <4>1. pos \in 0 .. (x.from - 1) /\ \A k \in pos .. (x.from - 1) : k = pos
        BY <1>1, <3>2
      <4>2. ~Indented(x.from)
        BY <1>1, <1>2, <3>2, <4>1, NotIndented DEF Newlines
      <4> QED BY <2>1, <4>2
    <3> QED BY <3>1, <3>2
  <2> QED BY <1>1, <2>1, NestedContent
<1>7. AtFirst(p, indentStack')
  <2>1. p - 1 \in 0 .. (p - 1) /\ \A k \in (p - 1) .. (p - 1) : k = p - 1
    BY <1>1
  <2>2. ~Indented(p)
    BY <2>1, NotIndented
  <2> QED BY <2>2 DEF AtFirst
<1>8. CountIn(tokens', "StringStart") - CountIn(tokens', "StringEnd") = Len(strings')
  <2>1. tokens' = tokens \o <<x>> /\ <<x>> \in Seq(TokenType)
    BY <1>1, AppendIsConcat, CountOfOne
  <2>2. \A kind : /\ CountIn(tokens \o <<x>>, kind) = CountIn(tokens, kind) + CountIn(<<x>>, kind)
                  /\ CountIn(tokens, kind) \in Nat /\ CountIn(<<x>>, kind) \in Nat
    BY <1>1, <2>1, CountOfConcat, CountOfOne, ZenonT(30)
  <2>3. /\ CountIn(tokens', "StringStart")
             = CountIn(tokens, "StringStart") + CountIn(<<x>>, "StringStart")
        /\ CountIn(tokens', "StringEnd")
             = CountIn(tokens, "StringEnd") + CountIn(<<x>>, "StringEnd")
        /\ CountIn(tokens, "StringStart") \in Nat /\ CountIn(<<x>>, "StringStart") \in Nat
        /\ CountIn(tokens, "StringEnd") \in Nat /\ CountIn(<<x>>, "StringEnd") \in Nat
    BY <2>1, <2>2
  <2> QED BY <1>1, <2>3, SMTT(30)
<1>9. phase' # "done" /\ ~atLineStart'
  BY DEF InLine
<1> QED BY <1>1, <1>4, <1>5, <1>6, <1>7, <1>8, <1>9, FaithfulAfter

\* Spaces, braces of an interpolation, or a comment are passed.
LEMMA PassedFaithful ==
  ASSUME LInv, InLine, errors = <<>>, NEW p \in Nat, pos' = p, pos < p,
         tokens' = tokens, emittedContent' = emittedContent, source' = source,
         indentStack' = indentStack, atLineStart' = atLineStart, phase' = phase,
         Len(strings') = Len(strings), strings' # <<>> => strings # <<>>,
         \/ comments' = comments /\ \A q \in pos .. (p - 1) : At(q) \in Gaps
         \/ comments' = Append(comments, [from |-> pos, to |-> p]),
         \A q \in pos .. (p - 1) : At(q) \notin Newlines
  PROVE  Faithful'
<1>1. /\ pos \in Nat /\ tokens \in Seq(TokenType) /\ comments \in Seq(Span)
      /\ pos \in 0 .. End /\ End \in Nat /\ emittedContent \in BOOLEAN
      /\ Read(pos, tokens, comments) /\ Lines(pos, tokens, emittedContent)
      /\ NestedLines(tokens) /\ Whole(indentStack)
      /\ AtFirst(pos, indentStack)
      /\ strings # <<>> => emittedContent
      /\ CountIn(tokens, "StringStart") - CountIn(tokens, "StringEnd") = Len(strings)
  BY FaithfulNow DEF InLine
<1>2. Read(p, tokens', comments')
  <2>1. CASE comments' = comments /\ \A q \in pos .. (p - 1) : At(q) \in Gaps
    BY <1>1, <2>1, ReadOn
  <2>2. CASE comments' = Append(comments, [from |-> pos, to |-> p])
    <3> DEFINE x == [from |-> pos, to |-> p]
    <3>1. x \in Span /\ x.from = pos /\ x.to = p
      BY <1>1 DEF Span
    <3>2. \A q \in pos .. (p - 1) : Covers(x, q)
      BY <1>1, <3>1 DEF Covers
    <3> HIDE DEF x
    <3>3. Read(p, tokens, Append(comments, x))
      BY <1>1, <3>1, <3>2, ReadComment
    <3> QED BY <2>2, <3>3 DEF x
  <2> QED BY <2>1, <2>2
<1>3. Lines(p, tokens', emittedContent')
  <2>1. <<>> \in Seq(TokenType) /\ tokens \o <<>> = tokens /\ Len(<<>>) = 0
    BY <1>1, ConcatEmptySeq
  <2>2. \A i \in 1 .. Len(<<>>) : <<>>[i].kind \in Layout
    BY <2>1
  <2>3. Lines(p, tokens \o <<>>, emittedContent)
    BY <1>1, <2>1, <2>2, LinesLayout
  <2> QED BY <2>1, <2>3
<1>4. AtFirst(p, indentStack')
  <2>1. ~Indented(p)
    <3>1. CASE At(pos) # "sp"
      <4>1. pos \in 0 .. (p - 1)
        BY <1>1
      <4> QED BY <3>1, <4>1, NotIndented
    <3>2. CASE At(pos) = "sp"
      <4>1. ~Indented(pos)
        BY <1>1, <3>2 DEF AtFirst, InLine
      <4> QED BY <1>1, <4>1, StillNotIndented
    <3> QED BY <3>1, <3>2
  <2> QED BY <2>1 DEF AtFirst
<1>5. phase' # "done" /\ ~atLineStart'
  BY DEF InLine
<1> QED BY <1>1, <1>2, <1>3, <1>4, <1>5, FaithfulAfter

\* Errors are only ever added.
LEMMA NoErrors ==
  ASSUME NEW s \in Seq(ErrorKinds), NEW t \in Seq(ErrorKinds), s \o t = <<>>
  PROVE  s = <<>> /\ t = <<>>
BY ConcatEqualIffEmpty

LEMMA SomeError ==
  ASSUME NEW s \in Seq(ErrorKinds), NEW e \in ErrorKinds
  PROVE  Append(s, e) # <<>>
<1>1. Len(Append(s, e)) = Len(s) + 1 /\ Len(s) \in Nat
  BY AppendProperties, LenProperties
<1>2. Len(<<>>) = 0
  OBVIOUS
<1> QED BY <1>1, <1>2

\* Layout tokens are no strings.
LEMMA LayoutCounts ==
  ASSUME NEW toks \in Seq(TokenType), NEW ts \in Seq(TokenType),
         \A i \in 1 .. Len(ts) : ts[i].kind \in Layout
  PROVE  /\ CountIn(toks \o ts, "StringStart") = CountIn(toks, "StringStart")
         /\ CountIn(toks \o ts, "StringEnd") = CountIn(toks, "StringEnd")
<1>1. ASSUME NEW kind \in {"StringStart", "StringEnd"}
      PROVE  CountIn(toks \o ts, kind) = CountIn(toks, kind)
  <2>1. {i \in 1 .. Len(ts) : ts[i].kind = kind} = {}
    BY DEF Layout
  <2>2. CountIn(ts, kind) = 0
    BY <2>1, FS_EmptySet DEF CountIn
  <2>3. /\ CountIn(toks \o ts, kind) = CountIn(toks, kind) + CountIn(ts, kind)
        /\ CountIn(toks, kind) \in Nat
    BY CountOfConcat
  <2> QED BY <2>2, <2>3
<1> QED BY <1>1

\* A run of bytes, seen from outside.
LEMMA RunBytes ==
  ASSUME LInv, NEW i \in 0 .. End, NEW S
  PROVE  /\ RunEnd(i, S) \in i .. End
         /\ RunEnd(i, S) = End \/ At(RunEnd(i, S)) \notin S
         /\ \A k \in i .. (RunEnd(i, S) - 1) : At(k) \in S
         /\ i < End /\ At(i) \in S => i < RunEnd(i, S)
<1>1. source \in Seq(Byte)
  BY SourceType DEF LInv, IInv
<1>2. /\ RunEnd(i, S) \in i .. End
      /\ RunEnd(i, S) = End \/ At(RunEnd(i, S)) \notin S
      /\ \A k \in i .. (RunEnd(i, S) - 1) : At(k) \in S
  BY <1>1, RunEndScan
<1>3. ASSUME i < End, At(i) \in S PROVE i < RunEnd(i, S)
  <2>1. RunEnd(i, S) # i
    BY <1>2, <1>3
  <2>2. End \in Nat
    BY SourceType DEF LInv, IInv
  <2> QED BY <1>2, <2>1, <2>2
<1> QED BY <1>2, <1>3

\* Layout tokens, or none, and the newlines and spaces beside them.
LEMMA LayoutFaithful ==
  ASSUME LInv, errors = <<>>, NEW p \in Nat, pos' = p, source' = source,
         NEW ts \in Seq(TokenType), \A i \in 1 .. Len(ts) : ts[i].kind \in Layout,
         tokens' = tokens \o ts, strings' = strings,
         Read(p, tokens \o ts, comments'), Lines(p, tokens \o ts, emittedContent'),
         Whole(indentStack'), atLineStart' => ~emittedContent',
         strings # <<>> => emittedContent', phase' = "done" => p = End,
         phase' = "lexing" => IF atLineStart' THEN AtBegin(p) ELSE AtFirst(p, indentStack')
  PROVE  Faithful'
<1>1. /\ tokens \in Seq(TokenType) /\ NestedLines(tokens)
      /\ CountIn(tokens, "StringStart") - CountIn(tokens, "StringEnd") = Len(strings)
  BY FaithfulNow
<1>2. NestedLines(tokens \o ts)
  BY <1>1, NestedLayout
<1>3. CountIn(tokens \o ts, "StringStart") - CountIn(tokens \o ts, "StringEnd") = Len(strings)
  BY <1>1, LayoutCounts
<1> QED BY <1>2, <1>3, FaithfulAfter

LEMMA NoLayout ==
  /\ <<>> \in Seq(TokenType)
  /\ \A i \in 1 .. Len(<<>>) : <<>>[i].kind \in Layout
OBVIOUS

LEMMA NewlineFaithful ==
  ASSUME LInv, HandleNewline
  PROVE  Faithful'
<1> DEFINE p == AfterNewline(pos)
           x == Token("Newline", pos, p)
           ts == IF emittedContent THEN <<x>> ELSE <<>>
<1>1. CASE errors' # <<>>
  BY <1>1 DEF Faithful
<1>2. CASE errors' = <<>>
  <2>1. errors = <<>>
    <3>1. errors \in Seq(ErrorKinds)
      BY DEF LInv, IInv, TypeOK
    <3>2. (IF TrailingSpaces(pos) THEN <<"trailing whitespace">> ELSE <<>>) \in Seq(ErrorKinds)
      BY OneError DEF ErrorKinds
    <3> QED BY <1>2, <3>1, <3>2, NoErrors DEF HandleNewline
  <2>2. /\ source \in Seq(Byte) /\ End \in Nat /\ pos \in 0 .. End /\ pos \in Nat
        /\ tokens \in Seq(TokenType) /\ comments \in Seq(Span) /\ emittedContent \in BOOLEAN
        /\ Read(pos, tokens, comments) /\ Lines(pos, tokens, emittedContent)
        /\ NestedLines(tokens) /\ Whole(indentStack)
        /\ CountIn(tokens, "StringStart") - CountIn(tokens, "StringEnd") = Len(strings)
    BY <2>1, FaithfulNow
  <2>3. /\ source' = source /\ pos' = p /\ tokens' = tokens \o ts /\ comments' = comments
        /\ indentStack' = indentStack /\ atLineStart' = TRUE /\ emittedContent' = FALSE
        /\ strings' = strings /\ strings = <<>> /\ phase' = phase /\ phase = "lexing"
        /\ pos < End /\ At(pos) \in Newlines
    BY DEF HandleNewline, Outside, InLine
  <2>4. /\ p \in pos .. End /\ p > pos
        /\ \A q \in pos .. (p - 1) : At(q) \in Newlines
    BY <2>2, <2>3, AfterNewlineScan DEF Peek
  <2> HIDE DEF p
  <2>5. p \in Nat /\ p - 1 \in pos .. (p - 1)
    BY <2>2, <2>4
  <2>6. x \in TokenType /\ x.kind = "Newline" /\ x.from = pos /\ x.to = p
    BY <2>2, <2>5 DEF Token, TokenType, Kinds, Layout
  <2>7. \A q \in pos .. (p - 1) : At(q) \in Gaps
    BY <2>4 DEF Gaps, Newlines
  <2> HIDE DEF x
  <2>8. /\ ts \in Seq(TokenType) /\ \A i \in 1 .. Len(ts) : ts[i].kind \in Layout
        /\ Read(p, tokens \o ts, comments) /\ Lines(p, tokens \o ts, FALSE)
    <3>1. CASE emittedContent
      <4>1. ts = <<x>> /\ <<x>> \in Seq(TokenType) /\ Append(tokens, x) = tokens \o <<x>>
        BY <2>2, <2>6, <3>1, AppendIsConcat, CountOfOne
      <4>2. Read(p, Append(tokens, x), comments)
        BY <2>2, <2>4, <2>5, <2>6, <2>7, ReadToken
      <4>3. Lines(p, Append(tokens, x), FALSE)
        BY <2>2, <2>6, LinesNewline
      <4>4. \A i \in 1 .. Len(<<x>>) : <<x>>[i].kind \in Layout
        BY <2>6 DEF Layout
      <4> QED BY <4>1, <4>2, <4>3, <4>4
    <3>2. CASE ~emittedContent
      <4>1. ts = <<>> /\ tokens \o <<>> = tokens
        BY <2>2, <3>2, ConcatEmptySeq
      <4>2. Read(p, tokens, comments)
        BY <2>2, <2>4, <2>5, <2>7, ReadOn
      <4>3. Lines(p, tokens \o <<>>, FALSE)
        BY <2>2, <2>5, <3>2, NoLayout, LinesLayout
      <4> QED BY <4>1, <4>2, <4>3, NoLayout
    <3> QED BY <3>1, <3>2
  <2>9. AtBegin(p)
    BY <2>4, <2>5 DEF AtBegin
  <2> HIDE DEF ts
  <2> QED BY <2>1, <2>2, <2>3, <2>5, <2>8, <2>9, LayoutFaithful
<1> QED BY <1>1, <1>2

\* A token without braces: all the bytes from pos to its end, none of them a
\* newline.
LEMMA ContentFaithful ==
  ASSUME LInv, InLine, errors = <<>>,
         NEW kind \in Kinds \ (Layout \union {"StringStart", "StringEnd"}),
         NEW to \in 0 .. End, pos < to, Content(kind, to),
         At(to - 1) \notin {"sp"} \union Newlines,
         source' = source, comments' = comments, indentStack' = indentStack,
         atLineStart' = atLineStart, phase' = phase, strings' = strings
  PROVE  Faithful'
<1> DEFINE x == Token(kind, pos, to)
<1>1. pos \in Nat /\ End \in Nat /\ tokens \in Seq(TokenType)
      /\ CountIn(tokens, "StringStart") - CountIn(tokens, "StringEnd") = Len(strings)
  BY FaithfulNow
<1>2. to \in Nat
  BY <1>1
<1>3. /\ x \in TokenType /\ IsContent(x) /\ x.from = pos /\ x.to = to /\ x.kind = kind
      /\ \A q \in pos .. (to - 1) : Covers(x, q)
  BY <1>1, <1>2 DEF Token, TokenType, Kinds, IsContent, Covers
<1>4. tokens' = Append(tokens, x) /\ pos' = to /\ emittedContent' = TRUE
  BY DEF Content
<1> HIDE DEF x
<1>5. CountIn(<<x>>, "StringStart") = 0 /\ CountIn(<<x>>, "StringEnd") = 0
  BY <1>3, CountOfOne
<1>6. Len(strings) \in Nat
  BY LenProperties DEF LInv, IInv, TypeOK
<1>7. Len(strings') = Len(strings) + CountIn(<<x>>, "StringStart") - CountIn(<<x>>, "StringEnd")
  BY <1>5, <1>6
<1>8. pos <= x.from /\ x.from <= x.to /\ x.to <= to
  BY <1>1, <1>2, <1>3
<1> QED BY <1>2, <1>3, <1>4, <1>6, <1>7, <1>8, WrittenFaithful

LEMMA TokenStepFaithful ==
  ASSUME LInv, TokenStep
  PROVE  Faithful'
<1>1. CASE errors' # <<>>
  BY <1>1 DEF Faithful
<1>2. CASE errors' = <<>>
  <2>1. CASE HandleNewline
    BY <2>1, NewlineFaithful
  <2>2. CASE InlineTab \/ UnknownByte
    <3>1. errors \in Seq(ErrorKinds) /\ \E e \in ErrorKinds : errors' = Append(errors, e)
      BY <2>2 DEF InlineTab, UnknownByte, LInv, IInv, TypeOK, ErrorKinds
    <3> QED BY <1>2, <3>1, SomeError
  <2>3. CASE SkipSpaces
    <3> DEFINE p == RunEnd(pos, {"sp"})
    <3>1. /\ InLine /\ At(pos) = "sp" /\ pos < End /\ pos' = p /\ tokens' = tokens
          /\ emittedContent' = emittedContent /\ source' = source /\ errors' = errors
          /\ indentStack' = indentStack /\ atLineStart' = atLineStart /\ phase' = phase
          /\ strings' = strings /\ comments' = comments
      BY <2>3 DEF SkipSpaces, InLine
    <3>2. errors = <<>> /\ pos \in 0 .. End /\ End \in Nat
      BY <1>2, <3>1, FaithfulNow
    <3>3. /\ p \in pos .. End /\ \A k \in pos .. (p - 1) : At(k) \in {"sp"}
          /\ pos < p
      BY <3>1, <3>2, RunBytes
    <3> HIDE DEF p
    <3>4. p \in Nat /\ \A k \in pos .. (p - 1) : At(k) \in Gaps /\ At(k) \notin Newlines
      BY <3>2, <3>3 DEF Gaps, Newlines
    <3> QED BY <3>1, <3>2, <3>3, <3>4, PassedFaithful
  <2>4. CASE InlineComment
    <3> DEFINE p == CommentEnd(pos)
    <3>1. /\ InLine /\ At(pos) = "hash" /\ pos < End /\ pos' = p /\ tokens' = tokens
          /\ emittedContent' = emittedContent /\ source' = source /\ errors' = errors
          /\ indentStack' = indentStack /\ atLineStart' = atLineStart /\ phase' = phase
          /\ strings' = strings /\ comments' = Append(comments, [from |-> pos, to |-> p])
      BY <2>4 DEF InlineComment, InLine
    <3>2. errors = <<>> /\ pos \in 0 .. End /\ End \in Nat
      BY <1>2, <3>1, FaithfulNow
    <3>3. At(pos) \in Byte \ Newlines
      BY <3>1 DEF Byte, Newlines
    <3>4. /\ p \in pos .. End /\ \A k \in pos .. (p - 1) : At(k) \in Byte \ Newlines
          /\ pos < p
      BY <3>1, <3>2, <3>3, RunBytes DEF CommentEnd
    <3> HIDE DEF p
    <3>5. p \in Nat /\ \A k \in pos .. (p - 1) : At(k) \notin Newlines
      BY <3>2, <3>4
    <3> QED BY <3>1, <3>2, <3>4, <3>5, PassedFaithful
  <2>5. CASE Number \/ Word \/ Symbol
    <3>1. /\ InLine /\ pos < End /\ source' = source /\ errors' = errors
          /\ indentStack' = indentStack /\ atLineStart' = atLineStart /\ phase' = phase
          /\ strings' = strings /\ comments' = comments
      BY <2>5 DEF Number, Word, Symbol, InLine
    <3>2. errors = <<>> /\ pos \in 0 .. End /\ End \in Nat
      BY <1>2, <3>1, FaithfulNow
    <3>3. PICK kind \in {"Int", "Float", "Word", "Symbol"}, to \in 0 .. End :
            /\ Content(kind, to) /\ pos < to
            /\ At(to - 1) \in {"digit", "word", "sym", "dot"}
      <4>1. CASE Number
        <5> DEFINE whole == RunEnd(pos, {"digit"})
        <5>1. At(pos) \in {"digit"}
          BY <4>1 DEF Number
        <5>2. /\ whole \in pos .. End /\ pos < whole
              /\ \A k \in pos .. (whole - 1) : At(k) \in {"digit"}
          BY <3>1, <3>2, <5>1, RunBytes
        <5>3. whole - 1 \in pos .. (whole - 1) /\ whole \in 0 .. End
          BY <3>2, <5>2
        <5>4. IF Peek(whole) = "dot" /\ Peek(whole + 1) = "digit"
                THEN Content("Float", RunEnd(whole + 1, {"digit"}))
                ELSE Content("Int", whole)
          BY <4>1 DEF Number
        <5> HIDE DEF whole
        <5>5. CASE Peek(whole) = "dot" /\ Peek(whole + 1) = "digit"
          <6> DEFINE to == RunEnd(whole + 1, {"digit"})
          <6>1. whole + 1 < End /\ At(whole + 1) \in {"digit"}
            BY <5>5 DEF Peek
          <6>2. whole + 1 \in 0 .. End
            BY <3>2, <5>3, <6>1
          <6>3. /\ to \in (whole + 1) .. End /\ whole + 1 < to
                /\ \A k \in (whole + 1) .. (to - 1) : At(k) \in {"digit"}
            BY <6>1, <6>2, RunBytes
          <6> HIDE DEF to
          <6>4. to \in 0 .. End /\ to - 1 \in (whole + 1) .. (to - 1) /\ pos < to
            BY <3>2, <5>2, <5>3, <6>3
          <6>5. At(to - 1) \in {"digit", "word", "sym", "dot"}
            BY <6>3, <6>4
          <6>6. Content("Float", to)
            BY <5>4, <5>5 DEF to
          <6> QED BY <6>4, <6>5, <6>6
        <5>6. CASE ~(Peek(whole) = "dot" /\ Peek(whole + 1) = "digit")
          <6>1. Content("Int", whole)
            BY <5>4, <5>6
          <6>2. At(whole - 1) \in {"digit", "word", "sym", "dot"}
            BY <5>2, <5>3
          <6> QED BY <5>2, <5>3, <6>1, <6>2
        <5> QED BY <5>5, <5>6
      <4>2. CASE Word
        <5> DEFINE to == RunEnd(pos, IdentBytes)
        <5>1. At(pos) \in IdentBytes
          BY <4>2 DEF Word, IdentBytes
        <5>2. /\ to \in pos .. End /\ pos < to
              /\ \A k \in pos .. (to - 1) : At(k) \in IdentBytes
          BY <3>1, <3>2, <5>1, RunBytes
        <5> HIDE DEF to
        <5>3. to - 1 \in pos .. (to - 1) /\ to \in 0 .. End
          BY <3>2, <5>2
        <5>4. At(to - 1) \in {"digit", "word", "sym", "dot"}
          BY <5>2, <5>3 DEF IdentBytes
        <5>5. Content("Word", to)
          BY <4>2 DEF Word, to
        <5> QED BY <5>2, <5>3, <5>4, <5>5
      <4>3. CASE Symbol
        <5>1. pos + 1 \in 0 .. End /\ pos < pos + 1 /\ (pos + 1) - 1 = pos
          BY <3>1, <3>2
        <5>2. At(pos) \in {"digit", "word", "sym", "dot"} /\ Content("Symbol", pos + 1)
          BY <4>3 DEF Symbol
        <5> QED BY <5>1, <5>2
      <4> QED BY <2>5, <4>1, <4>2, <4>3
    <3>4. kind \in Kinds \ (Layout \union {"StringStart", "StringEnd"})
      BY DEF Kinds, Layout
    <3>5. At(to - 1) \notin {"sp"} \union Newlines
      BY <3>3 DEF Newlines
    <3> QED BY <3>1, <3>2, <3>3, <3>4, <3>5, ContentFaithful
  <2>6. CASE WideCharacter
    <3>1. /\ source' = source /\ pos' = pos /\ tokens' = tokens /\ comments' = comments
          /\ indentStack' = indentStack /\ atLineStart' = atLineStart
          /\ emittedContent' = emittedContent /\ errors' = errors /\ strings' = strings
          /\ phase' = "panicked"
      BY <2>6 DEF WideCharacter
    <3>2. errors = <<>>
      BY <1>2, <3>1
    <3> QED BY <3>1, <3>2, FaithfulNow, FaithfulAfter
  <2> QED BY <2>1, <2>2, <2>3, <2>4, <2>5, <2>6 DEF TokenStep
<1> QED BY <1>1, <1>2

LEMMA StringStepFaithful ==
  ASSUME LInv, StringStep
  PROVE  Faithful'
<1> DEFINE F == [quote : Nat, braces : Nat \ {0}]
<1> HIDE DEF F
<1>1. CASE errors' # <<>>
  BY <1>1 DEF Faithful
<1>2. CASE errors' = <<>>
  <2>0. errors \in Seq(ErrorKinds)
    BY DEF LInv, IInv, TypeOK
  <2>1. CASE NewlineInBraces \/ EndInBraces
    <3>1. /\ <<"newline in interpolation", "unterminated interpolation">> \in Seq(ErrorKinds)
          /\ <<"newline in interpolation", "unterminated interpolation">> # <<>>
      BY DEF ErrorKinds
    <3>2. CASE NewlineInBraces
      <4>1. errors \o <<"newline in interpolation", "unterminated interpolation">> = <<>>
        BY <1>2, <3>2 DEF NewlineInBraces
      <4> QED BY <2>0, <3>1, <4>1, NoErrors
    <3>3. CASE EndInBraces
      <4>1. errors' = Append(errors, "unterminated interpolation")
            /\ "unterminated interpolation" \in ErrorKinds
        BY <3>3 DEF EndInBraces, ErrorKinds
      <4> QED BY <1>2, <2>0, <4>1, SomeError
    <3> QED BY <2>1, <3>2, <3>3
  <2>2. ASSUME SimpleString \/ InterpolatedString \/ InnerBrace \/ CloseInterpolation
        PROVE  /\ InLine /\ pos < End /\ phase = "lexing" /\ source' = source
               /\ indentStack' = indentStack /\ atLineStart' = atLineStart
               /\ phase' = phase /\ comments' = comments
    BY <2>2 DEF SimpleString, InterpolatedString, InnerBrace, CloseInterpolation,
                InBraces, InLine
  <2>3. errors \in Seq(ErrorKinds) /\ "unterminated string" \in ErrorKinds
        /\ strings \in Seq(F) /\ Len(strings) \in Nat
    BY LenProperties DEF F, LInv, IInv, TypeOK, ErrorKinds
  <2>4. errors = <<>> => /\ pos \in 0 .. End /\ pos \in Nat /\ End \in Nat
                         /\ strings # <<>> => emittedContent
    BY FaithfulNow
  <2>5. CASE SimpleString
    <3>1. PICK stop \in (pos + 1) .. End :
            IF Peek(stop) = "quote"
              THEN Content("String", stop + 1) /\ errors' = errors
              ELSE errors' = Append(errors, "unterminated string")
      BY <2>5 DEF SimpleString
    <3>2. Peek(stop) = "quote" /\ Content("String", stop + 1) /\ errors = <<>>
      BY <1>2, <2>3, <3>1, SomeError
    <3>3. stop < End /\ At(stop) = "quote"
      BY <3>2 DEF Peek
    <3>4. stop + 1 \in 0 .. End /\ pos < stop + 1 /\ (stop + 1) - 1 = stop
      BY <2>4, <3>2, <3>3
    <3>5. "String" \in Kinds \ (Layout \union {"StringStart", "StringEnd"})
      BY DEF Kinds, Layout
    <3>6. At((stop + 1) - 1) \notin {"sp"} \union Newlines
      BY <3>3, <3>4 DEF Newlines
    <3>7. strings' = strings
      BY <2>5 DEF SimpleString
    <3> QED BY <2>2, <2>5, <3>2, <3>4, <3>5, <3>6, <3>7, ContentFaithful
  <2>6. CASE InterpolatedString
    <3>1. PICK stop \in (pos + 1) .. End :
            /\ Peek(stop) = "open"
            /\ tokens' = Append(tokens, Token("StringStart", pos, stop))
            /\ pos' = stop + 1
      BY <2>6 DEF InterpolatedString
    <3> DEFINE x == Token("StringStart", pos, stop)
    <3>2. errors = <<>> /\ emittedContent' = TRUE
          /\ strings' = Append(strings, [quote |-> pos, braces |-> 1])
      BY <1>2, <2>6 DEF InterpolatedString
    <3>3. stop < End /\ At(stop) = "open" /\ stop \in Nat /\ pos < stop
      BY <2>4, <3>1, <3>2 DEF Peek
    <3>4. /\ x \in TokenType /\ IsContent(x) /\ x.from = pos /\ x.to = stop
          /\ x.kind = "StringStart"
          /\ \A q \in pos .. (stop - 1) : Covers(x, q)
      BY <2>4, <3>2, <3>3 DEF Token, TokenType, Kinds, IsContent, Layout, Covers
    <3> HIDE DEF x
    <3>5. CountIn(<<x>>, "StringStart") = 1 /\ CountIn(<<x>>, "StringEnd") = 0
      BY <3>4, CountOfOne
    <3>6. Len(strings') = Len(strings) + 1
      <4>1. [quote |-> pos, braces |-> 1] \in F
        BY <2>4, <3>2 DEF F
      <4> QED BY <2>3, <3>2, <4>1, AppendProperties
    <3>7. \A q \in pos .. ((stop + 1) - 1) : Covers(x, q) \/ At(q) \in {"open", "close"}
      <4>1. \A q \in pos .. ((stop + 1) - 1) : q = stop \/ q \in pos .. (stop - 1)
        BY <2>4, <3>2, <3>3
      <4> QED BY <3>3, <3>4, <4>1
    <3>8. /\ stop + 1 \in Nat /\ (stop + 1) - 1 = stop /\ pos < stop + 1
          /\ pos <= x.from /\ x.from <= x.to /\ x.to <= stop + 1
      BY <2>4, <3>2, <3>3, <3>4
    <3>9. At((stop + 1) - 1) \notin {"sp"} \union Newlines
      BY <3>3, <3>8 DEF Newlines
    <3>10. Len(strings') = Len(strings) + CountIn(<<x>>, "StringStart")
                             - CountIn(<<x>>, "StringEnd")
      <4>1. \A n \in Nat : n + 1 - 0 = n + 1
        OBVIOUS
      <4> QED BY <2>3, <3>5, <3>6, <4>1, Zenon
    <3>11. tokens' = Append(tokens, x)
      BY <3>1 DEF x
    <3> QED BY <2>2, <2>3, <2>6, <3>1, <3>2, <3>4, <3>7, <3>8, <3>9, <3>10, <3>11,
               WrittenFaithful
  <2>7. CASE InnerBrace
    <3>1. /\ errors = <<>> /\ tokens' = tokens /\ emittedContent' = emittedContent
          /\ pos' = pos + 1 /\ At(pos) \in {"open", "close"} /\ strings # <<>>
          /\ \E n : strings' = WithBraces(n)
      BY <1>2, <2>7 DEF InnerBrace, InBraces
    <3>2. Len(strings') = Len(strings)
      <4>1. PICK n : strings' = WithBraces(n)
        BY <3>1
      <4>2. strings' = [strings EXCEPT ![Len(strings)]
                          = [strings[Len(strings)] EXCEPT !.braces = n]]
        BY <4>1, Zenon DEF WithBraces
      <4> QED BY <2>3, <4>2, LenExcept
    <3>3. pos + 1 \in Nat /\ pos < pos + 1 /\ \A q \in pos .. ((pos + 1) - 1) : q = pos
      BY <2>4, <3>1
    <3>4. \A q \in pos .. ((pos + 1) - 1) : At(q) \in Gaps /\ At(q) \notin Newlines
      BY <3>1, <3>3 DEF Gaps, Newlines
    <3> QED BY <2>2, <2>7, <3>1, <3>2, <3>3, <3>4, PassedFaithful
  <2>8. CASE CloseInterpolation
    <3>1. PICK stop \in (pos + 1) .. End, kind \in {"StringEnd", "StringMid", "Invalid"} :
            \/ /\ Peek(stop) = "quote" /\ kind = "StringEnd"
               /\ tokens' = Append(tokens, Token(kind, pos + 1, stop + 1))
               /\ pos' = stop + 1 /\ strings' = Outer /\ errors' = errors
            \/ /\ Peek(stop) = "open" /\ kind = "StringMid"
               /\ tokens' = Append(tokens, Token(kind, pos + 1, stop))
               /\ pos' = stop + 1 /\ strings' = strings /\ errors' = errors
            \/ /\ kind = "Invalid" /\ errors' = Append(errors, "unterminated string")
      BY <2>8 DEF CloseInterpolation
    <3>2. errors = <<>> /\ kind # "Invalid"
      BY <1>2, <2>3, <3>1, SomeError
    <3>3. /\ strings # <<>> /\ At(pos) = "close" /\ emittedContent' = emittedContent
          /\ emittedContent
      BY <2>4, <2>8, <3>2 DEF CloseInterpolation, InBraces
    <3>4. PICK to \in {stop, stop + 1} :
            /\ kind = "StringEnd" => to = stop + 1
            /\ kind = "StringMid" => to = stop
      OBVIOUS
    <3> DEFINE x == Token(kind, pos + 1, to)
    <3>5. /\ tokens' = Append(tokens, x) /\ pos' = stop + 1
          /\ stop < End /\ At(stop) \in {"quote", "open"}
          /\ kind = "StringMid" => At(stop) = "open"
          /\ strings' = IF kind = "StringEnd" THEN Outer ELSE strings
      BY <3>1, <3>2, <3>4 DEF Peek
    <3>6. stop \in Nat /\ pos < stop /\ to \in Nat /\ pos + 1 \in Nat /\ pos + 1 <= to
      <4>1. stop \in Nat /\ pos < stop /\ pos + 1 \in Nat /\ pos + 1 <= stop
        BY <2>4, <3>2
      <4>2. stop + 1 \in Nat /\ pos + 1 <= stop + 1
        BY <2>4, <3>2, <4>1
      <4> QED BY <3>4, <4>1, <4>2
    <3>7. /\ x \in TokenType /\ IsContent(x) /\ x.from = pos + 1 /\ x.to = to /\ x.kind = kind
          /\ \A q \in (pos + 1) .. (to - 1) : Covers(x, q)
      BY <3>6 DEF Token, TokenType, Kinds, IsContent, Layout, Covers
    <3> HIDE DEF x
    <3>8. /\ CountIn(<<x>>, "StringStart") = 0
          /\ CountIn(<<x>>, "StringEnd") = IF kind = "StringEnd" THEN 1 ELSE 0
      BY <3>7, CountOfOne
    <3>9. Len(Outer) = Len(strings) - 1
      <4> QED BY <2>3, <3>3, WithoutLast DEF Outer
    <3>10. Len(strings') = Len(strings) + CountIn(<<x>>, "StringStart")
                             - CountIn(<<x>>, "StringEnd")
      <4>1. \A n \in Nat : n + 0 - 1 = n - 1 /\ n + 0 - 0 = n
        OBVIOUS
      <4>2. CASE kind = "StringEnd"
        BY <2>3, <3>5, <3>8, <3>9, <4>1, <4>2, Zenon
      <4>3. CASE kind # "StringEnd"
        BY <2>3, <3>5, <3>8, <4>1, <4>3, Zenon
      <4> QED BY <4>2, <4>3
    <3>11. \A q \in pos .. ((stop + 1) - 1) : Covers(x, q) \/ At(q) \in {"open", "close"}
      <4> SUFFICES ASSUME NEW q \in pos .. ((stop + 1) - 1)
                   PROVE  Covers(x, q) \/ At(q) \in {"open", "close"}
        OBVIOUS
      <4>1. q = pos \/ q = stop \/ q \in (pos + 1) .. (stop - 1)
        BY <2>4, <3>2, <3>6
      <4>2. q \in (pos + 1) .. (stop - 1) => q \in (pos + 1) .. (to - 1)
        BY <2>4, <3>2, <3>6
      <4>3. q = stop => q \in (pos + 1) .. (to - 1) \/ At(q) = "open"
        BY <2>4, <3>2, <3>4, <3>5, <3>6
      <4> QED BY <3>3, <3>7, <4>1, <4>2, <4>3
    <3>12. /\ stop + 1 \in Nat /\ (stop + 1) - 1 = stop /\ pos < stop + 1
           /\ pos <= x.from /\ x.from <= x.to /\ x.to <= stop + 1
      BY <2>4, <3>2, <3>6, <3>7
    <3>13. At((stop + 1) - 1) \notin {"sp"} \union Newlines
      BY <3>5, <3>12 DEF Newlines
    <3> QED BY <2>2, <2>3, <2>8, <3>2, <3>3, <3>5, <3>7, <3>10, <3>11, <3>12, <3>13,
               WrittenFaithful
  <2> QED BY <2>1, <2>5, <2>6, <2>7, <2>8 DEF StringStep
<1> QED BY <1>1, <1>2

\* What lies between the beginning of a line and its first other byte.
LEMMA LeadBytes ==
  ASSUME LInv, AtLine
  PROVE  /\ Lead \in pos .. End /\ Lead \in Nat /\ pos \in Nat /\ End \in Nat /\ pos < End
         /\ \A k \in pos .. (Lead - 1) : At(k) \in {"sp", "tab"} /\ At(k) \notin Newlines
         /\ ~LeadHasTab => \A k \in pos .. (Lead - 1) : At(k) = "sp"
         /\ Lead < End => At(Lead) \notin {"sp", "tab"}
         /\ errors \in Seq(ErrorKinds) /\ TabErrors \in Seq(ErrorKinds)
         /\ TabErrors = <<>> => ~LeadHasTab /\ TabTokens = <<>>
<1>1. TypeOK /\ pos < End
  BY DEF LInv, IInv, AtLine
<1>2. pos \in 0 .. End /\ End \in Nat
  BY <1>1, SourceType
<1>3. /\ Lead \in pos .. End
      /\ Lead = End \/ At(Lead) \notin {"sp", "tab"}
      /\ \A k \in pos .. (Lead - 1) : At(k) \in {"sp", "tab"}
  BY <1>2, RunBytes DEF Lead
<1>4. \A k \in pos .. (Lead - 1) : At(k) \notin Newlines
  BY <1>3 DEF Newlines
<1>5. ~LeadHasTab => \A k \in pos .. (Lead - 1) : At(k) = "sp"
  BY <1>3 DEF LeadHasTab
<1>6. Lead \in Nat /\ pos \in Nat /\ (Lead < End => Lead # End)
  BY <1>2, <1>3
<1>7. errors \in Seq(ErrorKinds) /\ TabErrors \in Seq(ErrorKinds)
  BY <1>1, TabTokensQuiet DEF TypeOK
<1>8. TabErrors = <<>> => ~LeadHasTab /\ TabTokens = <<>>
  BY DEF TabErrors, TabTokens
<1> QED BY <1>1, <1>2, <1>3, <1>4, <1>5, <1>6, <1>7, <1>8

\* Behind the newline that ends a line, the next one begins.
LEMMA NextBegins ==
  ASSUME LInv, NEW i \in 0 .. End, Peek(i) \in Newlines \union {"none"}
  PROVE  /\ AfterNewline(i) \in i .. End
         /\ \A q \in i .. (AfterNewline(i) - 1) : At(q) \in Newlines
         /\ AtBegin(AfterNewline(i))
<1> DEFINE p == AfterNewline(i)
<1>1. source \in Seq(Byte) /\ End \in Nat
  BY SourceType DEF LInv, IInv
<1>2. /\ p \in i .. End
      /\ \A q \in i .. (p - 1) : At(q) \in Newlines
      /\ Peek(i) \in Newlines => p > i
  BY <1>1, AfterNewlineScan
<1> HIDE DEF p
<1>3. CASE Peek(i) \in Newlines
  <2>1. p - 1 \in i .. (p - 1)
    BY <1>1, <1>2, <1>3
  <2> QED BY <1>2, <2>1 DEF AtBegin, p
<1>4. CASE Peek(i) = "none"
  <2>1. i = End
    <3>1. i < End => At(i) = "none" /\ At(i) \in Byte
      BY <1>1, <1>4 DEF Peek, At, End
    <3>2. "none" \notin Byte
      BY DEF Byte
    <3> QED BY <1>1, <3>1, <3>2
  <2>2. ~(p < End)
    BY <1>1, <1>2, <2>1
  <2> QED BY <1>2, <2>2 DEF AtBegin, p
<1> QED BY <1>3, <1>4

LEMMA BlankFaithful ==
  ASSUME LInv, BlankLine \/ CommentLine
  PROVE  Faithful'
<1>1. CASE errors' # <<>>
  BY <1>1 DEF Faithful
<1>2. CASE errors' = <<>>
  <2>1. /\ AtLine /\ errors' = errors \o TabErrors /\ tokens' = tokens \o TabTokens
        /\ source' = source /\ indentStack' = indentStack /\ atLineStart' = atLineStart
        /\ emittedContent' = emittedContent /\ strings' = strings /\ phase' = phase
        /\ phase = "lexing" /\ atLineStart
    BY DEF BlankLine, CommentLine, AtLine
  <2>2. /\ Lead \in pos .. End /\ Lead \in Nat /\ pos \in Nat /\ End \in Nat
        /\ \A k \in pos .. (Lead - 1) : At(k) \in {"sp", "tab"} /\ At(k) \notin Newlines
        /\ ~LeadHasTab => \A k \in pos .. (Lead - 1) : At(k) = "sp"
        /\ errors \in Seq(ErrorKinds) /\ TabErrors \in Seq(ErrorKinds)
        /\ TabErrors = <<>> => ~LeadHasTab /\ TabTokens = <<>>
    BY <2>1, LeadBytes
  <2>3. errors = <<>> /\ TabErrors = <<>>
    BY <1>2, <2>1, <2>2, NoErrors
  <2>4. TabTokens = <<>> /\ \A k \in pos .. (Lead - 1) : At(k) \in Gaps
    BY <2>2, <2>3 DEF Gaps
  <2>5. /\ tokens \in Seq(TokenType) /\ comments \in Seq(Span)
        /\ Read(pos, tokens, comments) /\ Lines(pos, tokens, emittedContent)
        /\ ~emittedContent /\ Whole(indentStack) /\ emittedContent \in BOOLEAN
        /\ strings # <<>> => emittedContent /\ tokens \o <<>> = tokens
    BY <2>1, <2>3, FaithfulNow, ConcatEmptySeq
  <2>6. tokens \o <<>> = tokens
    BY <2>5, ConcatEmptySeq
  <2>7. PICK p \in pos .. End :
          /\ pos' = p /\ AtBegin(p)
          /\ Read(p, tokens, comments')
    <3>1. CASE BlankLine
      <4> DEFINE p == AfterNewline(Lead)
      <4>1. Lead \in 0 .. End /\ Peek(Lead) \in Newlines \union {"none"} /\ pos' = p
            /\ comments' = comments
        BY <2>2, <3>1 DEF BlankLine
      <4>2. p \in Lead .. End /\ AtBegin(p) /\ \A q \in Lead .. (p - 1) : At(q) \in Newlines
        BY <4>1, NextBegins
      <4> HIDE DEF p
      <4>3. p \in pos .. End /\ p \in Nat /\ pos <= p
            /\ \A q \in pos .. (p - 1) : q \in pos .. (Lead - 1) \/ q \in Lead .. (p - 1)
        BY <2>2, <4>2
      <4>4. \A q \in pos .. (p - 1) : At(q) \in Gaps
        BY <2>4, <4>2, <4>3 DEF Gaps, Newlines
      <4>5. Read(p, tokens, comments)
        BY <2>2, <2>5, <4>3, <4>4, ReadOn
      <4> QED BY <4>1, <4>2, <4>3, <4>5
    <3>2. CASE CommentLine
      <4> DEFINE c == CommentEnd(Lead)
                 p == AfterNewline(c)
                 x == [from |-> Lead, to |-> c]
      <4>1. Lead \in 0 .. End /\ pos' = p /\ comments' = Append(comments, x)
        BY <2>2, <3>2 DEF CommentLine
      <4>2. c \in Lead .. End /\ (c = End \/ At(c) \notin Byte \ Newlines)
        BY <4>1, RunBytes DEF CommentEnd
      <4>3. source \in Seq(Byte)
        BY SourceType DEF LInv, IInv
      <4> HIDE DEF c
      <4>4. c \in 0 .. End
        BY <2>2, <4>2
      <4>5. Peek(c) \in Newlines \union {"none"}
        <5>1. CASE c < End
          <6>1. At(c) \in Byte
            BY <4>3, <4>4, <5>1 DEF At, End
          <6> QED BY <2>2, <4>2, <5>1, <6>1 DEF Peek
        <5>2. CASE ~(c < End)
          BY <5>2 DEF Peek
        <5> QED BY <5>1, <5>2
      <4>6. p \in c .. End /\ AtBegin(p) /\ \A q \in c .. (p - 1) : At(q) \in Newlines
        BY <4>4, <4>5, NextBegins
      <4> HIDE DEF p
      <4>7. p \in pos .. End /\ p \in Nat /\ pos <= Lead /\ Lead <= c /\ c <= p /\ c \in Nat
            /\ \A q \in pos .. (p - 1) : \/ q \in pos .. (Lead - 1) \/ q \in c .. (p - 1)
                                         \/ Lead <= q /\ q < c
        BY <2>2, <4>2, <4>4, <4>6
      <4>8. x \in Span /\ x.from = Lead /\ x.to = c
        BY <2>2, <4>7 DEF Span
      <4> HIDE DEF x
      <4>9. \A q \in pos .. (p - 1) : At(q) \in Gaps \/ Covers(x, q)
        BY <2>4, <4>6, <4>7, <4>8 DEF Gaps, Newlines, Covers
      <4>10. Read(p, tokens, Append(comments, x))
        BY <2>2, <2>5, <4>7, <4>8, <4>9, ReadComment
      <4> QED BY <4>1, <4>6, <4>7, <4>10
    <3> QED BY <3>1, <3>2
  <2>8. p \in Nat
    BY <2>2
  <2>9. Lines(p, tokens \o <<>>, FALSE)
    BY <2>2, <2>5, <2>8, NoLayout, LinesLayout
  <2> QED BY <2>1, <2>3, <2>4, <2>5, <2>6, <2>7, <2>8, <2>9, NoLayout, LayoutFaithful
<1> QED BY <1>1, <1>2

\* Layout tokens without bytes.
Marks(ts, at) ==
  /\ ts \in Seq(TokenType)
  /\ \A i \in 1 .. Len(ts) : /\ ts[i].kind \in Layout
                             /\ ts[i].from = at /\ ts[i].to = at

LEMMA OneMark ==
  ASSUME NEW kind \in Layout, NEW at \in Nat
  PROVE  Marks(<<Token(kind, at, at)>>, at)
<1> DEFINE x == Token(kind, at, at)
<1>1. x \in TokenType /\ x.kind \in Layout /\ x.from = at /\ x.to = at
  BY DEF Token, TokenType, Kinds
<1> HIDE DEF x
<1>2. <<x>> \in Seq(TokenType) /\ Len(<<x>>) = 1 /\ <<x>>[1] = x
  BY <1>1
<1> QED BY <1>1, <1>2 DEF Marks, x

LEMMA DedentMarks ==
  ASSUME NEW n \in Nat, NEW at \in Nat
  PROVE  Marks(Dedents(n, at), at)
<1>1. Dedents(n, at) \in Seq(TokenType)
  BY CountOfDedents
<1>2. Len(Dedents(n, at)) = n /\ \A i \in 1 .. n : Dedents(n, at)[i] = Token("Dedent", at, at)
  BY DEF Dedents
<1>3. \A i \in 1 .. n : /\ Dedents(n, at)[i].kind \in Layout
                        /\ Dedents(n, at)[i].from = at /\ Dedents(n, at)[i].to = at
  BY <1>2 DEF Token, Layout
<1> QED BY <1>1, <1>2, <1>3 DEF Marks

LEMMA StartFaithful ==
  ASSUME LInv, StartLine
  PROVE  Faithful'
<1> DEFINE odd  == ~LeadHasTab /\ Spaces % IndentUnit # 0
           uneven == IF odd THEN <<"indentation not a multiple">> ELSE <<>>
           stray == IF odd THEN <<Token("Invalid", pos, Lead)>> ELSE <<>>
           base == errors \o TabErrors \o uneven
           made == tokens \o TabTokens \o stray
<1>1. CASE errors' # <<>>
  BY <1>1 DEF Faithful
<1>2. CASE errors' = <<>>
  <2>1. /\ AtLine /\ atLineStart /\ phase = "lexing" /\ pos' = Lead /\ source' = source
        /\ comments' = comments /\ atLineStart' = FALSE /\ strings' = strings
        /\ emittedContent' = emittedContent /\ phase' = phase
    BY DEF StartLine, AtLine
  <2>2. /\ Lead \in pos .. End /\ Lead \in Nat /\ pos \in Nat /\ End \in Nat /\ pos < End
        /\ \A k \in pos .. (Lead - 1) : At(k) \in {"sp", "tab"} /\ At(k) \notin Newlines
        /\ ~LeadHasTab => \A k \in pos .. (Lead - 1) : At(k) = "sp"
        /\ Lead < End => At(Lead) \notin {"sp", "tab"}
        /\ errors \in Seq(ErrorKinds) /\ TabErrors \in Seq(ErrorKinds)
        /\ TabErrors = <<>> => ~LeadHasTab /\ TabTokens = <<>>
    BY <2>1, LeadBytes
  <2>3. Spaces \in Nat
    BY <2>2 DEF Spaces
  <2>4. /\ uneven \in Seq(ErrorKinds)
        /\ uneven = <<>> => stray = <<>>
        /\ <<"level skipped">> \in Seq(ErrorKinds) /\ <<"level skipped">> # <<>>
        /\ <<"dedent to no level">> \in Seq(ErrorKinds) /\ <<"dedent to no level">> # <<>>
        /\ <<>> \in Seq(ErrorKinds)
    <3>1. <<"indentation not a multiple">> \in Seq(ErrorKinds) /\ <<>> \in Seq(ErrorKinds)
          /\ <<"indentation not a multiple">> # <<>>
      BY OneError DEF ErrorKinds
    <3>2. CASE odd
      BY <3>1, <3>2 DEF ErrorKinds
    <3>3. CASE ~odd
      <4>1. uneven = <<>> /\ stray = <<>>
        BY <3>3, ZenonT(30)
      <4> HIDE DEF uneven, stray
      <4> QED BY <3>1, <4>1 DEF ErrorKinds
    <3> QED BY <3>2, <3>3
  <2>5. \/ /\ Spaces > Top(indentStack)
           /\ indentStack' = Append(indentStack, Spaces)
           /\ tokens' = Append(made, Token("Indent", Lead, Lead))
           /\ errors' = base \o (IF Spaces # Top(indentStack) + IndentUnit
                                   THEN <<"level skipped">> ELSE <<>>)
        \/ /\ Spaces < Top(indentStack)
           /\ indentStack' = Kept(Spaces)
           /\ tokens' = made \o Dedents(Len(indentStack) - Len(Kept(Spaces)), Lead)
           /\ errors' = base \o (IF Top(Kept(Spaces)) # Spaces
                                   THEN <<"dedent to no level">> ELSE <<>>)
        \/ /\ Spaces = Top(indentStack)
           /\ indentStack' = indentStack
           /\ tokens' = made
           /\ errors' = base
    BY DEF StartLine
  <2>6. base \in Seq(ErrorKinds) /\ errors \o TabErrors \in Seq(ErrorKinds)
    <3> HIDE DEF uneven
    <3>1. errors \o TabErrors \in Seq(ErrorKinds)
      BY <2>2, ConcatProperties
    <3> QED BY <2>4, <3>1, ConcatProperties
  <2> HIDE DEF uneven, stray
  <2>7. base = <<>>
    <3> HIDE DEF base
    <3> QED BY <1>2, <2>4, <2>5, <2>6, NoErrors
  <2>8. errors = <<>> /\ TabErrors = <<>> /\ uneven = <<>>
    <3>1. errors \o TabErrors = <<>> /\ uneven = <<>>
      BY <2>4, <2>6, <2>7, NoErrors
    <3> QED BY <2>2, <3>1, NoErrors
  <2>9. /\ tokens \in Seq(TokenType) /\ comments \in Seq(Span)
        /\ indentStack \in Seq(Nat) /\ indentStack # <<>> /\ Increasing(indentStack)
        /\ Read(pos, tokens, comments) /\ Lines(pos, tokens, emittedContent)
        /\ emittedContent = FALSE /\ Whole(indentStack) /\ AtBegin(pos)
        /\ strings # <<>> => emittedContent
    BY <2>1, <2>8, FaithfulNow
  <2>10. made = tokens
    BY <2>2, <2>4, <2>8, <2>9, ConcatEmptySeq
  <2> HIDE DEF base, made
  <2>11. PICK ts : /\ Marks(ts, Lead) /\ tokens' = tokens \o ts
                   /\ Whole(indentStack') /\ Top(indentStack') = Spaces
    <3>1. CASE Spaces > Top(indentStack)
      <4>1. Len(indentStack) \in Nat \ {0} /\ Top(indentStack) \in Nat
        <5>1. Len(indentStack) \in Nat \ {0}
          BY <2>9, EmptySeq
        <5>2. Len(indentStack) \in 1 .. Len(indentStack)
          BY <5>1
        <5> QED BY <2>9, <5>1, <5>2, ElementOfSeq DEF Top
      <4>2. /\ indentStack' = Append(indentStack, Spaces)
            /\ tokens' = Append(tokens, Token("Indent", Lead, Lead))
            /\ errors' = base \o (IF Spaces # Top(indentStack) + IndentUnit
                                    THEN <<"level skipped">> ELSE <<>>)
        <5>1. ~(Spaces < Top(indentStack)) /\ Spaces # Top(indentStack)
          BY <2>3, <3>1, <4>1
        <5> QED BY <2>5, <2>10, <5>1, Zenon
      <4>3. Spaces = Top(indentStack) + IndentUnit
        BY <1>2, <2>4, <2>6, <4>2, NoErrors
      <4>4. Whole(indentStack')
        BY <2>9, <4>2, <4>3, WholePush
      <4>5. Top(indentStack') = Spaces
        <5>1. /\ Len(Append(indentStack, Spaces)) = Len(indentStack) + 1
              /\ Append(indentStack, Spaces)[Len(indentStack) + 1] = Spaces
          BY <2>3, <2>9, AppendProperties
        <5> QED BY <4>2, <5>1 DEF Top
      <4>6. Marks(<<Token("Indent", Lead, Lead)>>, Lead)
        BY <2>2, OneMark DEF Layout
      <4>7. Token("Indent", Lead, Lead) \in TokenType
        BY <2>2 DEF Token, TokenType, Kinds, Layout
      <4>8. tokens' = tokens \o <<Token("Indent", Lead, Lead)>>
        BY <2>9, <4>2, <4>7, AppendIsConcat
      <4> QED BY <4>4, <4>5, <4>6, <4>8
    <3>2. CASE Spaces < Top(indentStack)
      <4>1. Len(indentStack) \in Nat \ {0} /\ Top(indentStack) \in Nat
        <5>1. Len(indentStack) \in Nat \ {0}
          BY <2>9, EmptySeq
        <5>2. Len(indentStack) \in 1 .. Len(indentStack)
          BY <5>1
        <5> QED BY <2>9, <5>1, <5>2, ElementOfSeq DEF Top
      <4>2. /\ indentStack' = Kept(Spaces)
            /\ tokens' = tokens \o Dedents(Len(indentStack) - Len(Kept(Spaces)), Lead)
            /\ errors' = base \o (IF Top(Kept(Spaces)) # Spaces
                                    THEN <<"dedent to no level">> ELSE <<>>)
        <5>1. ~(Spaces > Top(indentStack)) /\ Spaces # Top(indentStack)
          BY <2>3, <3>2, <4>1
        <5> QED BY <2>5, <2>10, <5>1, Zenon
      <4>3. Top(Kept(Spaces)) = Spaces
        BY <1>2, <2>4, <2>6, <4>2, NoErrors
      <4>4. KeptDepth(Spaces) \in 1 .. Len(indentStack)
        BY <2>3, KeptDepthType DEF LInv, IInv
      <4>5. Whole(Kept(Spaces))
        BY <2>9, <4>4, WholeKeep DEF Kept
      <4>6. Len(Kept(Spaces)) = KeptDepth(Spaces)
        BY <2>9, <4>4, IncreasingKeep DEF Kept
      <4>7. Len(indentStack) - Len(Kept(Spaces)) \in Nat
        BY <4>1, <4>4, <4>6
      <4>8. Marks(Dedents(Len(indentStack) - Len(Kept(Spaces)), Lead), Lead)
        BY <2>2, <4>7, DedentMarks
      <4> QED BY <4>2, <4>3, <4>5, <4>8
    <3>3. CASE Spaces = Top(indentStack)
      <4>1. tokens' = tokens /\ indentStack' = indentStack
        <5>1. Spaces \in Int /\ ~(Spaces > Top(indentStack)) /\ ~(Spaces < Top(indentStack))
          BY <2>3, <3>3
        <5> QED BY <2>5, <2>10, <5>1
      <4>2. Marks(<<>>, Lead)
        BY DEF Marks
      <4> QED BY <2>9, <3>3, <4>1, <4>2, ConcatEmptySeq
    <3> QED BY <2>5, <3>1, <3>2, <3>3
  <2>12. /\ ts \in Seq(TokenType)
         /\ \A i \in 1 .. Len(ts) : ts[i].kind \in Layout
         /\ \A i \in 1 .. Len(ts) : ts[i].from = Lead /\ ts[i].to = Lead
    BY <2>11 DEF Marks
  <2>13. \A k \in pos .. (Lead - 1) : At(k) \in Gaps
    BY <2>2, <2>8 DEF Gaps
  <2>14. pos <= Lead /\ Lead <= Lead
    BY <2>2
  <2>15. Read(Lead, tokens \o ts, comments)
    BY <2>2, <2>9, <2>12, <2>13, <2>14, ReadMarks
  <2>16. Lines(Lead, tokens \o ts, FALSE)
    BY <2>2, <2>9, <2>12, LinesLayout
  <2>17. LineBegin(Lead) = pos
    <3>1. BeginsLine(pos, Lead)
      BY <2>2, <2>9 DEF BeginsLine, AtBegin
    <3> QED BY <2>2, <3>1, LineBeginScan
  <2>18. AtFirst(Lead, indentStack')
    BY <2>2, <2>11, <2>17 DEF AtFirst, Spaces
  <2> QED BY <2>1, <2>2, <2>8, <2>9, <2>11, <2>12, <2>15, <2>16, <2>18, LayoutFaithful
<1> QED BY <1>1, <1>2

\* The end of the source: every level is closed, and the stream ends in Eof.
LEMMA FinishFaithful ==
  ASSUME LInv, Finish
  PROVE  Faithful'
<1> DEFINE closing == Dedents(Len(indentStack) - 1, pos)
           eof == <<Token("Eof", pos, pos)>>
           ts == closing \o eof
<1>1. CASE errors' # <<>>
  BY <1>1 DEF Faithful
<1>2. CASE errors' = <<>>
  <2>1. /\ phase = "lexing" /\ pos = End /\ strings = <<>> /\ errors = <<>>
        /\ tokens' = tokens \o ts /\ indentStack' = <<0>> /\ phase' = "done"
        /\ source' = source /\ pos' = pos /\ comments' = comments /\ strings' = strings
        /\ atLineStart' = atLineStart /\ emittedContent' = emittedContent
    BY <1>2 DEF Finish, EofTokens
  <2>2. /\ pos \in Nat /\ tokens \in Seq(TokenType) /\ comments \in Seq(Span)
        /\ indentStack \in Seq(Nat) /\ indentStack # <<>> /\ emittedContent \in BOOLEAN
        /\ Read(pos, tokens, comments) /\ Lines(pos, tokens, emittedContent)
        /\ atLineStart => ~emittedContent
    BY <2>1, FaithfulNow
  <2>3. Len(indentStack) - 1 \in Nat
    BY <2>2, EmptySeq
  <2>4. Marks(closing, pos) /\ Marks(eof, pos)
    BY <2>2, <2>3, DedentMarks, OneMark DEF Layout
  <2> HIDE DEF closing, eof
  <2>5. Marks(ts, pos)
    <3>1. closing \in Seq(TokenType) /\ eof \in Seq(TokenType)
      BY <2>4 DEF Marks
    <3>2. /\ ts \in Seq(TokenType)
          /\ Len(closing) \in Nat /\ Len(eof) \in Nat /\ Len(ts) = Len(closing) + Len(eof)
          /\ \A i \in 1 .. Len(closing) : ts[i] = closing[i]
          /\ \A i \in (Len(closing) + 1) .. (Len(closing) + Len(eof)) :
               i - Len(closing) \in 1 .. Len(eof) /\ ts[i] = eof[i - Len(closing)]
          /\ \A i \in 1 .. (Len(closing) + Len(eof)) :
               i \in 1 .. Len(closing) \/ i \in (Len(closing) + 1) .. (Len(closing) + Len(eof))
      BY <3>1, AppendedTo, ConcatProperties
    <3> HIDE DEF ts
    <3>3. ASSUME NEW i \in 1 .. (Len(closing) + Len(eof))
          PROVE  ts[i].kind \in Layout /\ ts[i].from = pos /\ ts[i].to = pos
      <4>1. CASE i \in 1 .. Len(closing)
        BY <2>4, <3>2, <4>1 DEF Marks
      <4>2. CASE i \in (Len(closing) + 1) .. (Len(closing) + Len(eof))
        <5>1. PICK j \in 1 .. Len(eof) : ts[i] = eof[j]
          BY <3>2, <4>2
        <5> QED BY <2>4, <5>1 DEF Marks
      <4> QED BY <3>2, <4>1, <4>2
    <3> QED BY <3>2, <3>3 DEF Marks
  <2> HIDE DEF ts
  <2>6. /\ ts \in Seq(TokenType)
        /\ \A i \in 1 .. Len(ts) : ts[i].kind \in Layout
        /\ \A i \in 1 .. Len(ts) : ts[i].from = pos /\ ts[i].to = pos
    BY <2>5 DEF Marks
  <2>7. /\ pos <= pos /\ \A q \in pos .. (pos - 1) : At(q) \in Gaps
        /\ \A q \in pos .. (pos - 1) : At(q) \notin Newlines
    BY <2>2
  <2>8. Read(pos, tokens \o ts, comments)
    BY <2>2, <2>6, <2>7, ReadMarks
  <2>9. Lines(pos, tokens \o ts, emittedContent)
    BY <2>2, <2>6, <2>7, LinesLayout
  <2>10. Whole(<<0>>)
    BY IndentUnitAssumption DEF Whole
  <2> QED BY <2>1, <2>2, <2>6, <2>8, <2>9, <2>10, LayoutFaithful
<1> QED BY <1>1, <1>2

LEMMA InitLInv == Init => LInv
<1> SUFFICES ASSUME Init PROVE Faithful
  BY InitIInv DEF LInv
<1>1. /\ pos = 0 /\ tokens = <<>> /\ comments = <<>> /\ indentStack = <<0>>
      /\ atLineStart = TRUE /\ emittedContent = FALSE /\ strings = <<>> /\ phase = "lexing"
  BY DEF Init
<1>2. Read(pos, tokens, comments)
  BY <1>1 DEF Read, Follow
<1>3. Lines(pos, tokens, emittedContent)
  BY <1>1 DEF Lines
<1>4. NestedLines(tokens)
  BY <1>1 DEF NestedLines
<1>5. Whole(indentStack)
  BY <1>1, IndentUnitAssumption DEF Whole
<1>6. AtBegin(pos)
  BY <1>1 DEF AtBegin
<1>7. StringsNest
  BY <1>1, CountOfNone DEF StringsNest, Count
<1> QED BY <1>1, <1>2, <1>3, <1>4, <1>5, <1>6, <1>7 DEF Faithful

LEMMA StepLInv == LInv /\ [Next]_vars => LInv'
<1> SUFFICES ASSUME LInv, [Next]_vars PROVE Faithful'
  BY StepIInv DEF LInv
<1>1. CASE LineStart
  BY <1>1, BlankFaithful, StartFaithful DEF LineStart
<1>2. CASE TokenStep
  BY <1>2, TokenStepFaithful
<1>3. CASE StringStep
  BY <1>3, StringStepFaithful
<1>4. CASE Finish
  BY <1>4, FinishFaithful
<1>5. CASE UNCHANGED vars
  <2>1. /\ source' = source /\ pos' = pos /\ tokens' = tokens /\ comments' = comments
        /\ indentStack' = indentStack /\ atLineStart' = atLineStart /\ strings' = strings
        /\ emittedContent' = emittedContent /\ errors' = errors /\ phase' = phase
    BY <1>5 DEF vars
  <2>2. errors = <<>> => (phase = "done" => pos = End)
    BY DEF LInv, Faithful
  <2> QED BY <2>1, <2>2, FaithfulNow, FaithfulAfter
<1> QED BY <1>1, <1>2, <1>3, <1>4, <1>5 DEF Next

-----------------------------------------------------------------------------
(* What the invariant says at the end                                      *)

LEMMA LayoutMirrored ==
  ASSUME LInv
  PROVE  LayoutMirrorsSource
<1> SUFFICES ASSUME Clean PROVE LayoutMirrorsSource
  BY DEF LayoutMirrorsSource, NestingMirrorsSource, LinesTerminated
<1>1. /\ errors = <<>> /\ tokens \in Seq(TokenType)
      /\ Lines(pos, tokens, emittedContent) /\ NestedLines(tokens)
  BY FaithfulNow DEF Clean
<1>2. \A i : i \in ContentTokens <=> i \in 1 .. Len(tokens) /\ IsContent(tokens[i])
  <2>1. DOMAIN tokens = 1 .. Len(tokens)
    BY <1>1
  <2> QED BY <2>1 DEF ContentTokens, IsContent
<1>3. NestingMirrorsSource
  <2> SUFFICES ASSUME NEW i \in ContentTokens, Indented(tokens[i].from)
               PROVE  tokens[i].from - LineBegin(tokens[i].from) = IndentUnit * DepthBefore(i)
    BY Zenon DEF NestingMirrorsSource, Indented
  <2>1. tokens[i].from - LineBegin(tokens[i].from) = IndentUnit * Depth(tokens, i)
    BY <1>1, <1>2 DEF NestedLines
  <2>2. Depth(tokens, i) = DepthBefore(i)
    BY Zenon DEF Depth, DepthBefore
  <2> QED BY <2>1, <2>2
<1>4. LinesTerminated
  <2> SUFFICES ASSUME NEW i \in ContentTokens, NEW j \in ContentTokens, i < j,
                      NEW q \in tokens[i].to .. (tokens[j].from - 1),
                      At(q) \in Newlines, \A k \in ContentTokens : ~Covers(tokens[k], q)
               PROVE  \E k \in (i + 1) .. (j - 1) : tokens[k].kind = "Newline"
    BY Zenon DEF LinesTerminated
  <2>1. \A k \in 1 .. Len(tokens) : IsContent(tokens[k]) => ~Covers(tokens[k], q)
    BY <1>2
  <2>2. Newlined(tokens, tokens[i].to, tokens[j].from)
    BY <2>1 DEF Newlined
  <2>3. Ended(tokens, i, j)
    BY <1>1, <1>2, <2>2 DEF Lines
  <2> QED BY <2>3 DEF Ended
<1> QED BY <1>3, <1>4 DEF LayoutMirrorsSource

\* Spans that follow each other cover no byte twice.
LEMMA CoveredOnce ==
  ASSUME NEW S, \A x \in S : x.from \in Nat /\ x.to \in Nat, NEW s \in Seq(S),
         NEW p \in Nat, Follow(s, p), NEW q \in Nat,
         NEW i \in 1 .. Len(s), NEW j \in 1 .. Len(s), Covers(s[i], q), Covers(s[j], q)
  PROVE  i = j
<1>1. /\ Len(s) \in Nat
      /\ s[i].from \in Nat /\ s[i].to \in Nat /\ s[j].from \in Nat /\ s[j].to \in Nat
  BY SpansOf
<1>2. ~(s[i].to <= s[j].from) /\ ~(s[j].to <= s[i].from)
  BY <1>1, SMTT(30) DEF Covers
<1>3. ~(i < j) /\ ~(j < i)
  BY <1>2 DEF Follow
<1>4. i \in Nat /\ j \in Nat
  BY <1>1
<1> QED BY <1>3, <1>4

LEMMA AllRead ==
  ASSUME LInv
  PROVE  NothingLost
<1>1. StringsNest
  BY DEF LInv, Faithful, StringsNest
<1>2. ASSUME Clean PROVE EveryByteAccounted
  <2>1. /\ errors = <<>> /\ tokens \in Seq(TokenType) /\ comments \in Seq(Span)
        /\ End \in Nat /\ pos = End /\ Read(End, tokens, comments)
    <3>1. errors = <<>> /\ phase = "done"
      BY <1>2 DEF Clean
    <3>2. pos = End
      BY <3>1 DEF LInv, Faithful
    <3> QED BY <3>1, <3>2, FaithfulNow
  <2>2. /\ DOMAIN tokens = 1 .. Len(tokens) /\ DOMAIN comments = 1 .. Len(comments)
        /\ Len(tokens) \in Nat
    BY <2>1, LenProperties
  <2>3. ASSUME NEW q \in 0 .. (End - 1)
        PROVE  LET spans == {<<"token", i>> : i \in {i \in DOMAIN tokens : Covers(tokens[i], q)}}
                      \union {<<"comment", i>> : i \in {i \in DOMAIN comments : Covers(comments[i], q)}}
               IN  IF At(q) \in {"sp", "nl", "cr", "open", "close"}
                     THEN Cardinality(spans) <= 1
                     ELSE Cardinality(spans) = 1
    <3> DEFINE T == {<<"token", i>> : i \in {i \in DOMAIN tokens : Covers(tokens[i], q)}}
               C == {<<"comment", i>> : i \in {i \in DOMAIN comments : Covers(comments[i], q)}}
               spans == T \union C
    <3>1. q \in Nat
      BY <2>1
    <3>2. \A i, j \in DOMAIN tokens : Covers(tokens[i], q) /\ Covers(tokens[j], q) => i = j
      BY <2>1, <2>2, <3>1, CoveredOnce, TokensAreSpans DEF Read
    <3>3. \A i, j \in DOMAIN comments : Covers(comments[i], q) /\ Covers(comments[j], q) => i = j
      BY <2>1, <2>2, <3>1, CoveredOnce, TokensAreSpans DEF Read
    <3>4. \A i \in DOMAIN tokens, j \in DOMAIN comments :
            ~(Covers(tokens[i], q) /\ Covers(comments[j], q))
      <4> SUFFICES ASSUME NEW i \in 1 .. Len(tokens), NEW j \in 1 .. Len(comments)
                   PROVE  ~(Covers(tokens[i], q) /\ Covers(comments[j], q))
        BY <2>2
      <4>1. /\ tokens[i].from \in Nat /\ tokens[i].to \in Nat
            /\ comments[j].from \in Nat /\ comments[j].to \in Nat
        BY <2>1, SpansOf, TokensAreSpans
      <4>2. tokens[i].to <= comments[j].from \/ comments[j].to <= tokens[i].from
        BY <2>1 DEF Read
      <4> QED BY <3>1, <4>1, <4>2, SMTT(30) DEF Covers
    <3>5. \A a, b \in spans : a = b
      BY <3>2, <3>3, <3>4
    <3>6. At(q) \in Gaps \/ spans # {}
      <4>1. \/ At(q) \in Gaps
            \/ \E i \in DOMAIN tokens : Covers(tokens[i], q)
            \/ \E j \in DOMAIN comments : Covers(comments[j], q)
        BY <2>1, <2>2 DEF Read
      <4> QED BY <4>1
    <3> HIDE DEF spans
    <3>7. CASE spans = {}
      <4>1. Cardinality(spans) = 0 /\ At(q) \in Gaps
        BY <3>6, <3>7, FS_EmptySet
      <4> QED BY <4>1 DEF spans, Gaps
    <3>8. CASE spans # {}
      <4>1. PICK a : spans = {a}
        BY <3>5, <3>8
      <4>2. Cardinality(spans) = 1
        BY <4>1, FS_Singleton
      <4> QED BY <4>2 DEF spans
    <3> QED BY <3>7, <3>8
  <2>4. ASSUME NEW i \in 1 .. (Len(tokens) - 1) PROVE tokens[i].to <= tokens[i + 1].from
    <3>1. i \in 1 .. Len(tokens) /\ i + 1 \in 1 .. Len(tokens) /\ i < i + 1
      BY <2>2
    <3> QED BY <2>1, <3>1 DEF Read, Follow
  <2> QED BY <2>3, <2>4 DEF EveryByteAccounted
<1>3. EveryByteAccounted
  BY <1>2 DEF EveryByteAccounted
<1> QED BY <1>1, <1>3 DEF NothingLost

\* The lexer never reads outside its source, its stack of levels is never
\* empty and always strictly increasing: the unchecked index in current_byte
\* and the unwraps of indent_stack.last() cannot fail, whatever the source.
THEOREM LexerTypeCorrect == Spec => [](TypeOK /\ LevelsIncrease)
<1>1. IInv => TypeOK /\ LevelsIncrease
  BY DEF IInv
<1> QED BY <1>1, InitIInv, StepIInv, PTL DEF Spec

\* Whatever the source, the Indent and Dedent tokens produced so far differ by
\* the levels on the stack; after Eof they balance.
THEOREM LexerBlocksBalanced == Spec => []BlocksBalanced
<1>1. IInv => BlocksBalanced
  BY DEF IInv
<1> QED BY <1>1, InitIInv, StepIInv, PTL DEF Spec

\* In a source without errors the tokens say what the text says of its layout:
\* every line is nested as deep as it is indented, and between the content of
\* two lines there is a Newline token - for every source, however it mixes
\* indents, dedents over several levels, blank lines, comment lines, comments
\* after code and strings with interpolations (tokenize, process_line_start,
\* handle_newline).
THEOREM LexerLayoutMirrorsSource == Spec => []LayoutMirrorsSource
<1> QED BY LayoutMirrored, InitLInv, StepLInv, PTL DEF Spec

\* In a source without errors every byte that is no space, newline or brace of
\* an interpolation is in exactly one token or comment, tokens stand in source
\* order, and while there are no errors the strings open in the token stream
\* are those the lexer is inside of.
THEOREM LexerNothingLost == Spec => []NothingLost
<1> QED BY AllRead, InitLInv, StepLInv, PTL DEF Spec
=============================================================================
