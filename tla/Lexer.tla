------------------------------- MODULE Lexer -------------------------------
(***************************************************************************)
(* The Jett lexer (crates/jett_lexer/src/lexer.rs): one pass over the      *)
(* source that turns leading spaces into Indent / Dedent tokens and text   *)
(* into content tokens, collecting errors instead of stopping at them.     *)
(*                                                                         *)
(* A source is a sequence of byte CLASSES.  The struct's fields are the    *)
(* variables; the locals of the nested calls lex_string ->                 *)
(* lex_interpolated_string -> lex_string are the stack `strings`, one      *)
(* frame per interpolated string whose braces are open.  Indices are those *)
(* of the code (from 0); every step consumes what one call of              *)
(* process_line_start or process_token, or one turn of the interpolation   *)
(* loop, consumes.                                                         *)
(***************************************************************************)
EXTENDS Integers, Sequences, FiniteSets

CONSTANTS Sources,      \* the sources to lex, sequences over Byte
          IndentUnit    \* spaces per level: the literal 4 of the code

\* "sym" is any one valid operator, "word" any identifier byte, "bad" an ASCII
\* byte no token starts with, "wide" the bytes of one character beyond ASCII.
Byte == {"sp", "tab", "nl", "cr", "hash", "quote", "bs", "open", "close",
         "word", "digit", "dot", "sym", "bad", "wide"}

ASSUME SourcesAssumption == Sources \subseteq Seq(Byte)
ASSUME IndentUnitAssumption == IndentUnit \in Nat \ {0}

VARIABLES source,         \* the text, fixed
          pos,            \* bytes consumed
          tokens,         \* the tokens produced: kind, first byte, end
          comments,       \* comment trivia: first byte, end
          indentStack,    \* the open indentation levels, in spaces
          atLineStart,    \* is indentation to be processed next?
          emittedContent, \* has the logical line produced content?
          errors,         \* error kinds, in order
          strings,        \* interpolated strings whose braces are open
          phase           \* "lexing", "done", or "panicked"

vars == <<source, pos, tokens, comments, indentStack, atLineStart,
          emittedContent, errors, strings, phase>>

Token(kind, from, to) == [kind |-> kind, from |-> from, to |-> to]

-----------------------------------------------------------------------------
(* Reading the source                                                      *)

End == Len(source)
At(i) == source[i + 1]
Peek(i) == IF i < End THEN At(i) ELSE "none"

Newlines == {"nl", "cr"}
IdentBytes == {"word", "digit"}

\* The end of the run of bytes of S that starts at i.
RunEnd(i, S) ==
  CHOOSE j \in i .. End :
    /\ j = End \/ At(j) \notin S
    /\ \A k \in i .. (j - 1) : At(k) \in S

NoNewline(i) == i
CrLfOnly(i) == IF Peek(i) = "cr" THEN i + 2 ELSE i + 1

\* skip_newline: one "\r", one "\n", or both.
AfterNewline(i) ==
  LET j == IF Peek(i) = "cr" THEN i + 1 ELSE i
  IN  IF Peek(j) = "nl" THEN j + 1 ELSE j

CommentLineEnd(i) == AfterNewline(RunEnd(i, Byte \ Newlines))
CommentEnd(i) == RunEnd(i, Byte \ Newlines)

\* The first byte from i on that ends the literal text of a string: its quote,
\* a newline, a brace that opens an interpolation, or the end of the source.
\* A backslash hides the byte after it; doubled braces are literal.
TextStop ==
  LET stop[i \in 0 .. End] ==
        CASE i = End -> End
          [] i < End /\ At(i) \in {"quote"} \union Newlines -> i
          [] i < End /\ At(i) = "open" /\ Peek(i + 1) # "open" -> i
          [] i + 1 < End /\ At(i) = "bs" -> stop[i + 2]
          [] i + 1 < End /\ At(i) \in {"open", "close"} /\ At(i + 1) = At(i) ->
               stop[i + 2]
          [] OTHER -> stop[i + 1]
  IN  stop

\* check_trailing_whitespace: spaces before i that end a line with content.
TrailingSpaces(i) ==
  /\ i > 1
  /\ At(i - 1) = "sp"
  /\ \E q \in 0 .. (i - 2) :
       /\ At(q) \notin {"sp", "tab"} \union Newlines
       /\ \A r \in q .. (i - 1) : At(r) \notin Newlines

-----------------------------------------------------------------------------
Init ==
  /\ source \in Sources
  /\ pos = 0
  /\ tokens = <<>>
  /\ comments = <<>>
  /\ indentStack = <<0>>
  /\ atLineStart = TRUE
  /\ emittedContent = FALSE
  /\ errors = <<>>
  /\ strings = <<>>
  /\ phase = "lexing"

-----------------------------------------------------------------------------
(* process_line_start.  All three kinds of line report tabs first.         *)

Lead == RunEnd(pos, {"sp", "tab"})
LeadHasTab == \E i \in pos .. (Lead - 1) : At(i) = "tab"
TabErrors == IF LeadHasTab THEN <<"tabs in indentation">> ELSE <<>>
TabTokens == IF LeadHasTab THEN <<Token("Invalid", pos, Lead)>> ELSE <<>>

AtLine == /\ phase = "lexing"
          /\ pos < End
          /\ atLineStart

BlankLine ==
  /\ AtLine
  /\ Peek(Lead) \in Newlines \union {"none"}
  /\ pos' = AfterNewline(Lead)
  /\ errors' = errors \o TabErrors
  /\ tokens' = tokens \o TabTokens
  /\ UNCHANGED <<source, comments, indentStack, atLineStart, emittedContent,
                 strings, phase>>

CommentLine ==
  /\ AtLine
  /\ Peek(Lead) = "hash"
  /\ pos' = AfterNewline(CommentEnd(Lead))
  /\ comments' = Append(comments, [from |-> Lead, to |-> CommentEnd(Lead)])
  /\ errors' = errors \o TabErrors
  /\ tokens' = tokens \o TabTokens
  /\ UNCHANGED <<source, indentStack, atLineStart, emittedContent, strings,
                 phase>>

Spaces == Lead - pos
Top(s) == s[Len(s)]

\* How many levels stay open when a line starts at `spaces`: the deeper ones
\* are popped, the outermost never is.
KeptDepth(spaces) ==
  CHOOSE n \in 1 .. Len(indentStack) :
    /\ n = 1 \/ indentStack[n] <= spaces
    /\ \A m \in (n + 1) .. Len(indentStack) : indentStack[m] > spaces

Kept(spaces) == SubSeq(indentStack, 1, KeptDepth(spaces))

Dedents(n, at) == [i \in 1 .. n |-> Token("Dedent", at, at)]

StartLine ==
  /\ AtLine
  /\ Peek(Lead) \notin Newlines \union {"none", "hash"}
  /\ pos' = Lead
  /\ atLineStart' = FALSE
  /\ LET odd  == ~LeadHasTab /\ Spaces % IndentUnit # 0
         base == errors \o TabErrors
                  \o (IF odd THEN <<"indentation not a multiple">> ELSE <<>>)
         made == tokens \o TabTokens
                  \o (IF odd THEN <<Token("Invalid", pos, Lead)>> ELSE <<>>)
     IN \/ /\ Spaces > Top(indentStack)
           /\ indentStack' = Append(indentStack, Spaces)
           /\ tokens' = Append(made, Token("Indent", Lead, Lead))
           /\ errors' = base \o (IF Spaces # Top(indentStack) + IndentUnit
                                   THEN <<"level skipped">> ELSE <<>>)
        \/ /\ Spaces < Top(indentStack)
           /\ indentStack' = Kept(Spaces)
           /\ tokens' = made \o Dedents(Len(indentStack) - Len(Kept(Spaces)), Lead)
           /\ errors' = base \o (IF Top(Kept(Spaces)) # Spaces
                                   THEN <<"dedent to no level">> ELSE <<>>)
        \/ /\ Spaces = Top(indentStack)
           /\ indentStack' = indentStack
           /\ tokens' = made
           /\ errors' = base
  /\ UNCHANGED <<source, comments, emittedContent, strings, phase>>

-----------------------------------------------------------------------------
(* process_token, and the interpolation loop while strings # <<>>.         *)

InLine == /\ phase = "lexing"
          /\ pos < End
          /\ ~atLineStart
InBraces == InLine /\ strings # <<>>
Outside == InLine /\ strings = <<>>

\* Emits one content token from pos to `to`.
Content(kind, to) ==
  /\ tokens' = Append(tokens, Token(kind, pos, to))
  /\ pos' = to
  /\ emittedContent' = TRUE

SkipSpaces ==
  /\ InLine
  /\ At(pos) = "sp"
  /\ pos' = RunEnd(pos, {"sp"})
  /\ UNCHANGED <<source, tokens, comments, indentStack, atLineStart,
                 emittedContent, errors, strings, phase>>

HandleNewline ==
  /\ Outside
  /\ At(pos) \in Newlines
  /\ errors' = errors \o (IF TrailingSpaces(pos) THEN <<"trailing whitespace">>
                                                 ELSE <<>>)
  /\ tokens' = tokens \o (IF emittedContent
                            THEN <<Token("Newline", pos, AfterNewline(pos))>>
                            ELSE <<>>)
  /\ pos' = AfterNewline(pos)
  /\ atLineStart' = TRUE
  /\ emittedContent' = FALSE
  /\ UNCHANGED <<source, comments, indentStack, strings, phase>>

InlineTab ==
  /\ Outside
  /\ At(pos) = "tab"
  /\ errors' = Append(errors, "tab")
  /\ tokens' = Append(tokens, Token("Invalid", pos, pos + 1))
  /\ pos' = pos + 1
  /\ UNCHANGED <<source, comments, indentStack, atLineStart, emittedContent,
                 strings, phase>>

\* Also lex_symbol's own "#" arm, which interpolations reach.
InlineComment ==
  /\ InLine
  /\ At(pos) = "hash"
  /\ pos' = CommentEnd(pos)
  /\ comments' = Append(comments, [from |-> pos, to |-> CommentEnd(pos)])
  /\ UNCHANGED <<source, tokens, indentStack, atLineStart, emittedContent,
                 errors, strings, phase>>

Number ==
  /\ InLine
  /\ At(pos) = "digit"
  /\ LET whole == RunEnd(pos, {"digit"})
     IN  IF Peek(whole) = "dot" /\ Peek(whole + 1) = "digit"
           THEN Content("Float", RunEnd(whole + 1, {"digit"}))
           ELSE Content("Int", whole)
  /\ UNCHANGED <<source, comments, indentStack, atLineStart, errors, strings,
                 phase>>

Word ==
  /\ InLine
  /\ At(pos) = "word"
  /\ Content("Word", RunEnd(pos, IdentBytes))
  /\ UNCHANGED <<source, comments, indentStack, atLineStart, errors, strings,
                 phase>>

Symbol ==
  /\ InLine
  /\ At(pos) \in {"sym", "dot"}
  /\ Content("Symbol", pos + 1)
  /\ UNCHANGED <<source, comments, indentStack, atLineStart, errors, strings,
                 phase>>

\* lex_symbol's default arm.  Braces and tabs are met there only where no
\* earlier branch of the caller takes them.
UnknownByte ==
  /\ InLine
  /\ \/ At(pos) \in {"bad", "bs"}
     \/ At(pos) \in {"open", "close"} /\ strings = <<>>
     \/ At(pos) = "tab" /\ strings # <<>>
  /\ Content("Invalid", pos + 1)
  /\ errors' = Append(errors, "unexpected character")
  /\ UNCHANGED <<source, comments, indentStack, atLineStart, strings, phase>>

\* The same arm slices source[start .. start + 1] for its message; inside a
\* character of several bytes that is not a boundary, and the slice panics.
WideCharacter ==
  /\ InLine
  /\ At(pos) = "wide"
  /\ phase' = "panicked"
  /\ UNCHANGED <<source, pos, tokens, comments, indentStack, atLineStart,
                 emittedContent, errors, strings>>

-----------------------------------------------------------------------------
(* Strings                                                                 *)

\* A string without interpolation: one literal, or an unterminated one.
SimpleString ==
  /\ InLine
  /\ At(pos) = "quote"
  /\ \E stop \in (pos + 1) .. End :
         /\ stop = TextStop[pos + 1]
         /\ Peek(stop) # "open"
         /\ IF Peek(stop) = "quote"
              THEN /\ Content("String", stop + 1)
                   /\ errors' = errors
              ELSE /\ Content("Invalid", stop)
                   /\ errors' = Append(errors, "unterminated string")
  /\ UNCHANGED <<source, comments, indentStack, atLineStart, strings, phase>>

\* StringStart, and the first interpolation's brace opens.
InterpolatedString ==
  /\ InLine
  /\ At(pos) = "quote"
  /\ \E stop \in (pos + 1) .. End :
         /\ stop = TextStop[pos + 1]
         /\ Peek(stop) = "open"
         /\ tokens' = Append(tokens, Token("StringStart", pos, stop))
         /\ pos' = stop + 1
  /\ emittedContent' = TRUE
  /\ strings' = Append(strings, [quote |-> pos, braces |-> 1])
  /\ UNCHANGED <<source, comments, indentStack, atLineStart, errors, phase>>

NoOuter == <<>>
Outer == SubSeq(strings, 1, Len(strings) - 1)
Braces == Top(strings).braces
WithBraces(n) == [strings EXCEPT ![Len(strings)].braces = n]

InnerBrace ==
  /\ InBraces
  /\ \/ /\ At(pos) = "open"
        /\ strings' = WithBraces(Braces + 1)
     \/ /\ At(pos) = "close"
        /\ Braces > 1
        /\ strings' = WithBraces(Braces - 1)
  /\ pos' = pos + 1
  /\ UNCHANGED <<source, tokens, comments, indentStack, atLineStart,
                 emittedContent, errors, phase>>

\* The brace that closes the interpolation, and the text after it: up to the
\* quote (StringEnd), to the next interpolation (StringMid), or cut short.
CloseInterpolation ==
  /\ InBraces
  /\ At(pos) = "close"
  /\ Braces = 1
  /\ \E stop \in (pos + 1) .. End :
       /\ stop = TextStop[pos + 1]
       /\ \/ /\ Peek(stop) = "quote"
             /\ tokens' = Append(tokens, Token("StringEnd", pos + 1, stop + 1))
             /\ pos' = stop + 1
             /\ strings' = Outer
             /\ errors' = errors
          \/ /\ Peek(stop) = "open"
             /\ tokens' = Append(tokens, Token("StringMid", pos + 1, stop))
             /\ pos' = stop + 1
             /\ strings' = strings
             /\ errors' = errors
          \/ /\ Peek(stop) \in Newlines \union {"none"}
             /\ tokens' = Append(tokens, Token("Invalid", pos + 1, stop))
             /\ pos' = stop
             /\ strings' = Outer
             /\ errors' = Append(errors, "unterminated string")
  /\ UNCHANGED <<source, comments, indentStack, atLineStart, emittedContent,
                 phase>>

\* The newline is consumed inside the string, without a Newline token.
NewlineInBraces ==
  /\ InBraces
  /\ At(pos) \in Newlines
  /\ pos' = pos + 1
  /\ errors' = errors \o <<"newline in interpolation", "unterminated interpolation">>
  /\ strings' = Outer
  /\ UNCHANGED <<source, tokens, comments, indentStack, atLineStart,
                 emittedContent, phase>>

EndInBraces ==
  /\ phase = "lexing"
  /\ pos = End
  /\ strings # <<>>
  /\ errors' = Append(errors, "unterminated interpolation")
  /\ strings' = Outer
  /\ UNCHANGED <<source, pos, tokens, comments, indentStack, atLineStart,
                 emittedContent, phase>>

-----------------------------------------------------------------------------
EofOnly == <<Token("Eof", pos, pos)>>
EofTokens == Dedents(Len(indentStack) - 1, pos) \o <<Token("Eof", pos, pos)>>

\* The tail of tokenize: close every open level, then Eof.
Finish ==
  /\ phase = "lexing"
  /\ pos = End
  /\ strings = <<>>
  /\ tokens' = tokens \o EofTokens
  /\ indentStack' = <<0>>
  /\ phase' = "done"
  /\ UNCHANGED <<source, pos, comments, atLineStart, emittedContent, errors,
                 strings>>

LineStart == BlankLine \/ CommentLine \/ StartLine
TokenStep == \/ SkipSpaces \/ HandleNewline \/ InlineTab \/ InlineComment
             \/ Number \/ Word \/ Symbol \/ UnknownByte \/ WideCharacter
StringStep == \/ SimpleString \/ InterpolatedString \/ InnerBrace
              \/ CloseInterpolation \/ NewlineInBraces \/ EndInBraces

Next == LineStart \/ TokenStep \/ StringStep \/ Finish

\* The lexer is one sequential call: it runs until it returns.
Spec == Init /\ [][Next]_vars /\ WF_vars(Next)

-----------------------------------------------------------------------------
(* Properties                                                              *)

Layout == {"Indent", "Dedent", "Newline", "Eof"}
Kinds == Layout \union {"Invalid", "Int", "Float", "Word", "Symbol", "String",
                        "StringStart", "StringMid", "StringEnd"}

TokenType == [kind : Kinds, from : Nat, to : Nat]

ErrorKinds == {
  "tabs in indentation", "indentation not a multiple", "level skipped",
  "dedent to no level", "trailing whitespace", "tab", "unexpected character",
  "unterminated string", "newline in interpolation",
  "unterminated interpolation"}

\* pos stays inside the source (the code indexes it unchecked), the stack of
\* levels never empties (the code unwraps its last), braces stay counted.
TypeOK ==
  /\ source \in Sources
  /\ pos \in 0 .. End
  /\ tokens \in Seq(TokenType)
  /\ comments \in Seq([from : Nat, to : Nat])
  /\ indentStack \in Seq(Nat) /\ indentStack # <<>>
  /\ atLineStart \in BOOLEAN
  /\ emittedContent \in BOOLEAN
  /\ errors \in Seq(ErrorKinds)
  /\ strings \in Seq([quote : Nat, braces : Nat \ {0}])
  /\ phase \in {"lexing", "done", "panicked"}

CountIn(s, kind) == Cardinality({i \in 1 .. Len(s) : s[i].kind = kind})
Count(kind) == CountIn(tokens, kind)
Balanced(toks, levels) ==
  CountIn(toks, "Indent") - CountIn(toks, "Dedent") = Len(levels) - 1

\* The parser reads Indent and Dedent "like braces": whatever the source, the
\* levels open in the token stream are the levels on the stack, so the stream
\* that ends in Eof closes every block it opened.
BlocksBalanced == Balanced(tokens, indentStack)

\* The levels strictly increase from 0: what KeptDepth relies on.
Increasing(s) ==
  /\ s[1] = 0
  /\ \A i, j \in 1 .. Len(s) : i < j => s[i] < s[j]
LevelsIncrease == Increasing(indentStack)

Clean == phase = "done" /\ errors = <<>>

LineBegin(i) ==
  CHOOSE b \in 0 .. i : /\ b = 0 \/ At(b - 1) \in Newlines
                        /\ \A q \in b .. (i - 1) : At(q) \notin Newlines

DepthBefore(i) ==
  Cardinality({k \in 1 .. (i - 1) : tokens[k].kind = "Indent"})
    - Cardinality({k \in 1 .. (i - 1) : tokens[k].kind = "Dedent"})

ContentTokens == {i \in DOMAIN tokens : tokens[i].kind \notin Layout}

\* In a source without errors the block depth of every line, as the parser
\* sees it, is its indentation divided by the unit, across any sequence of
\* indents, multi-level dedents, blank lines and comment lines.
NestingMirrorsSource ==
  Clean => \A i \in ContentTokens :
    LET from == tokens[i].from
        line == LineBegin(from)
    IN  (\A q \in line .. (from - 1) : At(q) = "sp")
          => from - line = IndentUnit * DepthBefore(i)

Covers(span, q) == span.from <= q /\ q < span.to

\* Without errors, two content tokens of different lines have a Newline token
\* between them: no statement runs on into the next line, not even after a
\* comment or a string with interpolations, except where a backslash takes the
\* newline into a string.
LinesTerminated ==
  Clean => \A i, j \in ContentTokens :
    /\ i < j
    /\ \E q \in tokens[i].to .. (tokens[j].from - 1) :
         At(q) \in Newlines /\ \A k \in ContentTokens : ~Covers(tokens[k], q)
    => \E k \in (i + 1) .. (j - 1) : tokens[k].kind = "Newline"

\* The tokens say where lines begin and end and how deep they are nested.
LayoutMirrorsSource == NestingMirrorsSource /\ LinesTerminated

\* Without errors no byte is lost and none is read twice: every byte that is
\* not a space, a newline or an interpolation's brace belongs to exactly one
\* token or comment, and the tokens stand in source order.
EveryByteAccounted ==
  Clean =>
    /\ \A q \in 0 .. (End - 1) :
         LET spans == {<<"token", i>> : i \in {i \in DOMAIN tokens : Covers(tokens[i], q)}}
               \union {<<"comment", i>> : i \in {i \in DOMAIN comments : Covers(comments[i], q)}}
         IN  IF At(q) \in {"sp", "nl", "cr", "open", "close"}
               THEN Cardinality(spans) <= 1
               ELSE Cardinality(spans) = 1
    /\ \A i \in 1 .. (Len(tokens) - 1) : tokens[i].to <= tokens[i + 1].from

\* Until an error, the interpolated strings open in the token stream are those
\* the lexer is inside of, however they nest: a StringEnd closes the innermost.
StringsNest ==
  errors = <<>> => Count("StringStart") - Count("StringEnd") = Len(strings)

\* What the lexer has read is in the tokens, and strings are closed in the
\* order they were opened in.
NothingLost == EveryByteAccounted /\ StringsNest

\* Lexing ends, on every source: no step leaves the lexer where it was.
Terminates == <>(phase # "lexing")
=============================================================================
