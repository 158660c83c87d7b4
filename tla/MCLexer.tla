------------------------------ MODULE MCLexer ------------------------------
(***************************************************************************)
(* Sources for the model checker.  IndentUnit is 2 here, so that three     *)
(* levels fit in short sources; nothing in Lexer depends on its value.     *)
(***************************************************************************)
EXTENDS Lexer
LOCAL INSTANCE SequencesExt

Upto(S, n) == UNION {[1 .. k -> S] : k \in 0 .. n}

\* Every layout of up to 8 bytes of words, spaces and newlines; every text of
\* up to 6 bytes of quotes, braces and backslashes; every mixture of up to 4
\* bytes of the classes that interact with both, and of the rare classes; every
\* text of up to 5 bytes whose backslashes may take newlines into strings.
Layouts == Upto({"word", "sp", "nl"}, 8)
Texts == Upto({"quote", "open", "close", "word", "bs"}, 6)
Mixed == Upto({"sp", "tab", "nl", "hash", "quote", "open", "close", "word"}, 4)
Escaped == Upto({"quote", "bs", "nl", "sp", "word", "open"}, 5)
Rare == Upto({"cr", "nl", "digit", "dot", "sym", "bad", "wide", "quote"}, 4)

\* Strings inside the interpolation of a string, closed and cut short.
Nested == {
  <<"quote", "open", "quote", "open", "word", "close", "quote", "close", "quote">>,
  <<"quote", "open", "quote", "open", "word", "nl", "word", "close", "quote">>,
  <<"quote", "open", "word", "close", "open", "word", "close", "quote">>,
  <<"quote", "open", "open", "word", "close", "close", "quote", "nl", "word">>,
  <<"word", "quote", "bs", "nl", "word", "quote", "sp", "word", "nl", "word">>,
  <<"word", "quote", "bs", "nl", "open", "word", "close", "bs", "nl", "quote", "word">>,
  <<"word", "sp", "hash", "word", "nl", "word", "nl", "sp", "sp", "hash", "nl", "word">>}

\* Every file of up to 4 lines at depths 0 to 3, blank lines and comments, with
\* and without the last newline: indents one by one, dedents by any number.
Spaced(n) == [i \in 1 .. n |-> "sp"]
Line == {Spaced(2 * d) \o <<"word">> : d \in 0 .. 3} \union {<<>>, <<"hash", "word">>}
Files == UNION {{FlattenSeq([i \in 1 .. n |-> IF i = n THEN f[i] \o tail ELSE f[i] \o <<"nl">>])
                   : f \in [1 .. n -> Line], tail \in {<<>>, <<"nl">>}} : n \in 1 .. 4}

MCSources == Layouts \union Files \union Texts \union Mixed \union Escaped
             \union Rare \union Nested

=============================================================================
