-------------------------------- MODULE Text --------------------------------
(***************************************************************************)
(* The text of a Jett string and what the string.*, encoding.*, csv.* and  *)
(* bytes.* built-ins compute from it (call_builtin and the helpers below   *)
(* it in crates/jett_comptime/src/interpreter.rs).                         *)
(*                                                                         *)
(* A text is a sequence of Unicode code points. What Rust's standard       *)
(* library does for the built-ins (str::replace, split, trim, parse,       *)
(* to_uppercase, from_utf8) is defined here from its documentation, over   *)
(* the code points the built-ins tell apart.                               *)
(***************************************************************************)
EXTENDS Integers, SequencesExt

Empty == <<>>
LineFeed == 10
Return == 13
Space == 32
Quote == 34
Percent == 37
Plus == 43
Comma == 44
Minus == 45
Zero == 48
Equals == 61
Joiner == 8205    \* U+200D, zero width

Digits == 48..57
Letters == (65..90) \cup (97..122) \cup (192..687)
Spaces == (9..13) \cup {32, 133, 160}

\* is_grapheme_extend: marks that belong to the character before them.
Extends == (768..879) \cup (6832..6911) \cup (7616..7679) \cup (8400..8447)
           \cup (65024..65039) \cup (65056..65071) \cup (917760..917999)
           \cup (127995..127999)

\* is_regional_indicator: two of them make a flag.
Flags == 127462..127487

AtLeast(n, least) == IF n < least THEN least ELSE n
AtMost(n, most) == IF n > most THEN most ELSE n
Clamp(n, lo, hi) == AtMost(AtLeast(n, lo), hi)

-----------------------------------------------------------------------------
(* Characters: grapheme clusters                                           *)

\* One code point onto the clusters before it; flags counts the regional
\* indicators of the cluster so far.
Cluster(seen, c) ==
  LET prev == Last(Last(seen.clusters))
      joins == /\ seen.clusters # <<>>
               /\ \/ c \in Extends \cup {Joiner}
                  \/ prev = Joiner
                  \/ prev = Return /\ c = LineFeed
                  \/ c \in Flags /\ seen.flags % 2 = 1
      kept == IF joins THEN seen.flags ELSE 0
  IN [clusters |-> IF joins
                   THEN Append(Front(seen.clusters), Append(Last(seen.clusters), c))
                   ELSE Append(seen.clusters, <<c>>),
      flags |-> IF c \in Flags THEN kept + 1
                ELSE IF c \in Extends \cup {Joiner} THEN kept ELSE 0]

Graphemes(s) == FoldLeft(Cluster, [clusters |-> <<>>, flags |-> 0], s).clusters

\* The text of the clusters from the first to the last given position.
Span(g, first, last) == FlattenSeq(SubSeq(g, first, last))

CharCount(s) == Len(Graphemes(s))

\* The places where the needle stands for a run of whole clusters.
Matches(g, needle) ==
  {p \in UNION {{<<i, j>> : j \in i..AtMost(i + Len(needle) - 1, Len(g))} : i \in 1..Len(g)} :
     Span(g, p[1], p[2]) = needle}

\* The first of them: the clusters before it and the first one after it; or
\* nothing. An empty needle is found at the start.
FindMatch(s, needle) ==
  LET found == Matches(Graphemes(s), needle)
  IN IF needle = Empty THEN <<[index |-> 0, next |-> 1]>>
     ELSE IF found = {} THEN <<>>
     ELSE LET p == CHOOSE p \in found : \A q \in found : p[1] <= q[1]
          IN <<[index |-> p[1] - 1, next |-> p[2] + 1]>>

ContainsText(s, needle) == FindMatch(s, needle) # <<>>

StartsWith(s, prefix) ==
  prefix = Empty \/ \E n \in 1..CharCount(s) : Span(Graphemes(s), 1, n) = prefix

EndsWith(s, suffix) ==
  LET g == Graphemes(s)
  IN suffix = Empty \/ \E n \in 1..Len(g) : Span(g, n, Len(g)) = suffix

\* Matches that do not overlap, from the left.
CountMatches(s, needle) ==
  LET g == Graphemes(s)
      from[i \in 1..Len(g) + 1] ==
        LET here == {p \in Matches(g, needle) : p[1] = i}
        IN IF i > Len(g) THEN 0
           ELSE IF here = {} THEN from[i + 1]
           ELSE 1 + from[(CHOOSE p \in here : TRUE)[2] + 1]
  IN IF needle = Empty THEN 0 ELSE from[1]

-----------------------------------------------------------------------------
(* Taking texts apart                                                      *)

\* items[start.min(end)..end] with both ends clamped to the length.
Slice(items, start, end) ==
  SubSeq(items, Clamp(start, 0, Len(items)) + 1, Clamp(end, 0, Len(items)))

SliceText(s, start, end) == FlattenSeq(Slice(Graphemes(s), start, end))
TakeChars(s, n) == SliceText(s, 0, n)
DropChars(s, n) == SliceText(s, n, CharCount(s))
TakeLastChars(s, n) ==
  SliceText(s, AtLeast(CharCount(s) - AtLeast(n, 0), 0), CharCount(s))
CharAt(s, i) ==
  IF i \in 0..CharCount(s) - 1 THEN <<Graphemes(s)[i + 1]>> ELSE <<>>
ReverseText(s) == FlattenSeq(Reverse(Graphemes(s)))

\* The marker itself is left out; a missing marker leaves nothing, or the
\* whole text, as the part.
After(s, marker) ==
  LET m == FindMatch(s, marker)
  IN IF m = <<>> THEN Empty ELSE Span(Graphemes(s), m[1].next, CharCount(s))
Before(s, marker) ==
  LET m == FindMatch(s, marker)
  IN IF m = <<>> THEN s ELSE Span(Graphemes(s), 1, m[1].index)
Between(s, start, end) ==
  IF ContainsText(s, start) /\ ContainsText(After(s, start), end)
  THEN Before(After(s, start), end) ELSE Empty

RemovePrefix(s, prefix) ==
  IF StartsWith(s, prefix) THEN SubSeq(s, Len(prefix) + 1, Len(s)) ELSE s
RemoveSuffix(s, suffix) ==
  IF EndsWith(s, suffix) THEN SubSeq(s, 1, Len(s) - Len(suffix)) ELSE s

Truncate(s, max, suffix) ==
  IF CharCount(s) <= AtLeast(max, 0) THEN s ELSE TakeChars(s, max) \o suffix

-----------------------------------------------------------------------------
(* Padding                                                                 *)

Repeated(s, n) == FlattenSeq([i \in 1..AtLeast(n, 0) |-> s])

PadUnit(pad) == IF pad = Empty THEN <<Space>> ELSE Graphemes(pad)[1]

\* How many characters are missing to the width.
Missing(s, width) == AtLeast(width - CharCount(s), 0)

PadLeft(s, width, pad) == Repeated(PadUnit(pad), Missing(s, width)) \o s
PadEnd(s, width, pad) == s \o Repeated(PadUnit(pad), Missing(s, width))
Center(s, width) ==
  LET left == Missing(s, width) \div 2
  IN Repeated(<<Space>>, left) \o s \o Repeated(<<Space>>, Missing(s, width) - left)

\* Zeros go after a sign.
Zfill(s, width) ==
  LET signed == s # Empty /\ s[1] \in {Plus, Minus}
      cut == IF signed THEN 1 ELSE 0
  IN IF Missing(s, width) = 0 THEN s
     ELSE SubSeq(s, 1, cut) \o Repeated(<<Zero>>, Missing(s, width))
          \o SubSeq(s, cut + 1, Len(s))

-----------------------------------------------------------------------------
(* Code points: what is left to Rust's str, blind to clusters              *)

\* The longest beginning of only white space is dropped.
TrimStart(s) ==
  LET solid == {i \in DOMAIN s : s[i] \notin Spaces}
  IN IF solid = {} THEN Empty
     ELSE SubSeq(s, CHOOSE i \in solid : \A j \in solid : i <= j, Len(s))
TrimEnd(s) == Reverse(TrimStart(Reverse(s)))
Trim(s) == TrimStart(TrimEnd(s))

\* The pieces between the occurrences of the delimiter, from the left; an
\* empty delimiter occurs around every code point.
Split(s, delim) ==
  LET occurs(i) == i + Len(delim) - 1 <= Len(s) /\ SubSeq(s, i, i + Len(delim) - 1) = delim
      from[i \in 1..Len(s) + 1] ==
        IF i > Len(s) THEN <<Empty>>
        ELSE IF occurs(i) THEN <<Empty>> \o from[i + Len(delim)]
        ELSE LET rest == from[i + 1] IN <<<<s[i]>> \o rest[1]>> \o Tail(rest)
  IN IF delim = Empty
     THEN <<Empty>> \o [i \in DOMAIN s |-> <<s[i]>>] \o <<Empty>>
     ELSE from[1]

Join(parts, sep) ==
  FlattenSeq([i \in DOMAIN parts |-> IF i = 1 THEN parts[i] ELSE sep \o parts[i]])

Replace(s, from, to) == Join(Split(s, from), to)

\* The pieces made of code points of a kind, the rest taken as separators.
Pieces(s, kind) ==
  LET parted == FoldLeft(LAMBDA acc, c :
                  IF c \in kind THEN Append(Front(acc), Append(Last(acc), c))
                                ELSE Append(acc, Empty), <<Empty>>, s)
  IN SelectSeq(parted, LAMBDA piece : piece # Empty)

Words(s) ==
  LET parted == FoldLeft(LAMBDA acc, c :
                  IF c \in Spaces THEN Append(acc, Empty)
                  ELSE Append(Front(acc), Append(Last(acc), c)), <<Empty>>, s)
  IN SelectSeq(parted, LAMBDA piece : piece # Empty)

\* A line ends before its line feed, and before a return in front of that.
Lines(s) ==
  LET parts == Split(s, <<LineFeed>>)
      bare(line) == IF line # Empty /\ Last(line) = Return THEN Front(line) ELSE line
      ended == [i \in 1..Len(parts) - 1 |-> bare(parts[i])]
  IN IF Last(parts) = Empty THEN ended ELSE Append(ended, Last(parts))

\* A sharp s has no capital of its own.
UpperOf(c) == IF c \in 97..122 THEN <<c - 32>> ELSE IF c = 223 THEN <<83, 83>> ELSE <<c>>
LowerOf(c) == IF c \in 65..90 THEN <<c + 32>> ELSE <<c>>
Upper(s) == FlattenSeq([i \in DOMAIN s |-> UpperOf(s[i])])
Lower(s) == FlattenSeq([i \in DOMAIN s |-> LowerOf(s[i])])
ToUpperFirst(s) == IF s = Empty THEN s ELSE UpperOf(s[1]) \o Tail(s)
ToLowerFirst(s) == IF s = Empty THEN s ELSE LowerOf(s[1]) \o Tail(s)

Slugify(s) == Join(Pieces(Lower(s), Letters \cup Digits), <<Minus>>)
IsNumeric(s) == s # Empty /\ ToSet(s) \subseteq Digits
IsAlpha(s) == s # Empty /\ ToSet(s) \subseteq Letters

-----------------------------------------------------------------------------
(* Numbers                                                                 *)

\* Decimal notation, as i64::to_string and str::parse have it.
Decimal(n) ==
  LET digits[k \in Nat] == IF k < 10 THEN <<Zero + k>>
                           ELSE Append(digits[k \div 10], Zero + (k % 10))
  IN IF n < 0 THEN <<Minus>> \o digits[-n] ELSE digits[n]

\* Numbers of nine digits and more are all out of range.
TooLong == 100000000
DigitsValue(s) == FoldLeft(LAMBDA acc, c : 10 * AtMost(acc, TooLong) + c - Zero, 0, s)

\* The integer a text stands for, when it is one of [lo, hi]; a minus sign is
\* only taken by the signed types.
ParseInteger(s, lo, hi) ==
  LET negative == lo < 0 /\ s # Empty /\ s[1] = Minus
      body == IF s # Empty /\ (negative \/ s[1] = Plus) THEN Tail(s) ELSE s
      n == IF negative THEN -DigitsValue(body) ELSE DigitsValue(body)
  IN IF IsNumeric(body) /\ n \in lo..hi THEN <<n>> ELSE <<>>

-----------------------------------------------------------------------------
(* Bytes                                                                   *)

Utf8Of(c) ==
  IF c < 128 THEN <<c>>
  ELSE IF c < 2048 THEN <<192 + c \div 64, 128 + (c % 64)>>
  ELSE IF c < 65536 THEN <<224 + c \div 4096, 128 + ((c \div 64) % 64), 128 + (c % 64)>>
  ELSE <<240 + c \div 262144, 128 + ((c \div 4096) % 64), 128 + ((c \div 64) % 64), 128 + (c % 64)>>

Utf8(s) == FlattenSeq([i \in DOMAIN s |-> Utf8Of(s[i])])

\* The code point that n bytes would stand for.
Decoded(b, n) ==
  IF n = 1 THEN b[1]
  ELSE FoldLeft(LAMBDA acc, x : 64 * acc + x - 128,
                b[1] - (CASE n = 2 -> 192 [] n = 3 -> 224 [] n = 4 -> 240),
                SubSeq(b, 2, n))

\* The text that bytes encode, in a tuple, when they encode one.
FromUtf8(bytes) ==
  LET from[i \in 1..Len(bytes) + 1] ==
        LET fits == {n \in 1..AtMost(4, Len(bytes) + 1 - i) :
                       LET b == SubSeq(bytes, i, i + n - 1)
                       IN /\ Decoded(b, n) \in 0..1114111 /\ Decoded(b, n) \notin 55296..57343
                          /\ Utf8Of(Decoded(b, n)) = b}
        IN IF i > Len(bytes) THEN <<Empty>>
           ELSE IF fits = {} THEN <<>>
           ELSE LET n == CHOOSE n \in fits : TRUE
                    rest == from[i + n]
                IN IF rest = <<>> THEN <<>>
                   ELSE <<<<Decoded(SubSeq(bytes, i, i + n - 1), n)>> \o rest[1]>>
  IN from[1]

HexDigit(n, ten) == IF n < 10 THEN Zero + n ELSE ten + n - 10
HexValue(c) == CASE c \in Digits -> c - Zero
                 [] c \in 65..70 -> c - 55
                 [] c \in 97..102 -> c - 87
                 [] OTHER -> -1
ToHex(bytes) ==
  FlattenSeq([i \in DOMAIN bytes |->
                <<HexDigit(bytes[i] \div 16, 97), HexDigit(bytes[i] % 16, 97)>>])

\* u8::from_str_radix of two digits, which may put a plus sign for the first.
PairValue(c, d) ==
  IF HexValue(d) < 0 \/ (HexValue(c) < 0 /\ c # Plus) THEN -1
  ELSE (IF c = Plus THEN 0 ELSE 16 * HexValue(c)) + HexValue(d)
PairsValue(hex) == [i \in 1..Len(hex) \div 2 |-> PairValue(hex[2 * i - 1], hex[2 * i])]
AllHex(hex) == \A i \in DOMAIN hex : HexValue(hex[i]) >= 0

\* parse_hex_bytes: an even number of digits, perhaps after "0x".
ParseHexBytes(raw) ==
  LET hex == IF IsPrefix(<<Zero, 120>>, raw) THEN SubSeq(raw, 3, Len(raw)) ELSE raw
  IN IF Len(Utf8(hex)) % 2 = 0 /\ AllHex(hex) THEN <<PairsValue(hex)>> ELSE <<>>

-----------------------------------------------------------------------------
(* Encodings: an encoding is a text, a decoding one in a tuple, or nothing. *)

HexEncode(s) == ToHex(Utf8(s))

\* Every pair of bytes is cut out as a text of its own, which panics when it
\* would cut a character, unless a bad pair came before.
HexCuts(s) ==
  LET bytes == Utf8(s)
      values == PairsValue(bytes)
      boundaries == {Len(Utf8(SubSeq(s, 1, n))) : n \in 0..Len(s)}
  IN /\ Len(bytes) % 2 = 0
     /\ \E i \in DOMAIN values :
          /\ ~({2 * i - 2, 2 * i} \subseteq boundaries)
          /\ \A j \in 1..i - 1 : values[j] >= 0

HexDecode(s) ==
  LET values == PairsValue(Utf8(s))
  IN IF Len(Utf8(s)) % 2 = 1 \/ \E i \in DOMAIN values : values[i] < 0 THEN <<>>
     ELSE FromUtf8(values)

\* Letters, digits and a few marks stand for themselves.
Plain == Digits \cup (65..90) \cup (97..122) \cup {45, 95, 46, 126}
UrlEncode(s) ==
  LET bytes == Utf8(s)
  IN FlattenSeq([i \in DOMAIN bytes |->
       IF bytes[i] \in Plain THEN <<bytes[i]>>
       ELSE <<Percent, HexDigit(bytes[i] \div 16, 65), HexDigit(bytes[i] % 16, 65)>>])

\* A percent sign that does not start a pair stands for itself, a plus sign
\* for a space.
UrlDecode(s) ==
  LET bytes == Utf8(s)
      from[i \in 1..Len(bytes) + 3] ==
        IF i > Len(bytes) THEN <<>>
        ELSE IF bytes[i] = Percent /\ i + 2 <= Len(bytes)
        THEN LET value == PairValue(bytes[i + 1], bytes[i + 2])
             IN IF value >= 0 THEN <<value>> \o from[i + 3] ELSE <<Percent>> \o from[i + 1]
        ELSE IF bytes[i] = Plus THEN <<Space>> \o from[i + 1]
        ELSE <<bytes[i]>> \o from[i + 1]
  IN FromUtf8(from[1])

Base64Alphabet ==
  [i \in 1..26 |-> 64 + i] \o [i \in 1..26 |-> 96 + i] \o [i \in 1..10 |-> 47 + i] \o <<43, 47>>

\* Three bytes make four digits; what is missing of the last three is padded.
Base64Group(bytes, i) ==
  LET byte(k) == IF i + k <= Len(bytes) THEN bytes[i + k] ELSE 0
      combined == 65536 * byte(0) + 256 * byte(1) + byte(2)
      digit(d) == Base64Alphabet[1 + ((combined \div d) % 64)]
  IN <<digit(262144), digit(4096),
       IF i + 1 <= Len(bytes) THEN digit(64) ELSE Equals,
       IF i + 2 <= Len(bytes) THEN digit(1) ELSE Equals>>

Base64Encode(bytes) ==
  FlattenSeq([g \in 1..(Len(bytes) + 2) \div 3 |-> Base64Group(bytes, 3 * g - 2)])

\* Padding counts as zero bits wherever it stands.
Base64Value(c) ==
  CASE c = Equals -> 0
    [] \E i \in 1..64 : Base64Alphabet[i] = c -> (CHOOSE i \in 1..64 : Base64Alphabet[i] = c) - 1
    [] OTHER -> -1

Base64Decode(s) ==
  LET c == Utf8(s)
      group(i) ==
        LET combined == 262144 * Base64Value(c[i]) + 4096 * Base64Value(c[i + 1])
                        + 64 * Base64Value(c[i + 2]) + Base64Value(c[i + 3])
        IN <<(combined \div 65536) % 256>>
           \o (IF c[i + 2] # Equals THEN <<(combined \div 256) % 256>> ELSE <<>>)
           \o (IF c[i + 3] # Equals THEN <<combined % 256>> ELSE <<>>)
  IN IF Len(c) % 4 # 0 \/ \E i \in DOMAIN c : Base64Value(c[i]) < 0 THEN <<>>
     ELSE FromUtf8(FlattenSeq([g \in 1..Len(c) \div 4 |-> group(4 * g - 3)]))

-----------------------------------------------------------------------------
(* CSV                                                                     *)

\* push_csv_record: a line with nothing on it is no record.
PushRecord(p) ==
  IF p.data \/ p.field # Empty \/ p.row # <<>>
  THEN [p EXCEPT !.records = Append(@, Append(p.row, p.field)),
                 !.row = <<>>, !.field = Empty, !.data = FALSE]
  ELSE p

\* One code point of parse_csv_records. skip is set on the second of two
\* quotes, and on the line feed after a return, which are taken together.
CsvStep(s, p, i) ==
  LET c == s[i]
      next == IF i < Len(s) THEN s[i + 1] ELSE -1
  IN IF p.skip THEN [p EXCEPT !.skip = FALSE]
     ELSE IF p.quoted THEN
       IF c # Quote THEN [p EXCEPT !.field = Append(@, c)]
       ELSE IF next = Quote THEN [p EXCEPT !.field = Append(@, Quote), !.skip = TRUE]
       ELSE [p EXCEPT !.quoted = FALSE]
     ELSE CASE c = Quote -> [p EXCEPT !.quoted = TRUE, !.data = TRUE]
            [] c = Comma -> [p EXCEPT !.row = Append(@, p.field), !.field = Empty, !.data = TRUE]
            [] c = LineFeed -> PushRecord(p)
            [] c = Return -> [PushRecord(p) EXCEPT !.skip = (next = LineFeed)]
            [] OTHER -> [p EXCEPT !.field = Append(@, c), !.data = TRUE]

ParseCsv(s) ==
  LET start == [records |-> <<>>, row |-> <<>>, field |-> Empty,
                quoted |-> FALSE, data |-> FALSE, skip |-> FALSE]
  IN PushRecord(FoldLeft(LAMBDA p, i : CsvStep(s, p, i), start, [i \in DOMAIN s |-> i])).records

\* Mutant: quotes in a field are not doubled.
CsvFieldUndoubled(s) ==
  IF ToSet(s) \cap {Comma, Quote, LineFeed, Return} = {} THEN s
  ELSE <<Quote>> \o s \o <<Quote>>

\* csv_quote_field
CsvField(s) ==
  IF ToSet(s) \cap {Comma, Quote, LineFeed, Return} = {} THEN s
  ELSE <<Quote>> \o Replace(s, <<Quote>>, <<Quote, Quote>>) \o <<Quote>>

StringifyCsv(rows) ==
  Join([r \in DOMAIN rows |-> Join([f \in DOMAIN rows[r] |-> CsvField(rows[r][f])], <<Comma>>)],
       <<LineFeed>>)

=============================================================================
