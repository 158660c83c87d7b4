----------------------------- MODULE Bitfields ------------------------------
(***************************************************************************)
(* Bitfields: what their fields may hold, and how they become bytes and    *)
(* come back (crates/jett_comptime/src/interpreter.rs, from                *)
(* bitfield_to_bytes on). The fields lie one after the other, each with    *)
(* its first bit the most significant one, except that a field of several  *)
(* whole bytes that starts on a byte has its bytes in reverse, unless the  *)
(* bitfield is in network order.                                           *)
(*                                                                         *)
(* The value of a struct or bitfield is <<"struct", type, values>>, that   *)
(* of an enum <<"enum", type, variant, values>>, that of a machine         *)
(* <<"machine", type, state, values>>, in the order of the declaration.    *)
(***************************************************************************)
EXTENDS Declarations

Struct(t, values) == <<"struct", t, values>>
Enum(t, variant, values) == <<"enum", t, variant, values>>
Machine(t, state, values) == <<"machine", t, state, values>>

Owner(v) == v[2]
Member(v) == v[3]
Held(v) == v[Len(v)]

-----------------------------------------------------------------------------
(* Bits                                                                    *)

\* The width bits of n, and the number that bits are.
BitsOf(n, width) == [i \in 1..width |-> (n \div 2^(width - i)) % 2]
NumberOf(bits) == FoldLeft(LAMBDA n, bit : 2 * n + bit, 0, bits)

\* Whole bytes, the last of them first.
BytesReversed(bits) ==
  [i \in DOMAIN bits |->
     bits[Len(bits) - ByteBits * ((i - 1) \div ByteBits + 1) + ((i - 1) % ByteBits) + 1]]

\* bits_to_bytes: the last byte is filled with zeros. And back.
ByteCount(bits) == (bits + ByteBits - 1) \div ByteBits
ToByteSeq(bits) ==
  [b \in 1..ByteCount(Len(bits)) |->
     NumberOf([i \in 1..ByteBits |->
                 IF ByteBits * (b - 1) + i <= Len(bits) THEN bits[ByteBits * (b - 1) + i] ELSE 0])]
ToBitSeq(bytes) == FlattenSeq([b \in DOMAIN bytes |-> BitsOf(bytes[b], ByteBits)])

\* Where the bits of field i start.
Offset(fields, i) == FoldLeft(LAMBDA sum, f : sum + f.width, 0, SubSeq(fields, 1, i - 1))

\* push_encoded_bits and decode_bitfield_value.
Reversed(fields, i, network) ==
  /\ fields[i].width > ByteBits
  /\ fields[i].width % ByteBits = 0
  /\ ~network
  /\ Offset(fields, i) % ByteBits = 0

Ordered(bits, fields, i, network) ==
  IF Reversed(fields, i, network) THEN BytesReversed(bits) ELSE bits

-----------------------------------------------------------------------------
(* What a field holds: <<number>>, or <<>> where the value is refused      *)

Fits(n, width) == n < 2^width

\* plain_bitfield_field_numeric_value
PlainNumber(field, v) ==
  IF Kind(v) \in {"int64", "uint64"} /\ Contents(v) >= 0 /\ Fits(Contents(v), field.width)
  THEN <<Contents(v)>> ELSE <<>>

\* enum_numeric_value: a name that is no enum's has no variants.
EnumNumber(t, variant) ==
  LET named == IF IsDeclared(t, {"enum"})
               THEN {i \in DOMAIN Decls[t].variants : Decls[t].variants[i].name = variant} ELSE {}
  IN IF named = {} THEN <<>>
     ELSE LET n == Discriminant(Decls[t].variants, Min(named))
          IN IF n >= 0 THEN <<n>> ELSE <<>>

\* bitfield_field_numeric_value, with the enum under the given name.
AnnotatedNumber(field, t, v) ==
  IF Kind(v) = "enum" /\ Held(v) = <<>> /\ Owner(v) = t
  THEN SelectSeq(EnumNumber(t, Member(v)), LAMBDA n : Fits(n, field.width))
  ELSE <<>>

FieldNumber(field, v) ==
  IF IsPlain(field) THEN PlainNumber(field, v) ELSE AnnotatedNumber(field, field.as[1], v)

\* normalized_plain_bitfield_field_value: only a field as wide as a word holds
\* a uint64.
NormalizedPlain(field, v) ==
  LET number == PlainNumber(field, v)
  IN IF number = <<>> THEN <<>>
     ELSE <<IF field.width = WordBits THEN Uint64(number[1]) ELSE Int64(number[1])>>

\* value_to_byte_list
PayloadBytes(v) ==
  CASE Kind(v) = "bytes" -> <<Contents(v)>>
    [] Kind(v) = "list" ->
         IF \A i \in DOMAIN Contents(v) :
              Kind(Contents(v)[i]) = "int64" /\ Contents(Contents(v)[i]) \in 0..(2^ByteBits - 1)
         THEN <<[i \in DOMAIN Contents(v) |-> Contents(Contents(v)[i])]>> ELSE <<>>
    [] OTHER -> <<>>

-----------------------------------------------------------------------------
(* To bytes                                                                *)

Encodes(field, v) ==
  IF IsPayload(field) THEN PayloadBytes(v) # <<>> ELSE FieldNumber(field, v) # <<>>

\* encode_bitfield_value, of a bitfield whose payload, if any, is the last of
\* its fields and starts on a byte, as the checker demands.
ToBytes(t, v) ==
  LET d == Decls[t]
      bits == [i \in DOMAIN d.fields |->
                 IF IsPayload(d.fields[i]) THEN <<>>
                 ELSE Ordered(BitsOf(FieldNumber(d.fields[i], Held(v)[i])[1], d.fields[i].width),
                              d.fields, i, d.network)]
      payload == [i \in DOMAIN d.fields |->
                    IF IsPayload(d.fields[i]) THEN PayloadBytes(Held(v)[i])[1] ELSE <<>>]
  IN IF /\ Kind(v) = "struct" /\ Owner(v) = t
        /\ \A i \in DOMAIN d.fields : Encodes(d.fields[i], Held(v)[i])
     THEN Gives(Bytes(ToByteSeq(FlattenSeq(bits)) \o FlattenSeq(payload)))
     ELSE Fails

-----------------------------------------------------------------------------
(* From bytes                                                              *)

\* enum_value_from_numeric: the first variant with the number.
VariantNumbered(t, n) ==
  LET numbered == IF IsDeclared(t, {"enum"})
                  THEN {i \in DOMAIN Decls[t].variants : Discriminant(Decls[t].variants, i) = n}
                  ELSE {}
  IN IF numbered = {} THEN <<>> ELSE <<Enum(t, Decls[t].variants[Min(numbered)].name, <<>>)>>

\* The value of field i, <<>> where its bits are missing or mean nothing.
Decoded(d, i, bits) ==
  LET field == d.fields[i]
      from == Offset(d.fields, i)
      number == NumberOf(Ordered(SubSeq(bits, from + 1, from + field.width), d.fields, i, d.network))
      rest == ToByteSeq(SubSeq(bits, from + 1, Len(bits)))
  IN IF from + field.width > Len(bits) THEN <<>>
     ELSE CASE IsPayload(field) -> <<List([k \in DOMAIN rest |-> Int64(rest[k])])>>
            [] IsPlain(field) ->
                 <<IF field.width = WordBits THEN Uint64(number) ELSE Int64(number)>>
            [] OTHER -> VariantNumbered(field.as[1], number)

\* Mutant: bytes that are left over are ignored.
ConsumedAtMost(d, bits) ==
  ByteCount(Offset(d.fields, Len(d.fields) + 1)) <= Len(bits) \div ByteBits

\* The bits of the last byte that no field has are ignored, a byte is not.
Consumed(d, bits) ==
  \/ IsPayload(Last(d.fields))
  \/ ByteCount(Offset(d.fields, Len(d.fields) + 1)) = Len(bits) \div ByteBits

\* bitfield_from_bytes: a result, that is a failure where the bytes do not fit.
FromBytes(t, bytes) ==
  LET d == Decls[t]
      bits == ToBitSeq(bytes)
  IN IF Consumed(d, bits) /\ \A i \in DOMAIN d.fields : Decoded(d, i, bits) # <<>>
     THEN ResultOk(Struct(t, [i \in DOMAIN d.fields |-> Decoded(d, i, bits)[1]]))
     ELSE ResultFail(String(<<>>))

=============================================================================
