--------------------------- MODULE MCConstruction ---------------------------
(***************************************************************************)
(* Types of every kind, of a namespace and of none, some fields of which   *)
(* are written without their namespace, and a generic function of the      *)
(* namespace that another one of no namespace calls with them.             *)
(***************************************************************************)
EXTENDS Construction

Small == Type("n", "Small")
Count == Type(None, "Count")
Pair == Type("n", "Pair")
Shape == Type(None, "Shape")
Mode == Type("n", "Mode")
Flags == Type("n", "Flags")
Packet == Type(None, "Packet")
Wide == Type(None, "Wide")
Door == Type(None, "Door")
Node == Type("n", "Node")
Key == Type("n", "Key")

FieldOf(name, t) == [name |-> name, type |-> t]
Variant(name, value, fields) == [name |-> name, value |-> value, fields |-> fields]
State(name, fields) == [name |-> name, fields |-> fields]

MCTypes ==
     Small :> [kind |-> "refinement", base |-> Int64T, range |-> 1..2]
  @@ Count :> [kind |-> "alias", base |-> Uint64T]
  @@ Pair :> [kind |-> "struct",
              fields |-> <<FieldOf("a", Type(None, "Small")), FieldOf("b", Count)>>]
  @@ Shape :> [kind |-> "enum",
               variants |-> <<Variant("dot", <<>>, <<>>),
                              Variant("box", <<>>, <<FieldOf("side", Small), FieldOf("depth", Small)>>)>>]
  @@ Mode :> [kind |-> "enum",
              variants |-> <<Variant("off", <<>>, <<>>), Variant("on", <<2>>, <<>>)>>]
  @@ Flags :> [kind |-> "bitfield", network |-> TRUE,
               fields |-> <<EnumBits("mode", 2, Mode), Bits("size", 4)>>]
  @@ Packet :> [kind |-> "bitfield", network |-> FALSE,
                fields |-> <<EnumBits("mode", 2, Mode), Bits("size", 4), Payload("tail")>>]
  @@ Wide :> [kind |-> "bitfield", network |-> FALSE,
              fields |-> <<Bits("odd", 1), Bits("word", 6), Bits("low", 4)>>]
  @@ Door :> [kind |-> "machine",
              states |-> <<State("open", <<>>), State("shut", <<FieldOf("code", Small)>>)>>,
              edges |-> <<<<"open", "shut">>, <<"shut", "open">>>>]
  @@ Node :> [kind |-> "struct",
              fields |-> <<FieldOf("next", Generic("list", <<Type(None, "Node")>>)),
                           FieldOf("key", Generic("list", <<Type(None, "Key")>>))>>]
  @@ Key :> [kind |-> "struct",
             fields |-> <<FieldOf("owner", Generic("list", <<Node>>)),
                          FieldOf("token", Generic("secret", <<Int64T>>))>>]

T == Type(None, "T")
U == Type(None, "U")

MCProgram ==
     "main" :> [home |-> None, params |-> <<>>, reflects |-> FALSE, calls |-> {"n.gen", "codec"},
                types |-> {Pair, Shape, Packet, Door, At(Door, "shut"), Generic("list", <<Pair>>)}]
  @@ "n.gen" :> [home |-> "n", params |-> <<"T">>, reflects |-> TRUE, calls |-> {"n.gen"},
                 types |-> {T, U}]
  @@ "codec" :> [home |-> None, params |-> <<>>, reflects |-> FALSE, calls |-> {}, types |-> {Wide}]

MCGiven ==
  {Int64(1), Int64(2), Int64(20), Uint64(37), List(<<Int64(2)>>), Enum(Mode, "on", <<>>)}

MCReceived == {<<0, 3, 1>>, <<2, 1, 2>>, <<1, 1, 1>>, <<2, 1>>, <<2, 1, 3, 2>>, <<3, 2, 1, 0, 1, 3>>,
               <<3, 2, 1, 0, 1, 3, 1>>}

=============================================================================
