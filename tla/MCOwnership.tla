---------------------------- MODULE MCOwnership ----------------------------
(***************************************************************************)
(* Bodies for Ownership: a few statements around one construct of each     *)
(* kind, over an owned mutable parameter x and a view v.                   *)
(***************************************************************************)
EXTENDS Ownership

Stmt(op, name) == [op |-> op, name |-> name]
Skip == [op |-> "skip"]
Return == [op |-> "return"]
Break == [op |-> "break"]

Info(state, mutable) == [state |-> state, mutable |-> mutable, copyable |-> FALSE]
XandV == [x |-> Info("Owned", TRUE), v |-> Info("Viewed", FALSE)]

Simple == {Stmt("use", "x"), Stmt("consume", "x"), Stmt("rebind", "x"), Return}
Conds == {Skip, Stmt("consume", "x")}

\* Blocks of at most two statements of S.
AtMostOne(S) == {<<>>} \union {<<a>> : a \in S}
AtMostTwo(S) == AtMostOne(S) \union {<<a, b>> : a, b \in S}

If(branches, otherwise) == [op |-> "if", branches |-> branches, otherwise |-> otherwise]
Branch(cond, block) == [cond |-> cond, block |-> block]

Ifs(conds, blocks) ==
  {If(<<Branch(c, b)>>, e) : c \in conds, b \in blocks, e \in blocks \union {NoBlock}}
ElseIfs(conds, blocks) ==
  {If(<<Branch(c, b), Branch(d, f)>>, e) :
     c, d \in conds, b, f \in blocks, e \in blocks \union {NoBlock}}
Nested ==
  LET inner == Ifs({Skip}, AtMostOne(Simple))
  IN  {If(<<Branch(Skip, <<i>> \o s)>>, e) :
         i \in inner, s \in AtMostOne(Simple), e \in AtMostOne(Simple) \union {NoBlock}}

Whiles(blocks) == {[op |-> "while", cond |-> c, block |-> b] : c \in Conds, b \in blocks}
Fors(blocks) ==
  {[op |-> "for", name |-> "x", view |-> w, variable |-> "item", block |-> b] :
     w \in BOOLEAN, b \in blocks}
Matches(blocks) == {[op |-> "match", arms |-> <<a, b>>] : a, b \in blocks}
Handles(blocks) ==
  {[op |-> "handle", target |-> t, block |-> b] : t \in Conds, b \in blocks}
Inlines(blocks) == {[op |-> "inline", block |-> b] : b \in blocks}

\* A construct, with at most one statement before and one after it.
Around(constructs, S) ==
  {pre \o <<c>> \o post : pre \in AtMostOne(S), c \in constructs, post \in AtMostOne(S)}

Branches ==
  Ifs(Conds, AtMostTwo(Simple)) \union ElseIfs(Conds, AtMostOne(Simple))
    \union Ifs({Skip}, AtMostTwo({Stmt("consume", "v"), Return})) \union Nested

Loops ==
  Whiles(AtMostTwo(Simple \union {Break}))
    \union Whiles({<<i>> \o s : i \in Ifs({Skip}, AtMostOne(Simple \union {Break})), s \in AtMostOne(Simple)})
    \union Whiles({<<If(<<Branch(Skip, <<s, Break>>)>>, NoBlock), t>> : s, t \in Simple})
    \union Fors(AtMostTwo({Stmt("use", "x"), Stmt("consume", "x"), Stmt("use", "item"), Break}))

\* Blocks of which one is executed, or none.
Arms ==
  Matches(AtMostOne(Simple)) \union Matches(AtMostTwo(Simple \ {Stmt("rebind", "x")}))
    \union Handles(AtMostTwo(Simple)) \union Inlines(AtMostTwo(Simple))

AllPrograms == Around(Branches \union Loops \union Arms, Simple \ {Return})

=============================================================================
