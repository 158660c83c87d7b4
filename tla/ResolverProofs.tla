--------------------------- MODULE ResolverProofs ---------------------------
(***************************************************************************)
(* For every set of programs.  What a name of the top level means depends  *)
(* on namespaces, visibility and order alone, and no item is passed over   *)
(* (TopLevelNames): the scope table is a tree in which a top-level         *)
(* definition is bound under its own name only and is never bound over,    *)
(* and the namespace the walk tracks is the one the item is in.  Within an *)
(* item a name means the nearest local (LexicalScoping): the stack of      *)
(* forms is nested as the source is, along the open scopes the later of    *)
(* two definitions of a name is the inner one, and the mentions the        *)
(* resolver keeps account for every use it notes.                          *)
(***************************************************************************)
EXTENDS Resolver, SequenceFacts

-----------------------------------------------------------------------------
(* The inductive invariant.                                                *)

FrameFields == {"form", "at", "entry", "scope", "added", "callee", "pastUse"}
OutFields == {"mentions", "used", "aliases", "vars", "uses", "diagnostics"}

\* The scopes are a tree with the root scope at its root, names in the others
\* have one segment, and what is bound is defined.
Linked(t) ==
  /\ DOMAIN t = {"defs", "scopes"}
  /\ t.defs \in Seq(Range(t.defs)) /\ t.scopes \in Seq(Range(t.scopes))
  /\ t.scopes # <<>> /\ t.scopes[Root].parent = 0
  /\ \A s \in 2..Len(t.scopes) : t.scopes[s].parent \in 1..(s - 1)
  /\ \A s \in 1..Len(t.scopes) :
       DOMAIN t.scopes[s] = {"bind", "parent"}
  /\ \A s \in 1..Len(t.scopes) : \A n \in DOMAIN t.scopes[s].bind :
       /\ t.scopes[s].bind[n] \in 1..Len(t.defs)
       /\ s # Root => Len(n) = 1

\* A construct's scope is there between its push and its pop.
FrameOK(f, t) ==
  /\ DOMAIN f = FrameFields
  /\ f.form \in DOMAIN Script /\ f.at \in Nat \ {0}
  /\ (\E k \in 1..(f.at - 1) : Script[f.form][k] = "push")
       => f.scope \in 2..Len(t.scopes)
FramesOK(fs, t) ==
  fs \in Seq(Range(fs)) /\ \A i \in 1..Len(fs) : FrameOK(fs[i], t)

Shapes ==
  /\ program \in Programs
  /\ Linked(table)
  /\ current \in 1..Len(table.scopes)
  /\ DOMAIN top = {"order", "mutual", "bodies"}
  /\ DOMAIN out = OutFields
  /\ \A d \in DOMAIN out.aliases : out.aliases[d] \in Seq(Words)
  /\ FramesOK(frames, table)

\* While an item is walked, namespace and file are those it is in; between
\* two items, those of the item before.
Walk ==
  /\ index \in 1..(Len(Items) + 1)
  /\ pass # "reference" => frames = <<>>
  /\ pass = "declare" => out.mentions = {}
  /\ frames # <<>> =>
       /\ index <= Len(Items)
       /\ namespace = NamespaceAt(index)
       /\ file = Items[index].file
  /\ frames = <<>> /\ pass \in {"declare", "reference"} =>
       IF index = 1 THEN namespace = None
       ELSE /\ namespace = NamespaceAt(index - 1)
            /\ file = Items[index - 1].file

Declaring(i) == i \in DOMAIN Items /\ (pass = "declare" => i < index)

\* What an item declared is bound at the root, with the item's namespace.
Declares(n) ==
  LET d == top.order[n].def
      i == top.order[n].item
  IN /\ d \in 1..Len(table.defs) /\ Declaring(i)
     /\ n \in DOMAIN table.scopes[Root].bind
     /\ table.scopes[Root].bind[n] = d
     /\ table.defs[d].item = i
     /\ table.defs[d].vis \in {"Public", "Private"}
     /\ table.defs[d].ns \in {None, NamespaceAt(i)}
     /\ table.defs[d].ns # None => /\ n = table.defs[d].ns \o Items[i].name
                                   /\ Len(Items[i].name) = 1
     /\ table.defs[d].kind = "Namespace" =>
          Items[i].kind = "Namespace" /\ Items[i].name = n
BoundOnce ==
  \A s \in 1..Len(table.scopes) : \A n \in DOMAIN table.scopes[s].bind :
    \A k \in DOMAIN top.order :
      top.order[k].def = table.scopes[s].bind[n] => k = n
NamespacesDeclared ==
  pass = "declare" =>
    \A n \in DOMAIN table.scopes[Root].bind :
      table.defs[table.scopes[Root].bind[n]].kind = "Namespace" =>
        n \in DOMAIN top.order
Declarations ==
  /\ \A n \in DOMAIN top.order : Declares(n)
  /\ BoundOnce
  /\ NamespacesDeclared

\* The names of the items so far are taken, and a function that a mutual block
\* declared has its body from the first item of its name.
Taken ==
  /\ \A i \in DOMAIN Items : Declaring(i) =>
       /\ Accounted(i)
       /\ Items[i].kind \in Named \union {"Mutual"} =>
            NameAt(i) \in DOMAIN table.scopes[Root].bind
  /\ DOMAIN top.mutual \subseteq DOMAIN table.scopes[Root].bind
  /\ pass = "declare" =>
       \A i \in DOMAIN Items :
         Declaring(i) /\ Items[i].kind = "Function"
           /\ NameAt(i) \in DOMAIN top.mutual => NameAt(i) \in top.bodies

Fine(m) ==
  /\ m.scope \in 1..Len(table.scopes) /\ m.after \in 0..Len(table.defs)
  /\ ReachesByRule(m) /\ OwnFirst(m)

IInv ==
  /\ Shapes /\ Walk /\ Declarations /\ Taken
  /\ \A m \in out.mentions : Fine(m)

-----------------------------------------------------------------------------
(* The tree of scopes.                                                     *)

LEMMA LargestOf ==
  ASSUME NEW b \in Nat, NEW S \in SUBSET (0..b), S # {}
  PROVE  Max(S) \in S /\ \A y \in S : y <= Max(S)
<1>1. Max(S) \in S /\ \A y \in S : Max(S) >= y
  BY GreatestNatural DEF Max
<1> QED BY <1>1

\* A chain is the scope itself and the chain of its parent.
LEMMA ChainEquations ==
  ASSUME NEW t, Linked(t)
  PROVE  /\ Chain(t, Root) = {Root}
         /\ \A s \in 2..Len(t.scopes) :
              Chain(t, s) = {s} \union Chain(t, t.scopes[s].parent)
<1> DEFINE N == Len(t.scopes)
           P(i) == t.scopes[i].parent
           Up(g, i) == IF i = 0 THEN {} ELSE {i} \union g[P(i)]
<1>1. /\ N \in Nat \ {0} /\ P(1) = 0
      /\ \A i \in 1..N : P(i) \in 0..(i - 1)
  BY EmptySeq DEF Linked, Root
<1> HIDE DEF N, P
<1> DEFINE T == {n \in Nat : n <= N =>
                  \E g : g = [i \in 0..n |-> Up(g, i)]}
<1>2. 0 \in T
  <2> DEFINE g == [i \in 0..0 |-> {}]
  <2>1. g = [i \in 0..0 |-> Up(g, i)]
    OBVIOUS
  <2> QED BY <2>1
<1>3. \A n \in T : n + 1 \in T
  <2> TAKE n \in T
  <2> SUFFICES ASSUME n + 1 <= N
               PROVE  \E g : g = [i \in 0..(n + 1) |-> Up(g, i)]
    OBVIOUS
  <2>1. n \in Nat /\ n <= N
    BY <1>1
  <2>2. PICK g : g = [i \in 0..n |-> Up(g, i)]
    BY <2>1
  <2> DEFINE h == [i \in 0..(n + 1) |-> IF i <= n THEN g[i] ELSE Up(g, i)]
  <2>3. \A i \in 0..n : h[i] = g[i]
    BY <2>1
  <2>4. \A i \in 1..(n + 1) : P(i) \in 0..n
    BY <1>1, <2>1
  <2>5. \A i \in 0..(n + 1) : h[i] = Up(h, i)
    <3> TAKE i \in 0..(n + 1)
    <3>1. i \in 0..n => h[i] = Up(g, i)
      BY <2>2, <2>3
    <3>2. i = n + 1 => h[i] = Up(g, i)
      BY <2>1
    <3>3. Up(g, i) = Up(h, i)
      <4>1. i # 0 => h[P(i)] = g[P(i)]
        BY <2>1, <2>3, <2>4
      <4> QED BY <4>1
    <3> QED BY <2>1, <3>1, <3>2, <3>3
  <2>6. h = [i \in 0..(n + 1) |-> Up(h, i)]
    BY <2>5
  <2> QED BY <2>6
<1>4. N \in T
  <2>1. T \in SUBSET Nat
    OBVIOUS
  <2> HIDE DEF T
  <2> QED BY <1>1, <1>2, <1>3, <2>1, Inductive
<1>5. \E g : g = [i \in 0..N |-> Up(g, i)]
  BY <1>1, <1>4
<1> DEFINE up == CHOOSE g : g = [i \in 0..N |-> Up(g, i)]
<1>6. up = [i \in 0..N |-> Up(up, i)]
  BY <1>5
<1>7. \A s : Chain(t, s) = up[s]
  BY DEF Chain, N, P
<1> HIDE DEF up
<1>8. up[1] = {1} /\ \A s \in 2..N : up[s] = {s} \union up[P(s)]
  BY <1>1, <1>6
<1> QED BY <1>7, <1>8 DEF N, P, Root

\* A chain holds its scope and the root, and scopes that come before it.
LEMMA ChainOf ==
  ASSUME NEW t, Linked(t), NEW s \in 1..Len(t.scopes)
  PROVE  /\ Chain(t, s) \subseteq 1..s
         /\ s \in Chain(t, s) /\ Root \in Chain(t, s)
<1> DEFINE N == Len(t.scopes)
           Good(i) == /\ Chain(t, i) \subseteq 1..i
                      /\ i \in Chain(t, i) /\ 1 \in Chain(t, i)
           T == {n \in Nat : \A i \in 1..N : i <= n => Good(i)}
<1>1. /\ N \in Nat \ {0} /\ Chain(t, 1) = {1}
      /\ \A i \in 2..N : /\ t.scopes[i].parent \in 1..(i - 1)
                         /\ Chain(t, i) = {i} \union Chain(t, t.scopes[i].parent)
  BY EmptySeq, ChainEquations DEF Linked, Root
<1>2. 0 \in T
  BY <1>1
<1>3. ASSUME NEW n \in T PROVE n + 1 \in T
  <2> SUFFICES ASSUME NEW i \in 1..N, i = n + 1 PROVE Good(i)
    BY <1>1
  <2>1. CASE i = 1
    BY <1>1, <2>1
  <2>2. CASE i # 1
    <3> DEFINE p == t.scopes[i].parent
    <3>1. i \in 2..N /\ p \in 1..(i - 1) /\ p \in 1..N /\ p <= n
      BY <1>1, <2>2
    <3>2. Good(p)
      BY <3>1
    <3>3. Chain(t, i) = {i} \union Chain(t, p)
      BY <1>1, <3>1
    <3> HIDE DEF p
    <3> QED BY <3>1, <3>2, <3>3
  <2> QED BY <2>1, <2>2
<1>4. N \in T
  <2>1. T \in SUBSET Nat
    OBVIOUS
  <2> HIDE DEF T
  <2> QED BY <1>1, <1>2, <1>3, <2>1, Inductive
<1> QED BY <1>1, <1>4 DEF Root

LEMMA Lengths ==
  ASSUME NEW t, Linked(t)
  PROVE  /\ Len(t.scopes) \in Nat \ {0} /\ DOMAIN t.scopes = 1..Len(t.scopes)
         /\ Len(t.defs) \in Nat /\ DOMAIN t.defs = 1..Len(t.defs)
         /\ Root \in 1..Len(t.scopes)
BY EmptySeq, LenProperties DEF Linked, Root

\* Scopes that are added leave the chains of the others as they are.
LEMMA ChainKept ==
  ASSUME NEW t, NEW u, Linked(t), Linked(u), Len(t.scopes) <= Len(u.scopes),
         \A i \in 1..Len(t.scopes) : u.scopes[i].parent = t.scopes[i].parent
  PROVE  \A s \in 1..Len(t.scopes) : Chain(u, s) = Chain(t, s)
<1> DEFINE N == Len(t.scopes)
           T == {n \in Nat : \A i \in 1..N : i <= n => Chain(u, i) = Chain(t, i)}
<1>1. /\ N \in Nat \ {0} /\ Len(u.scopes) \in Nat
      /\ Chain(t, 1) = {1} /\ Chain(u, 1) = {1}
      /\ \A i \in 2..N : /\ t.scopes[i].parent \in 1..(i - 1)
                         /\ Chain(t, i) = {i} \union Chain(t, t.scopes[i].parent)
                         /\ Chain(u, i) = {i} \union Chain(u, t.scopes[i].parent)
  <2>1. N \in Nat \ {0} /\ Len(u.scopes) \in Nat
    BY Lengths
  <2>2. Chain(t, 1) = {1} /\ Chain(u, 1) = {1}
    BY ChainEquations DEF Root
  <2>3. ASSUME NEW i \in 2..N
        PROVE  /\ t.scopes[i].parent \in 1..(i - 1)
               /\ Chain(t, i) = {i} \union Chain(t, t.scopes[i].parent)
               /\ Chain(u, i) = {i} \union Chain(u, t.scopes[i].parent)
    <3>1. i \in 2..Len(u.scopes) /\ i \in 1..N
      BY <2>1
    <3>2. t.scopes[i].parent \in 1..(i - 1)
      BY DEF Linked
    <3>3. Chain(t, i) = {i} \union Chain(t, t.scopes[i].parent)
      BY ChainEquations
    <3>4. Chain(u, i) = {i} \union Chain(u, u.scopes[i].parent)
      BY <3>1, ChainEquations
    <3> QED BY <3>1, <3>2, <3>3, <3>4
  <2> QED BY <2>1, <2>2, <2>3
<1>2. 0 \in T
  BY <1>1
<1>3. ASSUME NEW n \in T PROVE n + 1 \in T
  <2> SUFFICES ASSUME NEW i \in 1..N, i = n + 1 PROVE Chain(u, i) = Chain(t, i)
    BY <1>1
  <2>1. CASE i = 1
    BY <1>1, <2>1
  <2>2. CASE i # 1
    <3> DEFINE p == t.scopes[i].parent
    <3>1. i \in 2..N /\ p \in 1..(i - 1) /\ p \in 1..N /\ p <= n
      BY <1>1, <2>2
    <3>2. Chain(u, p) = Chain(t, p)
      BY <3>1
    <3>3. Chain(t, i) = {i} \union Chain(t, p) /\ Chain(u, i) = {i} \union Chain(u, p)
      BY <1>1, <3>1
    <3> HIDE DEF p
    <3> QED BY <3>2, <3>3
  <2> QED BY <2>1, <2>2
<1>4. N \in T
  <2>1. T \in SUBSET Nat
    OBVIOUS
  <2> HIDE DEF T
  <2> QED BY <1>1, <1>2, <1>3, <2>1, Inductive
<1> QED BY <1>1, <1>4

\* A name that is found is bound to what was found in one of the scopes that
\* were searched, the last of those that bind it.
LEMMA FoundIn ==
  ASSUME NEW t, Linked(t), NEW s \in 1..Len(t.scopes), NEW name,
         NEW among \in SUBSET Binders(t, s, name)
  PROVE  /\ among = {} => Found(t, among, name) = 0
         /\ among # {} =>
              /\ Max(among) \in among /\ \A i \in among : i <= Max(among)
              /\ Max(among) \in 1..Len(t.scopes)
              /\ name \in DOMAIN t.scopes[Max(among)].bind
              /\ Found(t, among, name) = t.scopes[Max(among)].bind[name]
              /\ Found(t, among, name) \in 1..Len(t.defs)
<1>1. CASE among = {}
  BY <1>1 DEF Found
<1>2. CASE among # {}
  <2>1. Len(t.scopes) \in Nat
    BY LenProperties DEF Linked
  <2>2. among \subseteq 0..s /\ among \subseteq 1..Len(t.scopes)
    BY <2>1, ChainOf DEF Binders
  <2>3. Max(among) \in among /\ \A i \in among : i <= Max(among)
    <3>1. s \in Nat
      BY <2>1
    <3> QED BY <1>2, <2>2, <3>1, LargestOf
  <2>4. name \in DOMAIN t.scopes[Max(among)].bind
    BY <2>3 DEF Binders
  <2>5. Found(t, among, name) = t.scopes[Max(among)].bind[name]
    BY <1>2 DEF Found
  <2>6. t.scopes[Max(among)].bind[name] \in 1..Len(t.defs)
    BY <2>2, <2>3, <2>4 DEF Linked
  <2>7. Max(among) \in 1..Len(t.scopes)
    BY <2>2, <2>3
  <2> QED BY <1>2, <2>3, <2>4, <2>5, <2>6, <2>7
<1> QED BY <1>1, <1>2

\* At the root, nothing is found but what the root binds.
LEMMA FoundAtRoot ==
  ASSUME NEW t, Linked(t), NEW name
  PROVE  LookupLocal(t, Root, name)
           = IF name \in DOMAIN t.scopes[Root].bind
             THEN t.scopes[Root].bind[name] ELSE 0
<1>1. Chain(t, Root) = {Root}
  BY ChainEquations
<1>2. Max({Root}) = Root
  BY DEF Max, Root
<1> QED BY <1>1, <1>2 DEF LookupLocal, Binders, Found

-----------------------------------------------------------------------------
(* Namespaces and names.                                                   *)

LEMMA ItemsType ==
  ASSUME program \in Programs
  PROVE  /\ Len(Items) \in Nat /\ DOMAIN Items = 1..Len(Items)
         /\ \A i \in 1..Len(Items) :
              /\ Items[i].kind \in ItemKinds /\ Items[i].name \in Seq(Words)
              /\ Items[i].kind \in OneSegment => Len(Items[i].name) = 1
              /\ Items[i].kind = "Namespace" => Items[i].name # <<>>
BY ProgramsHoldNames, LenProperties DEF Items

\* The namespace of an item is its name, if it is a namespace, and else that
\* of the item above in the same file.
LEMMA NamespaceStep ==
  ASSUME program \in Programs, NEW i \in 1..Len(Items)
  PROVE  /\ NamespaceAt(i) =
              IF Items[i].kind = "Namespace" THEN Items[i].name
              ELSE IF i = 1 \/ Items[i].file # Items[i - 1].file THEN None
              ELSE NamespaceAt(i - 1)
         /\ NamespaceAt(i) = None
            \/ \E j \in 1..i : /\ Items[j].kind = "Namespace"
                               /\ NamespaceAt(i) = Items[j].name
<1> DEFINE Above(n) == {j \in 1..n : /\ Items[j].kind = "Namespace"
                                    /\ \A k \in j..n : Items[k].file = Items[n].file}
<1>1. Len(Items) \in Nat
  BY ItemsType
<1>2. \A n : NamespaceAt(n) = IF Above(n) = {} THEN None
                              ELSE Items[Max(Above(n))].name
  BY DEF NamespaceAt
<1>3. Above(i) # {} => /\ Max(Above(i)) \in Above(i)
                       /\ \A y \in Above(i) : y <= Max(Above(i))
  <2>1. Above(i) \subseteq 0..i /\ i \in Nat
    BY <1>1
  <2> HIDE DEF Above
  <2> QED BY <2>1, LargestOf
<1>4. CASE Items[i].kind = "Namespace"
  <2>1. i \in Above(i)
    BY <1>1, <1>4
  <2>2. Max(Above(i)) = i
    BY <1>1, <1>3, <2>1
  <2> HIDE DEF Above
  <2> QED BY <1>1, <1>2, <1>4, <2>1, <2>2
<1>5. CASE Items[i].kind # "Namespace" /\ (i = 1 \/ Items[i].file # Items[i - 1].file)
  <2>1. Above(i) = {}
    <3> SUFFICES ASSUME NEW j \in Above(i) PROVE FALSE
      OBVIOUS
      <3>1. j # i
        BY <1>5
      <3>2. i - 1 \in j..i /\ i \in j..i /\ i # 1
        BY <1>1, <3>1
      <3> QED BY <1>5, <3>2
  <2> HIDE DEF Above
  <2> QED BY <1>2, <1>5, <2>1
<1>6. CASE Items[i].kind # "Namespace" /\ i # 1 /\ Items[i].file = Items[i - 1].file
  <2>1. Above(i) = Above(i - 1)
    <3>1. ASSUME NEW j \in Above(i) PROVE j \in Above(i - 1)
      <4>1. j # i
        BY <1>6
      <4>2. j \in 1..(i - 1) /\ \A k \in j..(i - 1) : k \in j..i
        BY <1>1, <4>1
      <4> QED BY <1>6, <4>2
    <3>2. ASSUME NEW j \in Above(i - 1) PROVE j \in Above(i)
      <4>1. j \in 1..i /\ \A k \in j..i : k \in j..(i - 1) \/ k = i
        BY <1>1
      <4> QED BY <1>6, <4>1
    <3> QED BY <3>1, <3>2
  <2>2. NamespaceAt(i) = NamespaceAt(i - 1)
    <3> HIDE DEF Above
    <3> QED BY <1>2, <2>1, <1>6 DEF NamespaceAt
  <2>3. Above(i) # {} => /\ Max(Above(i)) \in 1..i
                         /\ Items[Max(Above(i))].kind = "Namespace"
    BY <1>3
  <2> HIDE DEF Above
  <2> QED BY <1>2, <1>6, <2>2, <2>3
<1> QED BY <1>4, <1>5, <1>6

\* A namespace is a sequence of segments, and None is no item's name.
LEMMA NamespaceType ==
  ASSUME program \in Programs, NEW i \in 1..Len(Items)
  PROVE  /\ NamespaceAt(i) \in Seq(Words)
         /\ NamespaceAt(i) # None => Len(NamespaceAt(i)) \in Nat \ {0}
<1>1. None \in Seq(Words)
  BY EmptySeq DEF None
<1>2. Len(Items) \in Nat /\ \A j \in 1..i : Items[j].name \in Seq(Words)
  BY ItemsType
<1>3. NamespaceAt(i) \in Seq(Words)
  BY <1>1, <1>2, NamespaceStep
<1> QED BY <1>3, EmptySeq DEF None

LEMMA OneSegmentMore ==
  ASSUME NEW a \in Seq(Words), NEW x \in Seq(Words), Len(x) = 1
  PROVE  /\ a \o x \in Seq(Words) /\ Len(a) \in Nat /\ Len(a \o x) = Len(a) + 1
         /\ \A i \in 1..(Len(a) + 1) :
              (a \o x)[i] = IF i <= Len(a) THEN a[i] ELSE x[i - Len(a)]
<1>1. /\ a \o x \in Seq(Words) /\ Len(a \o x) = Len(a) + Len(x)
      /\ \A i \in 1..(Len(a) + Len(x)) :
           (a \o x)[i] = IF i <= Len(a) THEN a[i] ELSE x[i - Len(a)]
  BY ConcatProperties
<1> QED BY <1>1, LenProperties

\* A name in a namespace determines the namespace and the last segment.
LEMMA Qualifies ==
  ASSUME NEW a \in Seq(Words), NEW b \in Seq(Words),
         NEW x \in Seq(Words), NEW y \in Seq(Words), Len(x) = 1, Len(y) = 1,
         a \o x = b \o y
  PROVE  a = b /\ x = y
<1>1. /\ Len(a \o x) = Len(a) + 1 /\ Len(b \o y) = Len(b) + 1
      /\ Len(a) \in Nat /\ Len(b) \in Nat
      /\ \A i \in 1..(Len(a) + 1) : (a \o x)[i] = IF i <= Len(a) THEN a[i] ELSE x[i - Len(a)]
      /\ \A i \in 1..(Len(b) + 1) : (b \o y)[i] = IF i <= Len(b) THEN b[i] ELSE y[i - Len(b)]
  <2>1. /\ Len(a \o x) = Len(a) + 1 /\ Len(a) \in Nat
        /\ \A i \in 1..(Len(a) + 1) : (a \o x)[i] = IF i <= Len(a) THEN a[i] ELSE x[i - Len(a)]
    BY OneSegmentMore, Zenon
  <2>2. /\ Len(b \o y) = Len(b) + 1 /\ Len(b) \in Nat
        /\ \A i \in 1..(Len(b) + 1) : (b \o y)[i] = IF i <= Len(b) THEN b[i] ELSE y[i - Len(b)]
    BY OneSegmentMore, Zenon
  <2> QED BY <2>1, <2>2
<1>2. Len(a) = Len(b)
  BY <1>1
<1>3. \A i \in 1..Len(a) : a[i] = b[i]
  <2> TAKE i \in 1..Len(a)
  <2>1. i \in 1..(Len(a) + 1) /\ i \in 1..(Len(b) + 1) /\ i <= Len(a) /\ i <= Len(b)
    BY <1>1, <1>2
  <2> QED BY <1>1, <2>1
<1>4. x[1] = y[1]
  <2>1. /\ Len(a) + 1 \in 1..(Len(a) + 1) /\ Len(b) + 1 \in 1..(Len(b) + 1)
        /\ ~(Len(a) + 1 <= Len(a)) /\ ~(Len(b) + 1 <= Len(b))
        /\ (Len(a) + 1) - Len(a) = 1 /\ (Len(b) + 1) - Len(b) = 1
    BY <1>1
  <2> QED BY <1>1, <1>2, <2>1
<1>5. a = b
  BY <1>2, <1>3, SeqEqual
<1>6. x = y
  <2>1. \A i \in 1..Len(x) : x[i] = y[i]
    BY <1>4
  <2> QED BY <2>1, SeqEqual
<1> QED BY <1>5, <1>6

\* Entering an item, the tracked namespace becomes the item's.
LEMMA NamespaceTracked ==
  ASSUME program \in Programs, index \in 1..Len(Items),
         IF index = 1 THEN namespace = None
         ELSE /\ namespace = NamespaceAt(index - 1)
              /\ file = Items[index - 1].file
  PROVE  UpdatedNamespace(Item) = NamespaceAt(index)
BY NamespaceStep DEF UpdatedNamespace, Item

\* Names of one segment are declared under the namespace of their item.
LEMMA DeclaredName ==
  ASSUME program \in Programs, index \in 1..Len(Items),
         UpdatedNamespace(Item) = NamespaceAt(index),
         Item.kind \in Named \union {"Mutual"}
  PROVE  FullName(Item.name) = NameAt(index)
<1>1. /\ Len(Item.name) = 1 /\ Item.name \in Seq(Words)
      /\ Item.kind \notin {"Namespace", "RootAlias"}
  BY ItemsType DEF Item, OneSegment, Named
<1>2. CASE NamespaceAt(index) = None
  BY <1>1, <1>2 DEF FullName, NamespaceOfItem, Qualified, NameAt, Item
<1>3. CASE NamespaceAt(index) # None
  <2>1. NamespaceAt(index) \o Item.name # None
    <3>1. Len(NamespaceAt(index) \o Item.name) = Len(NamespaceAt(index)) + 1
      <4>1. NamespaceAt(index) \in Seq(Words)
        BY NamespaceType
      <4> QED BY <1>1, <4>1, OneSegmentMore, Zenon
    <3>2. Len(NamespaceAt(index)) \in Nat
      BY <1>3, NamespaceType
    <3> QED BY <3>1, <3>2, EmptySeq DEF None
  <2> QED BY <1>1, <1>3, <2>1 DEF FullName, NamespaceOfItem, Qualified, NameAt, Item
<1> QED BY <1>2, <1>3

-----------------------------------------------------------------------------
(* The scope table only grows: no definition changes and no name is bound  *)
(* over.                                                                   *)

LEMMA Appended ==
  ASSUME NEW s, s \in Seq(Range(s)), NEW e
  PROVE  /\ Append(s, e) \in Seq(Range(Append(s, e)))
         /\ Len(s) \in Nat /\ Len(Append(s, e)) = Len(s) + 1
         /\ \A i \in 1..Len(s) : Append(s, e)[i] = s[i]
         /\ Append(s, e)[Len(s) + 1] = e
<1> DEFINE S == Range(s) \union {e}
<1>1. s \in Seq(S) /\ e \in S
  <2>1. Range(s) \subseteq S
    OBVIOUS
  <2> QED BY <2>1, WiderSeq
<1> HIDE DEF S
<1>2. /\ Append(s, e) \in Seq(S) /\ Len(s) \in Nat
      /\ Len(Append(s, e)) = Len(s) + 1
      /\ \A i \in 1..Len(s) : Append(s, e)[i] = s[i]
      /\ Append(s, e)[Len(s) + 1] = e
  BY <1>1, WithLast
<1>3. Append(s, e) \in Seq(Range(Append(s, e)))
  BY <1>2, SeqOfRange, Zenon
<1> QED BY <1>2, <1>3

\* A name that a scope did not bind gets a definition made for it.
LEMMA Bound ==
  ASSUME NEW t, Linked(t), NEW d, NEW s \in 1..Len(t.scopes), NEW name,
         name \notin DOMAIN t.scopes[s].bind, s # Root => Len(name) = 1
  PROVE  LET u == Bind(NewDef(t, d), s, name)
             id == Len(t.defs) + 1
         IN /\ Linked(u)
            /\ Len(u.scopes) = Len(t.scopes)
            /\ Len(u.defs) = id /\ u.defs[id] = d
            /\ \A i \in 1..Len(t.defs) : u.defs[i] = t.defs[i]
            /\ \A i \in 1..Len(t.scopes) :
                 /\ u.scopes[i].parent = t.scopes[i].parent
                 /\ u.scopes[i].bind = IF i = s THEN With(t.scopes[s].bind, name, id)
                                       ELSE t.scopes[i].bind
<1> DEFINE id == Len(t.defs) + 1
           b == With(t.scopes[s].bind, name, id)
           r == [t.scopes[s] EXCEPT !.bind = b]
           ss == [t.scopes EXCEPT ![s] = r]
           u == Bind(NewDef(t, d), s, name)
<1>1. /\ DOMAIN NewDef(t, d) = {"defs", "scopes"}
      /\ NewDef(t, d).defs = Append(t.defs, d)
      /\ NewDef(t, d).scopes = t.scopes
  BY DEF NewDef, Linked
<1>2. /\ Append(t.defs, d) \in Seq(Range(Append(t.defs, d)))
      /\ Len(t.defs) \in Nat /\ Len(Append(t.defs, d)) = id
      /\ \A i \in 1..Len(t.defs) : Append(t.defs, d)[i] = t.defs[i]
      /\ Append(t.defs, d)[id] = d
  BY Appended DEF Linked
<1>3. DOMAIN u = {"defs", "scopes"} /\ u.defs = Append(t.defs, d) /\ u.scopes = ss
  BY <1>1, <1>2 DEF Bind
<1>4. /\ DOMAIN r = {"bind", "parent"} /\ r.bind = b
      /\ r.parent = t.scopes[s].parent
  BY DEF Linked
<1> HIDE DEF r, u
<1>5. /\ ss \in Seq(Range(ss)) /\ Len(ss) = Len(t.scopes)
      /\ \A i \in 1..Len(t.scopes) : ss[i] = IF i = s THEN r ELSE t.scopes[i]
  <2> DEFINE S == Range(t.scopes) \union {r}
  <2>1. t.scopes \in Seq(S) /\ r \in S
    <3>1. Range(t.scopes) \subseteq S
      OBVIOUS
    <3> QED BY <3>1, WiderSeq DEF Linked
  <2> HIDE DEF S, r
  <2>2. /\ ss \in Seq(S) /\ Len(ss) = Len(t.scopes)
        /\ \A i \in 1..Len(t.scopes) : ss[i] = IF i = s THEN r ELSE t.scopes[i]
    BY <2>1, ExceptSeq
  <2> HIDE DEF ss
  <2>3. ss \in Seq(Range(ss))
    BY <2>2, SeqOfRange, Zenon
  <2> QED BY <2>2, <2>3
<1>6. /\ DOMAIN b = DOMAIN t.scopes[s].bind \union {name}
      /\ \A n \in DOMAIN b : b[n] = IF n = name THEN id ELSE t.scopes[s].bind[n]
  BY DEF With
<1> HIDE DEF ss, b
<1>7. Len(t.scopes) \in Nat \ {0}
  BY Lengths
<1>8. /\ Len(ss) = Len(t.scopes)
      /\ \A i \in 1..Len(t.scopes) :
           /\ DOMAIN ss[i] = {"bind", "parent"}
           /\ ss[i].parent = t.scopes[i].parent
           /\ ss[i].bind = IF i = s THEN b ELSE t.scopes[i].bind
  BY <1>4, <1>5 DEF Linked
<1>9. \A i \in 1..Len(t.scopes) : \A n \in DOMAIN ss[i].bind :
        /\ ss[i].bind[n] \in 1..id
        /\ i # Root => Len(n) = 1
  <2> TAKE i \in 1..Len(t.scopes)
  <2> TAKE n \in DOMAIN ss[i].bind
  <2>1. CASE i = s
    <3>1. n = name \/ n \in DOMAIN t.scopes[s].bind
      BY <1>6, <1>8, <2>1
    <3> QED BY <1>2, <1>6, <1>8, <2>1, <3>1 DEF Linked
  <2>2. CASE i # s
    <3>1. n \in DOMAIN t.scopes[i].bind /\ ss[i].bind[n] = t.scopes[i].bind[n]
      BY <1>8, <2>2
    <3> QED BY <1>2, <3>1 DEF Linked
  <2> QED BY <2>1, <2>2
<1>10. ss # <<>> /\ ss[Root].parent = 0
       /\ \A i \in 2..Len(ss) : ss[i].parent \in 1..(i - 1)
  <2>1. Len(<<>>) = 0
    BY EmptySeq
  <2> QED BY <1>7, <1>8, <2>1 DEF Linked, Root
<1>11. Linked(u)
  BY <1>2, <1>3, <1>5, <1>8, <1>9, <1>10 DEF Linked
<1> QED BY <1>2, <1>3, <1>8, <1>11 DEF b, u

\* A new scope is the last and binds nothing.
LEMMA Opened ==
  ASSUME NEW t, Linked(t), NEW parent \in 1..Len(t.scopes)
  PROVE  LET u == NewScope(t, parent)
             n == Len(t.scopes) + 1
         IN /\ Linked(u)
            /\ u.defs = t.defs
            /\ Len(u.scopes) = n
            /\ DOMAIN u.scopes[n].bind = {} /\ u.scopes[n].parent = parent
            /\ \A i \in 1..Len(t.scopes) : u.scopes[i] = t.scopes[i]
<1> DEFINE n == Len(t.scopes) + 1
           r == [bind |-> <<>>, parent |-> parent]
           ss == Append(t.scopes, r)
           u == NewScope(t, parent)
<1>1. DOMAIN u = {"defs", "scopes"} /\ u.defs = t.defs /\ u.scopes = ss
  BY DEF NewScope, Linked
<1>2. /\ ss \in Seq(Range(ss)) /\ Len(ss) = n /\ ss[n] = r
      /\ \A i \in 1..Len(t.scopes) : ss[i] = t.scopes[i]
  BY Appended DEF Linked
<1>3. DOMAIN r = {"bind", "parent"} /\ DOMAIN r.bind = {} /\ r.parent = parent
  <2>1. DOMAIN <<>> = {}
    OBVIOUS
  <2> QED BY <2>1
<1> HIDE DEF r, ss, u
<1>4. Len(t.scopes) \in Nat \ {0}
  BY Lengths
<1>5. \A i \in 1..n : i = n \/ i \in 1..Len(t.scopes)
  BY <1>4
<1>6. ss # <<>> /\ ss[Root].parent = 0
  <2>1. Len(<<>>) = 0
    BY EmptySeq
  <2> QED BY <1>2, <1>4, <2>1 DEF Linked, Root
<1>7. \A i \in 2..n : ss[i].parent \in 1..(i - 1)
  BY <1>2, <1>3, <1>4, <1>5 DEF Linked
<1>8. \A i \in 1..n : /\ DOMAIN ss[i] = {"bind", "parent"}
                      /\ \A x \in DOMAIN ss[i].bind :
                           /\ ss[i].bind[x] \in 1..Len(t.defs)
                           /\ i # Root => Len(x) = 1
  BY <1>2, <1>3, <1>5 DEF Linked
<1>9. Linked(u)
  BY <1>1, <1>2, <1>6, <1>7, <1>8 DEF Linked
<1> QED BY <1>1, <1>2, <1>3, <1>9 DEF u

\* u is t with definitions, scopes and names added.
Extends(t, u) ==
  /\ Linked(t) /\ Linked(u)
  /\ Len(t.scopes) <= Len(u.scopes) /\ Len(t.defs) <= Len(u.defs)
  /\ \A i \in 1..Len(t.defs) : u.defs[i] = t.defs[i]
  /\ \A s \in 1..Len(t.scopes) :
       /\ u.scopes[s].parent = t.scopes[s].parent
       /\ \A n \in DOMAIN t.scopes[s].bind :
            /\ n \in DOMAIN u.scopes[s].bind
            /\ u.scopes[s].bind[n] = t.scopes[s].bind[n]
  /\ \A s \in 1..Len(u.scopes) : \A n \in DOMAIN u.scopes[s].bind :
       \/ s <= Len(t.scopes) /\ n \in DOMAIN t.scopes[s].bind
       \/ u.scopes[s].bind[n] > Len(t.defs)

LEMMA ExtendsSame ==
  ASSUME NEW t, Linked(t)
  PROVE  Extends(t, t)
<1>1. Len(t.scopes) \in Nat /\ Len(t.defs) \in Nat
  BY Lengths
<1>2. \A s \in 1..Len(t.scopes) : s <= Len(t.scopes)
  BY <1>1
<1> QED BY <1>1, <1>2 DEF Extends

LEMMA ExtendsBound ==
  ASSUME NEW t, Linked(t), NEW d, NEW s \in 1..Len(t.scopes), NEW name,
         name \notin DOMAIN t.scopes[s].bind, s # Root => Len(name) = 1
  PROVE  Extends(t, Bind(NewDef(t, d), s, name))
<1> DEFINE u == Bind(NewDef(t, d), s, name)
           id == Len(t.defs) + 1
<1>1. /\ Linked(u)
      /\ Len(u.scopes) = Len(t.scopes)
      /\ Len(u.defs) = id
      /\ \A i \in 1..Len(t.defs) : u.defs[i] = t.defs[i]
      /\ \A i \in 1..Len(t.scopes) :
           /\ u.scopes[i].parent = t.scopes[i].parent
           /\ u.scopes[i].bind = IF i = s THEN With(t.scopes[s].bind, name, id)
                                 ELSE t.scopes[i].bind
  BY Bound, SMTT(30)
<1>2. Len(t.scopes) \in Nat /\ Len(t.defs) \in Nat
  BY Lengths
<1>3. /\ DOMAIN With(t.scopes[s].bind, name, id) = DOMAIN t.scopes[s].bind \union {name}
      /\ \A n \in DOMAIN t.scopes[s].bind \union {name} :
           With(t.scopes[s].bind, name, id)[n] = IF n = name THEN id ELSE t.scopes[s].bind[n]
  BY DEF With
<1> HIDE DEF u
<1>4. \A i \in 1..Len(t.scopes) : \A n \in DOMAIN t.scopes[i].bind :
        n \in DOMAIN u.scopes[i].bind /\ u.scopes[i].bind[n] = t.scopes[i].bind[n]
  BY <1>1, <1>3
<1>5. \A i \in 1..Len(u.scopes) : \A n \in DOMAIN u.scopes[i].bind :
       \/ i <= Len(t.scopes) /\ n \in DOMAIN t.scopes[i].bind
       \/ u.scopes[i].bind[n] > Len(t.defs)
  <2> TAKE i \in 1..Len(u.scopes)
  <2> TAKE n \in DOMAIN u.scopes[i].bind
  <2>1. i <= Len(t.scopes) /\ i \in 1..Len(t.scopes)
    BY <1>1, <1>2
  <2>2. CASE i = s /\ n = name
    BY <1>1, <1>2, <1>3, <2>1, <2>2
  <2>3. CASE ~(i = s /\ n = name)
    BY <1>1, <1>3, <2>1, <2>3
  <2> QED BY <2>2, <2>3
<1> QED BY <1>1, <1>2, <1>4, <1>5 DEF Extends, u

LEMMA ExtendsOpened ==
  ASSUME NEW t, Linked(t), NEW parent \in 1..Len(t.scopes)
  PROVE  Extends(t, NewScope(t, parent))
<1> DEFINE u == NewScope(t, parent)
           n == Len(t.scopes) + 1
<1>1. /\ Linked(u)
      /\ u.defs = t.defs
      /\ Len(u.scopes) = n
      /\ DOMAIN u.scopes[n].bind = {}
      /\ \A i \in 1..Len(t.scopes) : u.scopes[i] = t.scopes[i]
  BY Opened
<1>2. Len(t.scopes) \in Nat /\ Len(t.defs) \in Nat
  BY Lengths
<1>3. \A i \in 1..n : i = n \/ (i \in 1..Len(t.scopes) /\ i <= Len(t.scopes))
  BY <1>2
<1> HIDE DEF u
<1>4. \A s \in 1..Len(u.scopes) : \A x \in DOMAIN u.scopes[s].bind :
        s <= Len(t.scopes) /\ x \in DOMAIN t.scopes[s].bind
  BY <1>1, <1>3
<1> QED BY <1>1, <1>2, <1>4, SMTT(30) DEF Extends, u

\* What the locals of a mention are was settled when it was made.
LEMMA LocalsSettled ==
  ASSUME Extends(table, table'), NEW m,
         m.scope \in 1..Len(table.scopes), m.after \in 0..Len(table.defs)
  PROVE  LocalsOf(m)' = LocalsOf(m)
<1> DEFINE name == <<Head(m.name)>>
           c == Chain(table, m.scope) \ {Root}
<1>1. Chain(table', m.scope) = Chain(table, m.scope)
  BY ChainKept DEF Extends
<1>2. /\ Len(table.scopes) \in Nat /\ Len(table.defs) \in Nat
      /\ Len(table'.scopes) \in Nat /\ Len(table.scopes) <= Len(table'.scopes)
  BY Lengths DEF Extends
<1>3. c \subseteq 1..Len(table.scopes)
  BY <1>2, ChainOf DEF Extends
<1>4. LocalsOf(m) = {d \in 1..m.after : \E s \in c :
                       name \in DOMAIN table.scopes[s].bind
                       /\ table.scopes[s].bind[name] = d}
  BY DEF LocalsOf
<1>5. LocalsOf(m)' = {d \in 1..m.after : \E s \in c :
                        name \in DOMAIN table'.scopes[s].bind
                        /\ table'.scopes[s].bind[name] = d}
  BY <1>1 DEF LocalsOf
<1>6. ASSUME NEW s \in c, NEW d \in 1..m.after
      PROVE  (name \in DOMAIN table.scopes[s].bind /\ table.scopes[s].bind[name] = d)
             <=> (name \in DOMAIN table'.scopes[s].bind /\ table'.scopes[s].bind[name] = d)
  <2>1. s \in 1..Len(table.scopes) /\ s \in 1..Len(table'.scopes)
    BY <1>2, <1>3
  <2>2. ~(d > Len(table.defs))
    BY <1>2
  <2> HIDE DEF name, c
  <2>3. \/ name \notin DOMAIN table'.scopes[s].bind
        \/ name \in DOMAIN table.scopes[s].bind
        \/ table'.scopes[s].bind[name] > Len(table.defs)
    BY <2>1 DEF Extends
  <2>4. name \in DOMAIN table.scopes[s].bind =>
          /\ name \in DOMAIN table'.scopes[s].bind
          /\ table'.scopes[s].bind[name] = table.scopes[s].bind[name]
    BY <2>1 DEF Extends
  <2> QED BY <2>2, <2>3, <2>4
<1> HIDE DEF c, name
<1> QED BY <1>4, <1>5, <1>6, SMTT(30)

-----------------------------------------------------------------------------
(* Steps that declare nothing at the top level.                            *)

LEMMA ItemsKept ==
  ASSUME program' = program
  PROVE  /\ Items' = Items
         /\ \A i : NamespaceAt(i)' = NamespaceAt(i)
         /\ \A i : NameAt(i)' = NameAt(i)
<1>1. Items' = Items
  BY DEF Items
<1>2. \A i : NamespaceAt(i)' = NamespaceAt(i)
  BY <1>1 DEF NamespaceAt
<1>3. \A i : NameAt(i)' = NameAt(i)
  BY <1>1, <1>2 DEF NameAt
<1> QED BY <1>1, <1>2, <1>3

\* What is known of the top level and of the mentions stays true when the
\* scope table and the diagnostics grow.
LEMMA Grown ==
  ASSUME IInv, program' = program, top' = top, Extends(table, table'),
         out.diagnostics \subseteq out'.diagnostics,
         \A i \in DOMAIN Items : Declaring(i)' <=> Declaring(i),
         pass' = "declare" => pass = "declare" /\ table' = table
  PROVE  /\ Declarations' /\ Taken'
         /\ \A m : Fine(m) => Fine(m)'
<1>1. /\ Items' = Items
      /\ \A i : NamespaceAt(i)' = NamespaceAt(i)
      /\ \A i : NameAt(i)' = NameAt(i)
  BY ItemsKept
<1>2. /\ Len(table.scopes) \in Nat \ {0} /\ Len(table.defs) \in Nat
      /\ Len(table'.scopes) \in Nat /\ Len(table'.defs) \in Nat
      /\ Len(table.scopes) <= Len(table'.scopes)
      /\ Len(table.defs) <= Len(table'.defs)
      /\ Root \in 1..Len(table.scopes)
  BY Lengths DEF Extends
<1>3. /\ \A i \in 1..Len(table.defs) : table'.defs[i] = table.defs[i]
      /\ \A n \in DOMAIN table.scopes[Root].bind :
            /\ n \in DOMAIN table'.scopes[Root].bind
            /\ table'.scopes[Root].bind[n] = table.scopes[Root].bind[n]
  BY <1>2, SMTT(30) DEF Extends
<1>4. ASSUME NEW n \in DOMAIN top.order PROVE Declares(n)'
  <2> DEFINE d == top.order[n].def
             i == top.order[n].item
  <2>1. Declares(n)
    BY DEF IInv, Declarations
  <2>2. i \in DOMAIN Items
    BY <2>1 DEF Declares, Declaring
  <2>3. table'.defs[d] = table.defs[d] /\ d \in 1..Len(table'.defs)
    <3>1. d \in 1..Len(table.defs)
      BY <2>1 DEF Declares
    <3> HIDE DEF d
    <3> QED BY <1>2, <1>3, <3>1, SMTT(30)
  <2> QED BY <1>1, <1>3, <2>1, <2>2, <2>3, ZenonT(30) DEF Declares
<1>5. ASSUME NEW s \in 1..Len(table'.scopes), NEW n \in DOMAIN table'.scopes[s].bind,
             NEW k \in DOMAIN top.order,
             top.order[k].def = table'.scopes[s].bind[n]
      PROVE  k = n
  <2>1. top.order[k].def \in 1..Len(table.defs)
    BY DEF IInv, Declarations, Declares
  <2>2. ~(top.order[k].def > Len(table.defs))
    BY <1>2, <2>1
  <2>3. s <= Len(table.scopes) /\ n \in DOMAIN table.scopes[s].bind
    BY <1>5, <2>2 DEF Extends
  <2>4. s \in 1..Len(table.scopes)
    BY <1>2, <2>3
  <2>5. table'.scopes[s].bind[n] = table.scopes[s].bind[n]
    BY <2>3, <2>4 DEF Extends
  <2> QED BY <1>5, <2>3, <2>4, <2>5, SMTT(30) DEF IInv, Declarations, BoundOnce
<1>6. NamespacesDeclared'
  BY DEF IInv, Declarations, NamespacesDeclared
<1>7. Declarations'
  BY <1>4, <1>5, <1>6 DEF Declarations, BoundOnce
<1>8. ASSUME NEW i \in DOMAIN Items, Accounted(i) PROVE Accounted(i)'
  BY <1>1, <1>8 DEF Accounted
<1>9. Taken'
  <2>1. ASSUME NEW i \in DOMAIN Items, Declaring(i)
        PROVE  /\ Accounted(i)'
               /\ Items[i].kind \in Named \union {"Mutual"} =>
                    NameAt(i) \in DOMAIN table'.scopes[Root].bind
    BY <1>3, <1>8, <2>1 DEF IInv, Taken
  <2>2. DOMAIN top.mutual \subseteq DOMAIN table'.scopes[Root].bind
    BY <1>3 DEF IInv, Taken
  <2>3. pass' = "declare" =>
          \A i \in DOMAIN Items :
            Declaring(i) /\ Items[i].kind = "Function"
              /\ NameAt(i) \in DOMAIN top.mutual => NameAt(i) \in top.bodies
    BY DEF IInv, Taken
  <2> QED BY <1>1, <2>1, <2>2, <2>3 DEF Taken
<1>10. ASSUME NEW m, Fine(m) PROVE Fine(m)'
  <2>1. /\ m.scope \in 1..Len(table.scopes) /\ m.after \in 0..Len(table.defs)
        /\ ReachesByRule(m) /\ OwnFirst(m)
    BY <1>10 DEF Fine
  <2>2. LocalsOf(m)' = LocalsOf(m)
    BY <2>1, LocalsSettled
  <2>3. OwnFirst(m)'
    BY <1>1, <2>1, <2>2 DEF OwnFirst
  <2>4. ReachesByRule(m)'
    <3>1. ASSUME m.to # 0, IsTopLevel(m.to) PROVE table'.defs[m.to] = table.defs[m.to]
      <4>1. PICK n \in DOMAIN top.order : top.order[n].def = m.to
        BY <3>1, SMTT(30) DEF IsTopLevel
      <4>2. m.to \in 1..Len(table.defs)
        BY <4>1 DEF IInv, Declarations, Declares
      <4> QED BY <1>3, <4>2
    <3>2. IsTopLevel(m.to)' = IsTopLevel(m.to)
      BY DEF IsTopLevel
    <3> QED BY <1>1, <2>1, <3>1, <3>2 DEF ReachesByRule
  <2>5. m.scope \in 1..Len(table'.scopes) /\ m.after \in 0..Len(table'.defs)
    BY <1>2, <2>1
  <2> QED BY <2>3, <2>4, <2>5 DEF Fine
<1> QED BY <1>7, <1>9, <1>10

-----------------------------------------------------------------------------
(* Looking names up.                                                       *)

\* An item is being walked.
Walking ==
  /\ IInv /\ pass = "reference" /\ index \in 1..Len(Items)
  /\ namespace = NamespaceAt(index)

KnownAs(name, d) ==
  /\ d \in 1..Len(table.defs)
  /\ IsTopLevel(d) => name \in DOMAIN top.order /\ top.order[name].def = d

\* A top-level definition is found under its own name only.
LEMMA LookedUp ==
  ASSUME IInv, NEW name
  PROVE  /\ Lookup(table, current, name) # 0
              => KnownAs(name, Lookup(table, current, name))
         /\ LookupLocalNonRoot(table, current, name) # 0
              => KnownAs(name, LookupLocalNonRoot(table, current, name))
<1>1. Linked(table) /\ current \in 1..Len(table.scopes)
  BY DEF IInv, Shapes
<1>2. ASSUME NEW among \in SUBSET Binders(table, current, name),
             Found(table, among, name) # 0
      PROVE  KnownAs(name, Found(table, among, name))
  <2> DEFINE s == Max(among)
             d == Found(table, among, name)
  <2>1. /\ s \in 1..Len(table.scopes) /\ name \in DOMAIN table.scopes[s].bind
        /\ d = table.scopes[s].bind[name] /\ d \in 1..Len(table.defs)
    BY <1>1, <1>2, FoundIn
  <2> HIDE DEF s, d
  <2>2. ASSUME NEW k \in DOMAIN top.order, top.order[k].def = d PROVE k = name
    BY <2>1, <2>2 DEF IInv, Declarations, BoundOnce
  <2>3. KnownAs(name, d)
    BY <2>1, <2>2 DEF KnownAs, IsTopLevel
  <2> QED BY <2>3 DEF d
<1>3. Binders(table, current, name) \ {Root} \in SUBSET Binders(table, current, name)
  OBVIOUS
<1> QED BY <1>2, <1>3 DEF Lookup, LookupLocalNonRoot

\* r is o with a reference handled: a mention that is added reaches its
\* definition by the rules.
Handled(o, r, written) ==
  /\ DOMAIN r = OutFields /\ r.aliases = o.aliases
  /\ o.diagnostics \subseteq r.diagnostics
  /\ \A m \in r.mentions :
       \/ m \in o.mentions
       \/ /\ \E d : m = [Mention(written) EXCEPT !.to = d]
          /\ ReachesByRule(m)

LEMMA Emitted ==
  ASSUME NEW o, DOMAIN o = OutFields, NEW code, NEW name
  PROVE  LET r == Emit(o, code, name)
         IN /\ DOMAIN r = OutFields /\ r.aliases = o.aliases
            /\ o.diagnostics \subseteq r.diagnostics
            /\ Diagnostic(code, name) \in r.diagnostics
            /\ r.mentions = o.mentions
BY DEF Emit, OutFields

LEMMA Recorded ==
  ASSUME Walking, NEW o, DOMAIN o = OutFields, NEW name, NEW written, NEW d,
         KnownAs(name, d),
         IsTopLevel(d) => \/ Len(name) = 1 \/ Len(written) > 1
                          \/ table.defs[d].ns \in {None, namespace}
  PROVE  Handled(o, RecordResolution(o, name, d, written), written)
<1> DEFINE r == RecordResolution(o, name, d, written)
           m0 == [Mention(written) EXCEPT !.to = d]
<1>1. CASE PrivateAccess(d) \/ QualifierRequired(name, d) \/ ForwardReference(name, d)
  <2>1. \E code : r = Emit(o, code, name)
    BY <1>1 DEF RecordResolution
  <2> QED BY <2>1, Emitted DEF Handled
<1>2. CASE ~(PrivateAccess(d) \/ QualifierRequired(name, d) \/ ForwardReference(name, d))
  <2>1. r = [o EXCEPT !.used = @ \union {d},
                      !.mentions = (@ \ {Mention(written)}) \union {m0}]
    BY <1>2 DEF RecordResolution
  <2>2. m0.to = d /\ m0.item = index /\ m0.name = written
    BY DEF Mention
  <2> HIDE DEF m0
  <2>3. /\ DOMAIN r = OutFields /\ r.aliases = o.aliases /\ r.diagnostics = o.diagnostics
        /\ r.mentions = (o.mentions \ {Mention(written)}) \union {m0}
    BY <2>1 DEF OutFields
  <2>4. ReachesByRule(m0)
    <3> SUFFICES ASSUME IsTopLevel(d)
                 PROVE  /\ table.defs[d].item <= index
                        /\ \/ table.defs[d].ns \in {None, NamespaceAt(index)}
                           \/ table.defs[d].vis = "Public" /\ Len(written) > 1
      BY <2>2 DEF ReachesByRule
    <3>1. name \in DOMAIN top.order /\ top.order[name].def = d
      BY SMTT(30) DEF KnownAs
    <3>2. /\ Declares(name)
          /\ table.defs[d].item = top.order[name].item
          /\ table.defs[d].item \in DOMAIN Items
          /\ table.defs[d].vis \in {"Public", "Private"}
      BY <3>1 DEF Walking, IInv, Declarations, Declares, Declaring
    <3>3. table.defs[d].item <= index
      <4>1. ~(table.defs[d].item > index)
        BY <1>2, <3>1, <3>2 DEF ForwardReference
      <4>2. table.defs[d].item \in Int /\ index \in Int
        BY <3>2, ItemsType DEF Walking, IInv, Shapes
      <4> QED BY <4>1, <4>2
    <3>4. CASE table.defs[d].ns \in {None, namespace}
      BY <3>3, <3>4 DEF Walking
    <3>5. CASE table.defs[d].ns \notin {None, namespace}
      BY <1>2, <3>2, <3>3, <3>5 DEF PrivateAccess, QualifierRequired
    <3> QED BY <3>4, <3>5
  <2> QED BY <2>3, <2>4 DEF Handled, m0
<1> QED BY <1>1, <1>2

\* A name with its namespace is that of a definition of this namespace.
LEMMA QualifiedName ==
  ASSUME Walking, NEW w \in Seq(Words), Len(w) = 1, namespace # None
  PROVE  /\ Qualified(namespace, w) = namespace \o w
         /\ Qualified(namespace, w) # None
         /\ Len(namespace \o w) # 1
         /\ namespace \o w \in DOMAIN top.order =>
              table.defs[top.order[namespace \o w].def].ns \in {None, namespace}
<1> DEFINE q == namespace \o w
<1>1. namespace \in Seq(Words) /\ Len(namespace) \in Nat \ {0}
  BY NamespaceType DEF Walking, IInv, Shapes
<1>2. Len(q) = Len(namespace) + 1
  BY <1>1, OneSegmentMore
<1>3. q # None
  BY <1>1, <1>2, EmptySeq DEF None
<1>4. Qualified(namespace, w) = q
  BY DEF Qualified
<1>5. ASSUME q \in DOMAIN top.order
      PROVE  table.defs[top.order[q].def].ns \in {None, namespace}
  <2> DEFINE d == top.order[q].def
             i == top.order[q].item
             ns == table.defs[d].ns
  <2>1. /\ Declares(q) /\ i \in 1..Len(Items)
        /\ ns \in {None, NamespaceAt(i)}
        /\ ns # None => q = ns \o Items[i].name /\ Len(Items[i].name) = 1
    BY <1>5, ItemsType, ZenonT(30) DEF Walking, IInv, Shapes, Declarations, Declares, Declaring
  <2>2. Items[i].name \in Seq(Words) /\ NamespaceAt(i) \in Seq(Words)
    BY <2>1, ItemsType, NamespaceType DEF Walking, IInv, Shapes
  <2> SUFFICES ASSUME ns # None PROVE ns = namespace
    BY SMTT(30)
  <2>3. /\ ns \in Seq(Words) /\ ns \o Items[i].name = namespace \o w
        /\ Len(Items[i].name) = 1
    BY <2>1, <2>2
  <2> HIDE DEF ns, i
  <2> QED BY <1>1, <2>2, <2>3, Qualifies
<1> QED BY <1>1, <1>2, <1>3, <1>4, <1>5

\* What is only known by its last segment needs its namespace.
LEMMA LeafQualified ==
  ASSUME Walking, NEW name, UniqueExternalLeaf(name) # 0
  PROVE  QualifierRequired(name, UniqueExternalLeaf(name))
<1> DEFINE leaf == UniqueExternalLeaf(name)
           found == {d \in DOMAIN table.defs :
                       /\ table.defs[d].ns \notin {None, namespace}
                       /\ Len(name) = 1
                       /\ Last(table.defs[d].name) = Last(name)}
<1>1. Cardinality(found) = 1 /\ leaf = Max(found)
  BY DEF UniqueExternalLeaf
<1>2. found \in SUBSET (0..Len(table.defs)) /\ Len(table.defs) \in Nat
  BY Lengths DEF Walking, IInv, Shapes
<1>3. found # {}
  BY <1>1, FS_EmptySet
<1>4. leaf \in found
  <2> HIDE DEF found, leaf
  <2> QED BY <1>1, <1>2, <1>3, LargestOf
<1> HIDE DEF leaf
<1>5. QualifierRequired(name, leaf)
  BY <1>4 DEF QualifierRequired
<1> QED BY <1>5 DEF leaf

LEMMA NameHandled ==
  ASSUME Walking, NEW o, DOMAIN o = OutFields, NEW name, NEW w,
         \/ Len(w) > 1
         \/ name = w /\ w \in Seq(Words) /\ Len(w) = 1
  PROVE  Handled(o, ResolveName(o, name, w), w)
<1> DEFINE local == LookupLocalNonRoot(table, current, name)
           qualified == Qualified(namespace, name)
           own == Lookup(table, current, qualified)
           global == Lookup(table, current, name)
           leaf == UniqueExternalLeaf(name)
           r == ResolveName(o, name, w)
<1>1. /\ local # 0 => KnownAs(name, local)
      /\ own # 0 => KnownAs(qualified, own)
      /\ global # 0 => KnownAs(name, global)
  BY LookedUp DEF Walking
<1>2. Handled(o, o, w)
  BY DEF Handled
<1>3. CASE name \in typeParams \union Modules
  <2>1. r = o
    BY <1>3 DEF ResolveName
  <2> QED BY <1>2, <2>1
<1>4. CASE name \notin typeParams \union Modules /\ local # 0
  <2>1. r = RecordResolution(o, name, local, w)
    BY <1>4 DEF ResolveName
  <2>2. Len(name) = 1 \/ Len(w) > 1
    OBVIOUS
  <2> HIDE DEF local
  <2>3. Handled(o, RecordResolution(o, name, local, w), w)
    BY <1>1, <1>4, <2>2, Recorded
  <2> QED BY <2>1, <2>3
<1>5. CASE /\ name \notin typeParams \union Modules /\ local = 0
           /\ qualified # None /\ own # 0
  <2>1. r = RecordResolution(o, qualified, own, w)
    BY <1>5 DEF ResolveName
  <2>2. ASSUME IsTopLevel(own), ~(Len(w) > 1)
        PROVE  table.defs[own].ns \in {None, namespace}
    <3>1. name = w /\ w \in Seq(Words) /\ Len(w) = 1 /\ namespace # None
      BY <1>5, <2>2 DEF Qualified
    <3>2. qualified = namespace \o w
      BY <3>1, QualifiedName
    <3>3. qualified \in DOMAIN top.order /\ top.order[qualified].def = own
      BY <1>1, <1>5, <2>2 DEF KnownAs
    <3> HIDE DEF qualified, own
    <3> QED BY <3>1, <3>2, <3>3, QualifiedName
  <2> HIDE DEF qualified, own
  <2>3. Handled(o, RecordResolution(o, qualified, own, w), w)
    BY <1>1, <1>5, <2>2, Recorded
  <2> QED BY <2>1, <2>3
<1>6. CASE /\ name \notin typeParams \union Modules /\ local = 0
           /\ ~(qualified # None /\ own # 0) /\ global # 0
  <2>1. r = RecordResolution(o, name, global, w)
    BY <1>6 DEF ResolveName
  <2>2. Len(name) = 1 \/ Len(w) > 1
    OBVIOUS
  <2> HIDE DEF global
  <2>3. Handled(o, RecordResolution(o, name, global, w), w)
    BY <1>1, <1>6, <2>2, Recorded
  <2> QED BY <2>1, <2>3
<1>7. CASE /\ name \notin typeParams \union Modules /\ local = 0
           /\ ~(qualified # None /\ own # 0) /\ global = 0
  <2>1. r = IF leaf # 0 THEN RecordResolution(o, name, leaf, w)
            ELSE Emit(o, "undefined", name)
    BY <1>7 DEF ResolveName
  <2>2. leaf # 0 => QualifierRequired(name, leaf)
    BY LeafQualified
  <2>3. \E code : r = Emit(o, code, name)
    <3> HIDE DEF leaf, r
    <3> QED BY <2>1, <2>2 DEF RecordResolution
  <2> QED BY <2>3, Emitted DEF Handled
<1> QED BY <1>3, <1>4, <1>5, <1>6, <1>7

\* Where the search in a path ends, and which of its prefixes is looked up.
LEMMA StopIn ==
  ASSUME NEW path \in Seq(Words), StopAt(path) # 0
  PROVE  LET k == StopAt(path)
             prefix == SubSeq(path, 1, k)
             d == Lookup(table, current, prefix)
         IN /\ k \in 1..(Len(path) - 1)
            /\ \/ prefix \in Modules
               \/ d # 0 /\ (table.defs[d].kind = "Namespace" \/ k > 1)
<1> DEFINE stops == {k \in 1..(Len(path) - 1) :
        LET prefix == SubSeq(path, 1, k)
            d == Lookup(table, current, prefix)
        IN \/ prefix \in Modules
           \/ /\ d # 0
              /\ \/ table.defs[d].kind = "Namespace"
                 \/ k > 1 /\ table.defs[d].ns # None}
<1>1. stops # {} /\ StopAt(path) = Max(stops)
  BY DEF StopAt
<1>2. Len(path) \in Nat /\ stops \in SUBSET (0..Len(path))
  BY LenProperties
<1>3. StopAt(path) \in stops
  <2> HIDE DEF stops
  <2> QED BY <1>1, <1>2, LargestOf
<1> QED BY <1>3

LEMMA PrefixOf ==
  ASSUME NEW path \in Seq(Words), NEW k \in 1..Len(path)
  PROVE  LET p == SubSeq(path, 1, k)
         IN /\ p \in Seq(Words) /\ Len(p) = k /\ p # <<>>
            /\ Head(p) = Head(path)
            /\ \A j \in 1..k : SubSeq(p, 1, j) = SubSeq(path, 1, j)
<1> DEFINE p == SubSeq(path, 1, k)
<1>1. Len(path) \in Nat
  BY LenProperties
<1>2. \A i \in 1..k : path[i] \in Words
  BY <1>1, ElementOfSeq
<1>3. p \in Seq(Words) /\ Len(p) = k /\ \A i \in 1..k : p[i] = path[i]
  BY <1>1, <1>2, SubSeqProperties
<1> HIDE DEF p
<1>4. p # <<>> /\ Head(p) = p[1] /\ Head(path) = path[1] /\ 1 \in 1..k
  BY <1>1, <1>3, EmptySeq
<1>5. \A j \in 1..k : SubSeq(p, 1, j) = SubSeq(path, 1, j)
  <2> TAKE j \in 1..k
  <2>1. \A i \in 1..j : path[i] \in Words /\ p[i] \in Words /\ p[i] = path[i]
    BY <1>1, <1>2, <1>3
  <2>2. /\ SubSeq(p, 1, j) \in Seq(Words) /\ Len(SubSeq(p, 1, j)) = j
        /\ \A i \in 1..j : SubSeq(p, 1, j)[i] = p[i]
    BY <1>1, <1>3, <2>1, SubSeqProperties
  <2>3. /\ SubSeq(path, 1, j) \in Seq(Words) /\ Len(SubSeq(path, 1, j)) = j
        /\ \A i \in 1..j : SubSeq(path, 1, j)[i] = path[i]
    BY <1>1, <2>1, SubSeqProperties
  <2> QED BY <2>1, <2>2, <2>3, SeqEqual
<1> QED BY <1>3, <1>4, <1>5 DEF p

LEMMA CandidateHandled ==
  ASSUME Walking, NEW o, DOMAIN o = OutFields, NEW path \in Seq(Words), NEW w,
         Len(w) > 1, IsPrefixed(path)
  PROVE  Handled(o, ResolveCandidate(o, path, w), w)
<1> DEFINE whole == Lookup(table, current, path)
           prefix == SubSeq(path, 1, StopAt(path))
           d == Lookup(table, current, prefix)
           r == ResolveCandidate(o, path, w)
<1>1. whole # 0 => KnownAs(path, whole)
  BY LookedUp DEF Walking
<1>2. d # 0 => KnownAs(prefix, d)
  BY LookedUp DEF Walking
<1>3. CASE whole # 0
  <2>1. r = RecordResolution(o, path, whole, w)
    BY <1>3 DEF ResolveCandidate
  <2> HIDE DEF whole
  <2>2. Handled(o, RecordResolution(o, path, whole, w), w)
    BY <1>1, <1>3, Recorded
  <2> QED BY <2>1, <2>2
<1>4. CASE whole = 0
  <2>1. prefix \in Modules \/ d # 0
    <3>1. StopAt(path) # 0
      BY <1>4 DEF IsPrefixed
    <3> QED BY <3>1, StopIn
  <2>2. r = IF prefix \in Modules THEN o
            ELSE IF table.defs[d].kind = "Namespace" THEN ResolveName(o, prefix, w)
            ELSE RecordResolution(o, prefix, d, w)
    BY <1>4 DEF ResolveCandidate
  <2> HIDE DEF prefix, d, r
  <2>3. prefix \notin Modules => KnownAs(prefix, d)
    BY <1>2, <2>1
  <2>4. Handled(o, o, w) /\ Handled(o, ResolveName(o, prefix, w), w)
    BY NameHandled DEF Handled
  <2>5. prefix \notin Modules => Handled(o, RecordResolution(o, prefix, d, w), w)
    BY <2>3, Recorded
  <2>6. Handled(o, r, w)
    BY <2>2, <2>4, <2>5
  <2> QED BY <2>6 DEF r
<1> QED BY <1>3, <1>4

\* A path of several segments is looked up as one of three things.
LEMMA PathCases ==
  ASSUME NEW path \in Seq(Words), Len(path) > 1, NEW o
  PROVE  LET q == UseAlias(o, path)
             r == ResolvePath(o, path)
         IN \/ r = ResolveName(q, SubSeq(path, 1, 1), path)
            \/ \E k \in 2..Len(path) :
                 LET p == SubSeq(path, 1, k)
                 IN \/ /\ AliasOf(o, p) # 0 /\ IsPrefixed(Expanded(o, p))
                       /\ r = ResolveCandidate(q, Expanded(o, p), path)
                    \/ IsPrefixed(p) /\ r = ResolveCandidate(q, p, path)
<1> DEFINE q == UseAlias(o, path)
           aliased(p) == AliasOf(o, p) # 0 /\ IsPrefixed(Expanded(o, p))
           named == {k \in 2..Len(path) : LET p == SubSeq(path, 1, k)
                                          IN aliased(p) \/ IsPrefixed(p)}
           k == Max(named \union {1})
           prefix == SubSeq(path, 1, k)
           r == ResolvePath(o, path)
<1>1. r = IF named = {} THEN ResolveName(q, prefix, path)
          ELSE IF aliased(prefix) THEN ResolveCandidate(q, Expanded(o, prefix), path)
          ELSE ResolveCandidate(q, prefix, path)
  BY DEF ResolvePath
<1>2. Len(path) \in Nat
  BY LenProperties
<1>3. k \in named \union {1} /\ \A y \in named \union {1} : y <= k
  <2>1. named \union {1} \in SUBSET (0..Len(path)) /\ named \union {1} # {}
    BY <1>2
  <2> HIDE DEF named
  <2> QED BY <1>2, <2>1, LargestOf
<1>4. CASE named = {}
  <2>1. k = 1
    <3> HIDE DEF k, named
    <3> QED BY <1>3, <1>4
  <2>2. r = ResolveName(q, prefix, path)
    BY <1>1, <1>4
  <2> HIDE DEF k, q, r
  <2> QED BY <2>1, <2>2 DEF q, r
<1>5. CASE named # {}
  <2>1. k \in named
    <3>1. PICK j \in named : TRUE
      BY <1>5
    <3>2. j \in 2..Len(path) /\ j <= k
      BY <1>3, <3>1
    <3>3. k # 1
      BY <1>2, <3>2
    <3> HIDE DEF named, k
    <3> QED BY <1>3, <3>3
  <2>2. k \in 2..Len(path) /\ (aliased(prefix) \/ IsPrefixed(prefix))
    <3> HIDE DEF k
    <3> QED BY <2>1
  <2>3. \/ aliased(prefix) /\ r = ResolveCandidate(q, Expanded(o, prefix), path)
        \/ IsPrefixed(prefix) /\ r = ResolveCandidate(q, prefix, path)
    <3> HIDE DEF r, q, prefix, aliased, named
    <3> QED BY <1>1, <1>5, <2>2
  <2> HIDE DEF k, q, r
  <2> QED BY <2>2, <2>3 DEF q, r
<1> QED BY <1>4, <1>5

LEMMA PathHandled ==
  ASSUME Walking, NEW o, DOMAIN o = OutFields,
         \A d \in DOMAIN o.aliases : o.aliases[d] \in Seq(Words),
         NEW path \in Seq(Words), Len(path) > 1
  PROVE  Handled(o, ResolvePath(o, path), path)
<1> DEFINE q == UseAlias(o, path)
           r == ResolvePath(o, path)
           p(k) == SubSeq(path, 1, k)
<1>1. /\ DOMAIN q = OutFields /\ q.aliases = o.aliases
      /\ q.diagnostics = o.diagnostics /\ q.mentions = o.mentions
  BY DEF UseAlias, OutFields
<1>2. \/ r = ResolveName(q, SubSeq(path, 1, 1), path)
      \/ \E k \in 2..Len(path) :
           \/ /\ AliasOf(o, p(k)) # 0 /\ IsPrefixed(Expanded(o, p(k)))
              /\ r = ResolveCandidate(q, Expanded(o, p(k)), path)
           \/ IsPrefixed(p(k)) /\ r = ResolveCandidate(q, p(k), path)
  BY PathCases
<1> HIDE DEF q, r
<1>3. Handled(q, ResolveName(q, SubSeq(path, 1, 1), path), path)
  BY <1>1, NameHandled
<1>4. ASSUME NEW k \in 2..Len(path)
      PROVE  /\ p(k) \in Seq(Words) /\ Tail(p(k)) \in Seq(Words)
  <2>1. k \in 1..Len(path)
    BY LenProperties
  <2>2. p(k) \in Seq(Words) /\ p(k) # <<>>
    BY <2>1, PrefixOf
  <2> HIDE DEF p
  <2> QED BY <2>2, HeadTailProperties
<1> HIDE DEF p
<1>5. ASSUME NEW k \in 2..Len(path), AliasOf(o, p(k)) # 0, IsPrefixed(Expanded(o, p(k)))
      PROVE  Handled(q, ResolveCandidate(q, Expanded(o, p(k)), path), path)
  <2>1. AliasOf(o, p(k)) \in DOMAIN o.aliases
    BY <1>5 DEF AliasOf
  <2>2. Expanded(o, p(k)) \in Seq(Words)
    BY <1>4, <2>1, ConcatProperties DEF Expanded
  <2> QED BY <1>1, <1>5, <2>2, CandidateHandled
<1>6. ASSUME NEW k \in 2..Len(path), IsPrefixed(p(k))
      PROVE  Handled(q, ResolveCandidate(q, p(k), path), path)
  BY <1>1, <1>4, <1>6, CandidateHandled
<1>7. Handled(q, r, path)
  BY <1>2, <1>3, <1>5, <1>6
<1>8. Handled(o, r, path)
  BY <1>1, <1>7 DEF Handled
<1> QED BY <1>8 DEF r

\* A reference that a definition of its own namespace is for.
OwnCase(w) ==
  /\ Len(w) = 1 /\ LocalsOf(Mention(w)) = {} /\ namespace # None
  /\ namespace \o w \in DOMAIN top.order
  /\ top.order[namespace \o w].item <= index
  /\ w \notin Modules /\ w \notin typeParams

LEMMA OneSegmentName ==
  ASSUME NEW w \in Seq(Words), Len(w) = 1
  PROVE  <<Head(w)>> = w
<1>1. Len(<<Head(w)>>) = 1 /\ <<Head(w)>>[1] = w[1]
  OBVIOUS
<1>2. w[1] \in Words
  BY ElementOfSeq
<1>3. Head(w) = w[1] /\ <<Head(w)>> \in Seq(Words)
  BY <1>2
<1>4. \A i \in 1..Len(w) : w[i] = <<Head(w)>>[i]
  BY <1>1
<1> QED BY <1>1, <1>3, <1>4, SeqEqual

LEMMA NotOwn ==
  ASSUME Walking, NEW w \in Seq(Words), ~OwnCase(w), NEW to
  PROVE  OwnFirst([Mention(w) EXCEPT !.to = to]) /\ OwnFirst(Mention(w))
<1>1. ASSUME NEW m, m.name = w, m.item = index, m.scope = current,
             m.after = Len(table.defs), m.generic = (<<Head(w)>> \in typeParams)
      PROVE  OwnFirst(m)
  <2> DEFINE q == namespace \o w
  <2>1. NamespaceAt(m.item) = namespace
    BY <1>1 DEF Walking
  <2>2. LocalsOf(m) = LocalsOf(Mention(w))
    BY <1>1 DEF LocalsOf, Mention
  <2>3. Len(w) = 1 => (m.generic <=> w \in typeParams)
    BY <1>1, OneSegmentName
  <2> QED BY <1>1, <2>1, <2>2, <2>3 DEF OwnFirst, OwnCase
<1>2. OwnFirst(Mention(w))
  BY <1>1 DEF Mention
<1>3. OwnFirst([Mention(w) EXCEPT !.to = to])
  <2> DEFINE m == [Mention(w) EXCEPT !.to = to]
  <2>1. /\ m.name = w /\ m.item = index /\ m.scope = current
        /\ m.after = Len(table.defs) /\ m.generic = (<<Head(w)>> \in typeParams)
    BY DEF Mention
  <2> HIDE DEF m
  <2>2. OwnFirst(m)
    BY <1>1, <2>1
  <2> QED BY <2>2 DEF m
<1> QED BY <1>2, <1>3

LEMMA OwnRecorded ==
  ASSUME Walking, NEW w \in Seq(Words), OwnCase(w), NEW o, DOMAIN o = OutFields
  PROVE  LET m == [Mention(w) EXCEPT !.to = top.order[namespace \o w].def]
             r == ResolveName(o, w, w)
         IN /\ r.mentions = (o.mentions \ {Mention(w)}) \union {m}
            /\ OwnFirst(m)
<1> DEFINE q == namespace \o w
           d == top.order[q].def
           m == [Mention(w) EXCEPT !.to = d]
           r == ResolveName(o, w, w)
           local == LookupLocalNonRoot(table, current, w)
           own == Lookup(table, current, q)
<1>1. /\ Linked(table) /\ current \in 1..Len(table.scopes)
      /\ program \in Programs /\ namespace = NamespaceAt(index)
  BY DEF Walking, IInv, Shapes
<1>2. /\ Qualified(namespace, w) = q /\ q # None /\ Len(q) # 1
      /\ table.defs[d].ns \in {None, namespace}
      /\ q \in DOMAIN top.order
  BY QualifiedName DEF OwnCase
<1>3. /\ Declares(q) /\ d \in 1..Len(table.defs)
      /\ q \in DOMAIN table.scopes[Root].bind /\ table.scopes[Root].bind[q] = d
      /\ top.order[q].item \in 1..Len(Items)
  BY <1>1, <1>2, ItemsType DEF Walking, IInv, Declarations, Declares, Declaring
<1>4. local = 0
  <2> DEFINE among == Binders(table, current, w) \ {Root}
             s == Max(among)
  <2> SUFFICES ASSUME among # {} PROVE FALSE
    BY DEF LookupLocalNonRoot, Found
  <2>1. /\ s \in among /\ w \in DOMAIN table.scopes[s].bind
        /\ table.scopes[s].bind[w] \in 1..Len(table.defs)
    <3>1. among \in SUBSET Binders(table, current, w)
      OBVIOUS
    <3> HIDE DEF among
    <3>2. /\ s \in among /\ w \in DOMAIN table.scopes[s].bind
          /\ s \in 1..Len(table.scopes)
      BY <1>1, <3>1, FoundIn
    <3> QED BY <1>1, <3>2 DEF Linked
  <2>2. s \in Chain(table, current) \ {Root}
    <3> HIDE DEF s
    <3> QED BY <2>1 DEF Binders
  <2>3. <<Head(w)>> = w
    BY OneSegmentName DEF OwnCase
  <2> HIDE DEF s
  <2>4. table.scopes[s].bind[w] \in LocalsOf(Mention(w))
    BY <2>1, <2>2, <2>3 DEF LocalsOf, Mention
  <2> QED BY <2>4 DEF OwnCase
<1>5. own = d
  <2>1. Binders(table, current, q) = {Root}
    <3>1. Root \in Binders(table, current, q)
      BY <1>1, <1>3, ChainOf DEF Binders
    <3>2. ASSUME NEW s \in Binders(table, current, q) PROVE s = Root
      <4>1. s \in 1..Len(table.scopes)
        <5>1. Chain(table, current) \subseteq 1..current /\ Len(table.scopes) \in Nat
          BY <1>1, ChainOf, Lengths
        <5> QED BY <1>1, <5>1 DEF Binders
      <4>2. q \in DOMAIN table.scopes[s].bind
        BY DEF Binders
      <4> HIDE DEF q
      <4> QED BY <1>1, <1>2, <4>1, <4>2 DEF Linked
    <3> QED BY <3>1, <3>2
  <2>2. Max({Root}) = Root
    BY DEF Max, Root
  <2>3. {Root} # {}
    OBVIOUS
  <2> HIDE DEF q, d
  <2> QED BY <1>3, <2>1, <2>2, <2>3 DEF Lookup, Found
<1>6. d # 0
  <2> HIDE DEF d
  <2> QED BY <1>3
<1>7. r = RecordResolution(o, q, d, w)
  <2>1. w \notin typeParams \union Modules
    BY DEF OwnCase
  <2> HIDE DEF q, d
  <2> QED BY <1>2, <1>4, <1>5, <1>6, <2>1 DEF ResolveName
<1>8. ~PrivateAccess(d) /\ ~QualifierRequired(q, d)
  BY <1>2 DEF PrivateAccess, QualifierRequired
<1>9. ~ForwardReference(q, d)
  <2>1. top.order[q].item <= index
    BY DEF OwnCase
  <2>2. index \in Int /\ top.order[q].item \in Int
    BY <1>3 DEF Walking
  <2> HIDE DEF q
  <2> QED BY <2>1, <2>2 DEF ForwardReference
<1>10. r.mentions = (o.mentions \ {Mention(w)}) \union {m}
  <2>1. r = [o EXCEPT !.used = @ \union {d},
                      !.mentions = (@ \ {Mention(w)}) \union {m}]
    BY <1>7, <1>8, <1>9 DEF RecordResolution
  <2> HIDE DEF m, d, r
  <2> QED BY <2>1 DEF OutFields
<1>11. OwnFirst(m)
  <2>1. m.name = w /\ m.item = index /\ m.to = d
    BY DEF Mention
  <2> HIDE DEF m
  <2> QED BY <1>1, <2>1 DEF OwnFirst
<1> QED BY <1>10, <1>11

LEMMA MentionFine ==
  ASSUME Walking, NEW w, NEW m, OwnFirst(m), ReachesByRule(m),
         m = Mention(w) \/ \E d : m = [Mention(w) EXCEPT !.to = d]
  PROVE  Fine(m)
<1>1. m.scope = current /\ m.after = Len(table.defs)
  BY DEF Mention
<1>2. Len(table.defs) \in Nat /\ current \in 1..Len(table.scopes)
  BY Lengths DEF Walking, IInv, Shapes
<1> QED BY <1>1, <1>2 DEF Fine

LEMMA HandledFine ==
  ASSUME Walking, NEW w \in Seq(Words), ~OwnCase(w), NEW o, NEW r,
         Handled(o, r, w), \A m \in o.mentions : m = Mention(w) \/ Fine(m)
  PROVE  \A m \in r.mentions : Fine(m)
<1>1. OwnFirst(Mention(w)) /\ \A d : OwnFirst([Mention(w) EXCEPT !.to = d])
  BY NotOwn
<1>2. ReachesByRule(Mention(w))
  <2>1. Mention(w).to = 0
    BY DEF Mention
  <2> QED BY <2>1 DEF ReachesByRule
<1>3. Fine(Mention(w))
  BY <1>1, <1>2, MentionFine
<1> TAKE m \in r.mentions
<1>4. CASE m \in o.mentions
  BY <1>3, <1>4
<1>5. CASE m \notin o.mentions
  <2>1. ReachesByRule(m) /\ \E d : m = [Mention(w) EXCEPT !.to = d]
    BY <1>5 DEF Handled
  <2>2. OwnFirst(m)
    BY <1>1, <2>1
  <2> QED BY <2>1, <2>2, MentionFine
<1> QED BY <1>4, <1>5

\* With a name of one segment, whatever the walk adds is fine.
LEMMA NameFine ==
  ASSUME Walking, NEW w \in Seq(Words), Len(w) = 1, NEW o, DOMAIN o = OutFields,
         \A m \in o.mentions : m = Mention(w) \/ Fine(m)
  PROVE  \A m \in ResolveName(o, w, w).mentions : Fine(m)
<1> DEFINE r == ResolveName(o, w, w)
<1>1. Handled(o, r, w)
  BY NameHandled
<1>2. CASE OwnCase(w)
  <2> DEFINE m0 == [Mention(w) EXCEPT !.to = top.order[namespace \o w].def]
  <2>1. r.mentions = (o.mentions \ {Mention(w)}) \union {m0} /\ OwnFirst(m0)
    BY <1>2, OwnRecorded
  <2>2. ReachesByRule(m0) \/ m0 \in o.mentions
    BY <1>1, <2>1 DEF Handled
  <2>3. m0 \in r.mentions /\ (m0 \in o.mentions => m0 = Mention(w) \/ Fine(m0))
    BY <2>1
  <2>4. Mention(w).to = 0
    BY DEF Mention
  <2>5. m0 = Mention(w) => ReachesByRule(m0)
    <3> HIDE DEF m0
    <3> QED BY <2>4 DEF ReachesByRule
  <2>6. Fine(m0)
    <3>1. \E d : m0 = [Mention(w) EXCEPT !.to = d]
      OBVIOUS
    <3> HIDE DEF m0
    <3> QED BY MentionFine, <2>1, <2>2, <2>3, <2>5, <3>1
  <2> HIDE DEF m0, r
  <2> QED BY <2>1, <2>6 DEF r
<1>3. CASE ~OwnCase(w)
  <2> HIDE DEF r
  <2>1. \A m \in r.mentions : Fine(m)
    BY <1>1, <1>3, HandledFine
  <2> QED BY <2>1 DEF r
<1> QED BY <1>2, <1>3

LEMMA OneOrMore ==
  ASSUME NEW n \in Nat \ {0}
  PROVE  (n > 1 <=> n # 1) /\ (n > 1 \/ n = 1)
OBVIOUS

\* What a reference leaves of the output.
Resolved(r) ==
  /\ DOMAIN r = OutFields /\ r.aliases = out.aliases
  /\ out.diagnostics \subseteq r.diagnostics
  /\ \A m \in r.mentions : Fine(m)

LEMMA NamesType ==
  ASSUME program \in Programs
  PROVE  /\ \A n \in program.locals : n \in Seq(Words) /\ Len(n) = 1
         /\ \A n \in Paths \union program.types : n \in Seq(Words) /\ Len(n) \in Nat \ {0}
         /\ \A u \in program.uses : /\ u.bound \in Seq(Words) /\ Len(u.bound) = 1
                                   /\ u.path \in Seq(Words)
<1>1. \A n \in program.locals : n \in Seq(Words) /\ Len(n) = 1
  BY ProgramsHoldNames
<1>2. \A n \in program.paths \union program.types : n \in Seq(Words) /\ n # <<>>
  BY ProgramsHoldNames
<1>3. ASSUME NEW u \in program.uses
      PROVE  u.bound \in Seq(Words) /\ Len(u.bound) = 1 /\ u.path \in Seq(Words)
  BY ProgramsHoldNames
<1>4. \A n \in program.paths \union program.types : Len(n) \in Nat \ {0}
  BY <1>2, EmptySeq
<1> QED BY <1>1, <1>2, <1>3, <1>4, SMTT(30) DEF Paths

LEMMA OutResolved ==
  ASSUME Walking
  PROVE  Resolved(out) /\ DOMAIN out = OutFields
BY DEF Resolved, Walking, IInv, Shapes

LEMMA MentionedFine ==
  ASSUME Walking, NEW w
  PROVE  LET o == Mentioned(out, w)
         IN /\ DOMAIN o = OutFields /\ o.aliases = out.aliases
            /\ o.diagnostics = out.diagnostics
            /\ \A m \in o.mentions : m = Mention(w) \/ Fine(m)
<1>1. DOMAIN out = OutFields /\ \A m \in out.mentions : Fine(m)
  BY OutResolved DEF Resolved
<1>2. Mentioned(out, w).mentions = out.mentions \union {Mention(w)}
  BY <1>1 DEF Mentioned, OutFields
<1> QED BY <1>1, <1>2 DEF Mentioned, OutFields

LEMMA LocalResolved ==
  ASSUME Walking, NEW w \in Seq(Words), Len(w) = 1
  PROVE  /\ Resolved(ResolveName(out, w, w))
         /\ Resolved(ResolveName(Mentioned(out, w), w, w))
<1>1. ASSUME NEW o, DOMAIN o = OutFields, o.aliases = out.aliases,
             o.diagnostics = out.diagnostics,
             \A m \in o.mentions : m = Mention(w) \/ Fine(m)
      PROVE  Resolved(ResolveName(o, w, w))
  <2>1. Handled(o, ResolveName(o, w, w), w)
    BY <1>1, NameHandled
  <2>2. \A m \in ResolveName(o, w, w).mentions : Fine(m)
    BY <1>1, NameFine
  <2> QED BY <1>1, <2>1, <2>2 DEF Handled, Resolved
<1>2. Resolved(ResolveName(out, w, w))
  BY <1>1, OutResolved DEF Resolved
<1>3. Resolved(ResolveName(Mentioned(out, w), w, w))
  <2> DEFINE o == Mentioned(out, w)
  <2>1. /\ DOMAIN o = OutFields /\ o.aliases = out.aliases
        /\ o.diagnostics = out.diagnostics
        /\ \A m \in o.mentions : m = Mention(w) \/ Fine(m)
    BY MentionedFine
  <2> HIDE DEF o
  <2>2. Resolved(ResolveName(o, w, w))
    BY <1>1, <2>1
  <2> QED BY <2>2 DEF o
<1> QED BY <1>2, <1>3

\* A path of one segment is looked up as a name.
LEMMA PathOfOne ==
  ASSUME NEW path \in Seq(Words), Len(path) = 1, NEW o
  PROVE  ResolvePath(o, path) = ResolveName(UseAlias(o, path), path, path)
<1>1. {k \in 2..Len(path) :
         LET p == SubSeq(path, 1, k)
         IN (AliasOf(o, p) # 0 /\ IsPrefixed(Expanded(o, p))) \/ IsPrefixed(p)} = {}
  OBVIOUS
<1>2. Max({} \union {1}) = 1
  BY DEF Max
<1>3. SubSeq(path, 1, 1) = path
  BY SubSeqFull
<1>4. ResolvePath(o, path) = ResolveName(UseAlias(o, path), SubSeq(path, 1, 1), path)
  BY <1>1, <1>2, Zenon DEF ResolvePath
<1> QED BY <1>3, <1>4

LEMMA PathResolved ==
  ASSUME Walking, NEW path \in Paths
  PROVE  Resolved(ResolvePath(Mentioned(out, path), path))
<1> DEFINE o == Mentioned(out, path)
<1>1. /\ DOMAIN o = OutFields /\ o.aliases = out.aliases
      /\ o.diagnostics = out.diagnostics
      /\ \A m \in o.mentions : m = Mention(path) \/ Fine(m)
  BY MentionedFine
<1>2. path \in Seq(Words) /\ Len(path) \in Nat \ {0}
  BY NamesType DEF Walking, IInv, Shapes
<1>3. \A d \in DOMAIN o.aliases : o.aliases[d] \in Seq(Words)
  BY <1>1 DEF Walking, IInv, Shapes
<1> HIDE DEF o
<1>4. CASE Len(path) > 1
  <2>1. Handled(o, ResolvePath(o, path), path)
    BY <1>1, <1>2, <1>3, <1>4, PathHandled
  <2>2. ~OwnCase(path)
    BY <1>2, <1>4, OneOrMore, Zenon DEF OwnCase
  <2>3. \A m \in ResolvePath(o, path).mentions : Fine(m)
    BY <1>1, <1>2, <2>1, <2>2, HandledFine
  <2>4. Resolved(ResolvePath(o, path))
    BY <1>1, <2>1, <2>3 DEF Handled, Resolved
  <2> QED BY <2>4 DEF o
<1>5. CASE Len(path) = 1
  <2> DEFINE q == UseAlias(o, path)
  <2>1. /\ DOMAIN q = OutFields /\ q.aliases = o.aliases
        /\ q.diagnostics = o.diagnostics /\ q.mentions = o.mentions
    BY <1>1 DEF UseAlias, OutFields
  <2>2. ResolvePath(o, path) = ResolveName(q, path, path)
    BY <1>2, <1>5, PathOfOne
  <2> HIDE DEF q
  <2>3. Handled(q, ResolveName(q, path, path), path)
    BY <1>2, <1>5, <2>1, NameHandled
  <2>4. \A m \in ResolveName(q, path, path).mentions : Fine(m)
    BY <1>1, <1>2, <1>5, <2>1, NameFine
  <2>5. Resolved(ResolvePath(o, path))
    BY <1>1, <2>1, <2>2, <2>3, <2>4 DEF Handled, Resolved
  <2> QED BY <2>5 DEF o
<1>6. Len(path) > 1 \/ Len(path) = 1
  BY <1>2, OneOrMore, Zenon
<1> QED BY <1>4, <1>5, <1>6

LEMMA TypeResolved ==
  ASSUME Walking, NEW name \in program.types
  PROVE  Resolved(ResolveType(out, name))
<1> DEFINE r == ResolveType(out, name)
<1>1. Resolved(out) /\ DOMAIN out = OutFields
  BY OutResolved
<1>2. name \in Seq(Words) /\ Len(name) \in Nat \ {0}
  BY NamesType DEF Walking, IInv, Shapes
<1>3. CASE Len(name) > 1
  <2>1. r = out \/ r = ResolveName(out, name, name) \/ r = ResolveName(out, Front(name), name)
    BY <1>3 DEF ResolveType, ResolveTypeName
  <2>2. \A n : Handled(out, ResolveName(out, n, name), name)
    BY <1>1, <1>3, NameHandled
  <2>3. ~OwnCase(name)
    BY <1>2, <1>3, OneOrMore, Zenon DEF OwnCase
  <2>4. \A n : Resolved(ResolveName(out, n, name))
    <3> TAKE n
    <3>1. \A m \in ResolveName(out, n, name).mentions : Fine(m)
      BY <1>1, <1>2, <2>2, <2>3, HandledFine DEF Resolved
    <3> QED BY <2>2, <3>1 DEF Resolved, Handled
  <2> HIDE DEF r
  <2>5. Resolved(r)
    BY <1>1, <2>1, <2>4
  <2> QED BY <2>5 DEF r
<1>4. CASE Len(name) = 1
  <2>1. r = out \/ r = ResolveName(out, name, name)
    BY <1>4 DEF ResolveType, ResolveTypeName
  <2>2. Resolved(ResolveName(out, name, name))
    BY <1>2, <1>4, LocalResolved
  <2> HIDE DEF r
  <2>3. Resolved(r)
    BY <1>1, <2>1, <2>2
  <2> QED BY <2>3 DEF r
<1>5. Len(name) > 1 \/ Len(name) = 1
  BY <1>2, OneOrMore, Zenon
<1> QED BY <1>3, <1>4, <1>5

-----------------------------------------------------------------------------
(* The forms being walked.                                                 *)

ItemForms ==
  {"Function", "Decl", "Interface", "Mutual", "Implement", "Struct",
   "Bitfield", "Enum", "TypeAlias", "RootAlias", "Constraint", "VarDecl",
   "Verify", "Property", "Given", "Actor", "Capability", "Field",
   "Handler", "Namespace", "Machine"}
StatementForms ==
  {"Block", "Local", "TypeBind", "Plain", "Trace", "If", "ElseIf",
   "While", "For", "Match", "Arm"}
ExpressionForms == {"Call", "GenericCall", "Handle", "InlineFn"}

LEMMA Forms ==
  /\ DOMAIN ItemScript = ItemForms
  /\ DOMAIN StatementScript = StatementForms
  /\ DOMAIN ExpressionScript = ExpressionForms
<1>1. DOMAIN ItemScript = ItemForms
  BY DEF ItemScript, ItemForms
<1>2. DOMAIN StatementScript = StatementForms
  BY DEF StatementScript, StatementForms
<1>3. DOMAIN ExpressionScript = ExpressionForms
  BY DEF ExpressionScript, ExpressionForms
<1> QED BY <1>1, <1>2, <1>3

LEMMA FormsApart ==
  /\ ItemForms \intersect StatementForms = {}
  /\ ItemForms \intersect ExpressionForms = {}
  /\ StatementForms \intersect ExpressionForms = {}
BY DEF ItemForms, StatementForms, ExpressionForms

LEMMA ScriptOf ==
  /\ DOMAIN Script = ItemForms \union StatementForms \union ExpressionForms
  /\ \A form \in ItemForms : Script[form] = ItemScript[form]
  /\ \A form \in StatementForms : Script[form] = StatementScript[form]
  /\ \A form \in ExpressionForms : Script[form] = ExpressionScript[form]
<1> DEFINE All == UNION {ItemForms, StatementForms, ExpressionForms}
<1>1. Script = [form \in All |->
                  CASE form \in ItemForms -> ItemScript[form]
                  [] form \in StatementForms -> StatementScript[form]
                  [] form \in ExpressionForms -> ExpressionScript[form]]
  BY Forms DEF Script
<1>2. All = ItemForms \union StatementForms \union ExpressionForms
  OBVIOUS
<1> HIDE DEF All
<1> QED BY <1>1, <1>2, FormsApart

\* Every script has what it opens before what it closes, and each once: its
\* scope, and its type parameters.
Paired(s, open, close) ==
  /\ \A k \in 1..Len(s) : s[k] = close => \E j \in 1..(k - 1) : s[j] = open
  /\ \A k \in 1..Len(s) : s[k] = open => \E j \in (k + 1)..Len(s) : s[j] = close
  /\ \A j, k \in 1..Len(s) : s[j] = s[k] /\ s[j] \in {open, close} => j = k
Scoped(s) ==
  Len(s) \in Nat /\ Paired(s, "push", "pop") /\ Paired(s, "add", "remove")

LEMMA ItemsScoped ==
  \A form \in ItemForms : Scoped(ItemScript[form])
<1>1. Scoped(ItemScript["Function"])
  BY DEF Scoped, Paired, ItemScript
<1>2. Scoped(ItemScript["Decl"])
  BY DEF Scoped, Paired, ItemScript
<1>3. Scoped(ItemScript["Interface"])
  BY DEF Scoped, Paired, ItemScript
<1>4. Scoped(ItemScript["Mutual"])
  BY DEF Scoped, Paired, ItemScript
<1>5. Scoped(ItemScript["Implement"])
  BY DEF Scoped, Paired, ItemScript
<1>6. Scoped(ItemScript["Struct"])
  BY DEF Scoped, Paired, ItemScript
<1>7. Scoped(ItemScript["Bitfield"])
  BY DEF Scoped, Paired, ItemScript
<1>8. Scoped(ItemScript["Enum"])
  BY DEF Scoped, Paired, ItemScript
<1>9. Scoped(ItemScript["TypeAlias"])
  BY DEF Scoped, Paired, ItemScript
<1>10. Scoped(ItemScript["RootAlias"])
  BY DEF Scoped, Paired, ItemScript
<1>11. Scoped(ItemScript["Constraint"])
  BY DEF Scoped, Paired, ItemScript
<1>12. Scoped(ItemScript["VarDecl"])
  BY DEF Scoped, Paired, ItemScript
<1>13. Scoped(ItemScript["Verify"])
  BY DEF Scoped, Paired, ItemScript
<1>14. Scoped(ItemScript["Property"])
  BY DEF Scoped, Paired, ItemScript
<1>15. Scoped(ItemScript["Given"])
  BY DEF Scoped, Paired, ItemScript
<1>16. Scoped(ItemScript["Actor"])
  BY DEF Scoped, Paired, ItemScript
<1>17. Scoped(ItemScript["Capability"])
  BY DEF Scoped, Paired, ItemScript
<1>18. Scoped(ItemScript["Field"])
  BY DEF Scoped, Paired, ItemScript
<1>19. Scoped(ItemScript["Handler"])
  BY DEF Scoped, Paired, ItemScript
<1>20. Scoped(ItemScript["Namespace"])
  BY DEF Scoped, Paired, ItemScript
<1>21. Scoped(ItemScript["Machine"])
  BY DEF Scoped, Paired, ItemScript
<1> QED BY <1>1, <1>2, <1>3, <1>4, <1>5, <1>6, <1>7, <1>8, <1>9, <1>10, <1>11,
           <1>12, <1>13, <1>14, <1>15, <1>16, <1>17, <1>18, <1>19, <1>20,
           <1>21 DEF ItemForms

LEMMA StatementsScoped ==
  \A form \in StatementForms : Scoped(StatementScript[form])
<1>1. Scoped(StatementScript["Block"])
  BY DEF Scoped, Paired, StatementScript
<1>2. Scoped(StatementScript["Local"])
  BY DEF Scoped, Paired, StatementScript
<1>3. Scoped(StatementScript["TypeBind"])
  BY DEF Scoped, Paired, StatementScript
<1>4. Scoped(StatementScript["Plain"])
  BY DEF Scoped, Paired, StatementScript
<1>5. Scoped(StatementScript["Trace"])
  BY DEF Scoped, Paired, StatementScript
<1>6. Scoped(StatementScript["If"])
  BY DEF Scoped, Paired, StatementScript
<1>7. Scoped(StatementScript["ElseIf"])
  BY DEF Scoped, Paired, StatementScript
<1>8. Scoped(StatementScript["While"])
  BY DEF Scoped, Paired, StatementScript
<1>9. Scoped(StatementScript["For"])
  BY DEF Scoped, Paired, StatementScript
<1>10. Scoped(StatementScript["Match"])
  BY DEF Scoped, Paired, StatementScript
<1>11. Scoped(StatementScript["Arm"])
  BY DEF Scoped, Paired, StatementScript
<1> QED BY <1>1, <1>2, <1>3, <1>4, <1>5, <1>6, <1>7, <1>8, <1>9, <1>10, <1>11
           DEF StatementForms

LEMMA ExpressionsScoped ==
  \A form \in ExpressionForms : Scoped(ExpressionScript[form])
<1>1. Scoped(ExpressionScript["Call"])
  BY DEF Scoped, Paired, ExpressionScript
<1>2. Scoped(ExpressionScript["GenericCall"])
  BY DEF Scoped, Paired, ExpressionScript
<1>3. Scoped(ExpressionScript["Handle"])
  BY DEF Scoped, Paired, ExpressionScript
<1>4. Scoped(ExpressionScript["InlineFn"])
  BY DEF Scoped, Paired, ExpressionScript
<1> QED BY <1>1, <1>2, <1>3, <1>4 DEF ExpressionForms

LEMMA AllScoped ==
  ASSUME NEW form \in DOMAIN Script
  PROVE  Scoped(Script[form])
<1>1. CASE form \in ItemForms
  BY <1>1, ScriptOf, ItemsScoped, Zenon
<1>2. CASE form \in StatementForms
  BY <1>2, ScriptOf, StatementsScoped, Zenon
<1>3. CASE form \in ExpressionForms
  BY <1>3, ScriptOf, ExpressionsScoped, Zenon
<1> QED BY <1>1, <1>2, <1>3, ScriptOf

\* The forms that are walked stay good when the one on top is changed or
\* returns, and when another is entered.
LEMMA FramesGrow ==
  ASSUME NEW fs, NEW t, NEW u, FramesOK(fs, t),
         Len(t.scopes) \in Nat, Len(u.scopes) \in Nat, Len(t.scopes) <= Len(u.scopes)
  PROVE  FramesOK(fs, u)
<1>1. \A i : i \in 2..Len(t.scopes) => i \in 2..Len(u.scopes)
  OBVIOUS
<1> QED BY <1>1 DEF FramesOK, FrameOK

LEMMA FramesPush ==
  ASSUME NEW fs, NEW t, FramesOK(fs, t), NEW f, FrameOK(f, t)
  PROVE  FramesOK(Append(fs, f), t) /\ Append(fs, f) # <<>>
<1> DEFINE gs == Append(fs, f)
<1>1. /\ gs \in Seq(Range(gs)) /\ Len(fs) \in Nat /\ Len(gs) = Len(fs) + 1
      /\ \A i \in 1..Len(fs) : gs[i] = fs[i]
      /\ gs[Len(fs) + 1] = f
  BY Appended DEF FramesOK
<1> HIDE DEF gs
<1>2. \A i \in 1..Len(gs) : FrameOK(gs[i], t)
  <2> TAKE i \in 1..Len(gs)
  <2>1. i \in 1..Len(fs) \/ i = Len(fs) + 1
    BY <1>1
  <2> QED BY <1>1, <2>1 DEF FramesOK
<1>3. gs # <<>>
  BY <1>1, EmptySeq
<1>4. FramesOK(gs, t)
  BY <1>1, <1>2 DEF FramesOK
<1> QED BY <1>3, <1>4 DEF gs

LEMMA FramesPop ==
  ASSUME NEW fs, NEW t, FramesOK(fs, t), fs # <<>>
  PROVE  FramesOK(Front(fs), t) /\ FrameOK(Last(fs), t)
<1> DEFINE gs == Front(fs)
<1>1. /\ gs \in Seq(Range(fs)) /\ Len(fs) \in Nat \ {0}
      /\ Len(gs) = Len(fs) - 1
      /\ \A i \in 1..(Len(fs) - 1) : gs[i] = fs[i]
  BY WithoutLast DEF FramesOK, Front
<1> HIDE DEF gs
<1>2. gs \in Seq(Range(gs))
  BY <1>1, SeqOfRange, Zenon
<1>3. FramesOK(gs, t)
  BY <1>1, <1>2 DEF FramesOK
<1>4. FrameOK(Last(fs), t)
  BY <1>1 DEF Last, FramesOK
<1> QED BY <1>3, <1>4 DEF gs

\* After its step has been taken, the form on top goes on to the next.
LEMMA Advanced ==
  ASSUME NEW t, NEW S, AtStep(S), "push" \notin S, FrameOK(Top, t), NEW f,
         DOMAIN f = FrameFields, f.form = Top.form, f.scope = Top.scope,
         f.at = Top.at + 1
  PROVE  FrameOK(f, t)
<1>1. /\ Top.at \in Nat \ {0} /\ Script[Top.form][Top.at] # "push"
      /\ Top.form \in DOMAIN Script
  BY DEF AtStep, Step, FrameOK
<1>2. ASSUME NEW k \in 1..(f.at - 1), Script[f.form][k] = "push"
      PROVE  f.scope \in 2..Len(t.scopes)
  <2>1. k \in 1..(Top.at - 1)
    BY <1>1, <1>2
  <2> QED BY <1>2, <2>1 DEF FrameOK
<1>3. f.at \in Nat \ {0}
  BY <1>1
<1> QED BY <1>1, <1>2, <1>3 DEF FrameOK

-----------------------------------------------------------------------------
(* The invariant is inductive.                                             *)

\* A step of the walk of an item.
LEMMA WalkStep ==
  ASSUME IInv, pass = "reference", frames # <<>>, UNCHANGED <<walk, top>>,
         Extends(table, table'), current' \in 1..Len(table'.scopes),
         FramesOK(frames', table'), frames' # <<>>,
         DOMAIN out' = OutFields,
         \A d \in DOMAIN out'.aliases : out'.aliases[d] \in Seq(Words),
         out.diagnostics \subseteq out'.diagnostics,
         \A m \in out'.mentions : Fine(m)
  PROVE  IInv'
<1>1. /\ program' = program /\ pass' = pass /\ index' = index
      /\ namespace' = namespace /\ file' = file /\ top' = top
  BY DEF walk
<1>2. /\ Items' = Items
      /\ \A i : NamespaceAt(i)' = NamespaceAt(i)
  BY <1>1, ItemsKept
<1>3. \A i \in DOMAIN Items : Declaring(i)' <=> Declaring(i)
  BY <1>1, <1>2 DEF Declaring
<1>4. Declarations' /\ Taken' /\ \A m : Fine(m) => Fine(m)'
  BY <1>1, <1>3, Grown
<1>5. Shapes'
  BY <1>1 DEF IInv, Shapes, Extends
<1>6. Walk'
  <2>1. /\ index \in 1..(Len(Items) + 1) /\ index <= Len(Items)
        /\ namespace = NamespaceAt(index) /\ file = Items[index].file
    BY DEF IInv, Walk
  <2> QED BY <1>1, <1>2, <2>1 DEF Walk
<1> QED BY <1>4, <1>5, <1>6 DEF IInv

\* Of an item that is being walked, what holds of its walk.
LEMMA InWalk ==
  ASSUME IInv, pass = "reference", frames # <<>>
  PROVE  /\ Walking /\ Linked(table) /\ current \in 1..Len(table.scopes)
         /\ Extends(table, table)
         /\ DOMAIN out = OutFields /\ \A m \in out.mentions : Fine(m)
         /\ \A d \in DOMAIN out.aliases : out.aliases[d] \in Seq(Words)
         /\ FramesOK(frames, table) /\ FramesOK(Front(frames), table)
         /\ FrameOK(Top, table)
         /\ Len(table.scopes) \in Nat \ {0} /\ Len(table.defs) \in Nat
<1>1. /\ Linked(table) /\ current \in 1..Len(table.scopes)
      /\ DOMAIN out = OutFields /\ \A m \in out.mentions : Fine(m)
      /\ \A d \in DOMAIN out.aliases : out.aliases[d] \in Seq(Words)
      /\ FramesOK(frames, table) /\ program \in Programs
  BY DEF IInv, Shapes
<1>2. index \in 1..(Len(Items) + 1) /\ index <= Len(Items) /\ namespace = NamespaceAt(index)
  BY DEF IInv, Walk
<1>3. index \in 1..Len(Items)
  BY <1>1, <1>2, ItemsType
<1>4. Walking
  BY <1>2, <1>3 DEF Walking
<1>5. FramesOK(Front(frames), table) /\ FrameOK(Top, table)
  BY <1>1, FramesPop DEF Top
<1> QED BY <1>1, <1>4, <1>5, ExtendsSame, Lengths

\* Steps that leave the scope table as it is.
LEMMA TableKept ==
  ASSUME IInv, pass = "reference", frames # <<>>, UNCHANGED <<walk, top, table>>,
         current' \in 1..Len(table.scopes), Resolved(out'),
         FramesOK(frames', table), frames' # <<>>
  PROVE  IInv'
<1>1. Extends(table, table') /\ FramesOK(frames', table')
      /\ current' \in 1..Len(table'.scopes)
  BY InWalk
<1>2. /\ DOMAIN out' = OutFields
      /\ \A d \in DOMAIN out'.aliases : out'.aliases[d] \in Seq(Words)
      /\ out.diagnostics \subseteq out'.diagnostics
      /\ \A m \in out'.mentions : Fine(m)
  BY InWalk DEF Resolved
<1> QED BY <1>1, <1>2, WalkStep

\* Steps that only go on in the form on top.
LEMMA TopKept ==
  ASSUME IInv, NEW S, AtStep(S), "push" \notin S, UNCHANGED <<walk, top, table>>,
         current' \in 1..Len(table.scopes), Resolved(out'), NEW f,
         DOMAIN f = FrameFields, f.form = Top.form, f.scope = Top.scope,
         f.at = Top.at + 1, frames' = Append(Front(frames), f)
  PROVE  IInv'
<1>1. pass = "reference" /\ frames # <<>>
  BY DEF AtStep
<1>2. FrameOK(f, table)
  BY <1>1, InWalk, Advanced
<1>3. FramesOK(frames', table) /\ frames' # <<>>
  BY <1>1, <1>2, InWalk, FramesPush
<1> QED BY <1>1, <1>3, TableKept

LEMMA AdvanceStep ==
  ASSUME IInv, NEW S, AtStep(S), "push" \notin S, UNCHANGED <<walk, top, table>>,
         current' \in 1..Len(table.scopes), Resolved(out'), Advance
  PROVE  IInv'
<1> DEFINE f == [Top EXCEPT !.at = @ + 1]
<1>1. FrameOK(Top, table)
  BY InWalk DEF AtStep
<1>2. /\ DOMAIN f = FrameFields /\ f.form = Top.form /\ f.scope = Top.scope
      /\ f.at = Top.at + 1
  BY <1>1 DEF FrameOK, FrameFields
<1>3. frames' = Append(Front(frames), f)
  BY DEF Advance, SetTop
<1> HIDE DEF f
<1> QED BY <1>2, <1>3, TopKept

LEMMA PushScopeStep ==
  ASSUME IInv, PushScope
  PROVE  IInv'
<1> DEFINE f == [Top EXCEPT !.at = @ + 1, !.scope = Len(table.scopes) + 1]
           n == Len(table.scopes) + 1
<1>1. /\ pass = "reference" /\ frames # <<>> /\ UNCHANGED <<walk, top, out>>
      /\ table' = NewScope(table, current) /\ current' = n
      /\ frames' = Append(Front(frames), f)
  BY DEF PushScope, AtStep, SetTop
<1>2. /\ Linked(table) /\ current \in 1..Len(table.scopes) /\ FrameOK(Top, table)
      /\ FramesOK(Front(frames), table) /\ Len(table.scopes) \in Nat \ {0}
  BY <1>1, InWalk
<1>3. Extends(table, table')
  BY <1>1, <1>2, ExtendsOpened
<1>4. Len(table'.scopes) = n
  BY <1>1, <1>2, Opened
<1>5. n \in 1..n /\ n \in 2..n
  BY <1>2
<1>6. FrameOK(f, table')
  <2>1. /\ DOMAIN f = FrameFields /\ f.form = Top.form /\ f.scope = n
        /\ f.at = Top.at + 1
    BY <1>2 DEF FrameOK, FrameFields
  <2>2. Top.form \in DOMAIN Script /\ Top.at + 1 \in Nat \ {0}
    BY <1>2 DEF FrameOK
  <2> HIDE DEF f
  <2> QED BY <1>4, <1>5, <2>1, <2>2 DEF FrameOK
<1>7. FramesOK(Front(frames), table')
  <2>1. Len(table'.scopes) \in Nat /\ Len(table.scopes) <= Len(table'.scopes)
    BY <1>2, <1>4
  <2> QED BY <1>2, <2>1, FramesGrow
<1>8. FramesOK(frames', table') /\ frames' # <<>>
  <2> HIDE DEF f
  <2> QED BY <1>1, <1>6, <1>7, FramesPush
<1>9. out' = out
  BY <1>1
<1>10. current' \in 1..Len(table'.scopes)
  BY <1>1, <1>4, <1>5
<1> QED BY <1>1, <1>3, <1>8, <1>9, <1>10, InWalk, WalkStep

LEMMA PopScopeStep ==
  ASSUME IInv, PopScope
  PROVE  IInv'
<1>1. /\ pass = "reference" /\ frames # <<>> /\ UNCHANGED <<walk, top, table, out>>
      /\ current' = table.scopes[Top.scope].parent /\ Advance
      /\ AtStep({"pop"})
  BY DEF PopScope, AtStep
<1>2. Linked(table) /\ FrameOK(Top, table) /\ Len(table.scopes) \in Nat
  BY <1>1, InWalk
<1>3. Top.scope \in 2..Len(table.scopes)
  <2>1. /\ Top.form \in DOMAIN Script /\ Top.at \in 1..Len(Script[Top.form])
        /\ Script[Top.form][Top.at] = "pop"
    BY <1>1, <1>2 DEF AtStep, Step, FrameOK
  <2>2. \E j \in 1..(Top.at - 1) : Script[Top.form][j] = "push"
    BY <2>1, AllScoped DEF Scoped, Paired
  <2> QED BY <1>2, <2>2 DEF FrameOK
<1>4. current' \in 1..Len(table.scopes)
  <2>1. table.scopes[Top.scope].parent \in 1..(Top.scope - 1)
    BY <1>2, <1>3 DEF Linked
  <2> QED BY <1>1, <1>2, <1>3, <2>1
<1>5. Resolved(out')
  BY <1>1, InWalk DEF Resolved
<1>6. "push" \notin {"pop"}
  OBVIOUS
<1> QED BY <1>1, <1>4, <1>5, <1>6, AdvanceStep

LEMMA TypeParamsStep ==
  ASSUME IInv, AddTypeParams \/ RemoveTypeParams
  PROVE  IInv'
<1>1. /\ pass = "reference" /\ frames # <<>>
      /\ UNCHANGED <<walk, top, table, out, current>>
  BY DEF AddTypeParams, RemoveTypeParams, AtStep
<1>2. /\ current' \in 1..Len(table.scopes) /\ FrameOK(Top, table)
      /\ Resolved(out')
  <2>1. current \in 1..Len(table.scopes) /\ FrameOK(Top, table) /\ Resolved(out)
    BY <1>1, InWalk, OutResolved
  <2> QED BY <1>1, <2>1 DEF Resolved
<1>3. CASE AddTypeParams
  <2> DEFINE added == program.params[Top.form] \ typeParams
             f == [Top EXCEPT !.at = @ + 1, !.added = added]
  <2>1. frames' = Append(Front(frames), f) /\ AtStep({"add"})
    BY <1>3 DEF AddTypeParams, SetTop
  <2>2. /\ DOMAIN f = FrameFields /\ f.form = Top.form /\ f.scope = Top.scope
        /\ f.at = Top.at + 1
    BY <1>2 DEF FrameOK, FrameFields
  <2>3. "push" \notin {"add"}
    OBVIOUS
  <2> HIDE DEF f
  <2> QED BY <1>1, <1>2, <2>1, <2>2, <2>3, TopKept
<1>4. CASE RemoveTypeParams
  <2>1. Advance /\ AtStep({"remove"}) /\ "push" \notin {"remove"}
    BY <1>4 DEF RemoveTypeParams
  <2> QED BY <1>1, <1>2, <2>1, AdvanceStep
<1> QED BY <1>3, <1>4

LEMMA PushIsNoForm == "push" \notin DOMAIN Script
BY ScriptOf DEF ItemForms, StatementForms, ExpressionForms

LEMMA EndOfStepStep ==
  ASSUME IInv, EndOfStep
  PROVE  IInv'
<1> DEFINE S == {"stmts", "body", "exprs", "types", "error", "else", "params",
                 "variables"} \union (DOMAIN Script \ {"Block"})
<1>1. /\ pass = "reference" /\ frames # <<>> /\ AtStep(S) /\ Advance
      /\ UNCHANGED <<walk, top, table, out, current>>
  BY DEF EndOfStep, AtStep
<1>2. "push" \notin S
  BY PushIsNoForm
<1>3. current' \in 1..Len(table.scopes) /\ Resolved(out')
  <2>1. current \in 1..Len(table.scopes) /\ Resolved(out)
    BY <1>1, InWalk, OutResolved
  <2> QED BY <1>1, <2>1 DEF Resolved
<1> HIDE DEF S
<1> QED BY <1>1, <1>2, <1>3, AdvanceStep

\* The form that is entered goes on top of the one it is in.
LEMMA Entered ==
  ASSUME IInv, pass = "reference", frames # <<>>,
         UNCHANGED <<walk, top, table, out, current>>,
         NEW f, FrameOK(f, table), NEW form \in DOMAIN Script,
         frames' = Append(Append(Front(frames), f), Frame(form))
  PROVE  IInv'
<1>1. current' \in 1..Len(table.scopes) /\ Resolved(out')
  <2>1. current \in 1..Len(table.scopes) /\ Resolved(out)
    BY InWalk, OutResolved
  <2> QED BY <2>1 DEF Resolved
<1>2. FrameOK(Frame(form), table)
  <2>1. /\ DOMAIN Frame(form) = FrameFields /\ Frame(form).form = form
        /\ Frame(form).at = 1
    BY DEF Frame, FrameFields
  <2> QED BY <2>1 DEF FrameOK
<1>3. FramesOK(Append(Front(frames), f), table)
  BY InWalk, FramesPush
<1>4. FramesOK(frames', table) /\ frames' # <<>>
  BY <1>2, <1>3, FramesPush
<1> QED BY <1>1, <1>4, TableKept

LEMMA EnterBlockFrames ==
  ASSUME IInv, EnterBlock
  PROVE  frames' = Append(Append(Front(frames), [Top EXCEPT !.at = @ + 1]),
                          Frame("Block"))
<1> DEFINE f == [Top EXCEPT !.at = @ + 1]
           fs == Append(Front(frames), f)
           S == Range(fs) \union {Frame("Block")}
<1>1. frames' = fs \o <<Frame("Block")>> /\ pass = "reference" /\ frames # <<>>
  BY DEF EnterBlock, AtStep
<1>2. Front(frames) \in Seq(Range(Front(frames)))
  BY <1>1, InWalk DEF FramesOK
<1>3. fs \in Seq(Range(fs))
  <2> HIDE DEF f
  <2> QED BY <1>2, Appended
<1>4. fs \in Seq(S) /\ Frame("Block") \in S
  <2>1. Range(fs) \subseteq S
    OBVIOUS
  <2> HIDE DEF fs
  <2> QED BY <1>3, <2>1, WiderSeq
<1> HIDE DEF fs, S
<1>5. frames' = Append(fs, Frame("Block"))
  BY <1>1, <1>4, AppendIsConcat
<1> QED BY <1>5 DEF fs

LEMMA EnterBlockStep ==
  ASSUME IInv, EnterBlock
  PROVE  IInv'
<1> DEFINE f == [Top EXCEPT !.at = @ + 1]
<1>1. /\ pass = "reference" /\ frames # <<>> /\ AtStep({"Block"})
      /\ UNCHANGED <<walk, top, table, out, current>>
  BY DEF EnterBlock, AtStep
<1>2. FrameOK(Top, table)
  BY <1>1, InWalk
<1>3. FrameOK(f, table)
  <2>1. /\ DOMAIN f = FrameFields /\ f.form = Top.form /\ f.scope = Top.scope
        /\ f.at = Top.at + 1
    BY <1>2 DEF FrameOK, FrameFields
  <2>2. "push" \notin {"Block"}
    OBVIOUS
  <2> HIDE DEF f
  <2> QED BY <1>1, <1>2, <2>1, <2>2, Advanced
<1>4. "Block" \in DOMAIN Script
  BY ScriptOf DEF StatementForms
<1>5. frames' = Append(Append(Front(frames), f), Frame("Block"))
  BY EnterBlockFrames
<1> HIDE DEF f
<1> QED BY <1>1, <1>3, <1>4, <1>5, Entered

\* The form on top when a nested one is entered.
EnteredTop == [Top EXCEPT !.pastUse = @ \/ Step = "body",
                          !.at = IF Step = "else" THEN @ + 1 ELSE @]
LEMMA EnterFrames ==
  ASSUME IInv, Enter
  PROVE  \E form \in DOMAIN Script :
           frames' = Append(Append(Front(frames), EnteredTop), Frame(form))
<1>1. PICK form \in program.menu \union {"Block"} :
           frames' = Front(frames) \o <<EnteredTop, Frame(form)>>
  BY DEF Enter, EnteredTop
<1>2. form \in DOMAIN Script
  <2>1. program.menu \subseteq DOMAIN Script
    BY ProgramsHoldNames DEF IInv, Shapes
  <2>2. "Block" \in DOMAIN Script
    BY ScriptOf DEF StatementForms
  <2> QED BY <2>1, <2>2
<1>3. Front(frames) \in Seq(Range(Front(frames)))
  BY InWalk DEF FramesOK, Enter, AtStep
<1>4. frames' = Append(Append(Front(frames), EnteredTop), Frame(form))
  <2> DEFINE fs == Front(frames)
             T == Range(fs) \union {EnteredTop, Frame(form)}
  <2>1. fs \in Seq(T) /\ EnteredTop \in T /\ Frame(form) \in T
    <3>1. Range(fs) \subseteq T /\ fs \in Seq(Range(fs))
      BY <1>3
    <3> HIDE DEF fs
    <3> QED BY <3>1, WiderSeq
  <2> HIDE DEF fs, T
  <2>2. fs \o <<EnteredTop, Frame(form)>> = Append(Append(fs, EnteredTop), Frame(form))
    BY <2>1, AppendTwice
  <2> QED BY <1>1, <2>2 DEF fs
<1> QED BY <1>2, <1>4

LEMMA EnterStep ==
  ASSUME IInv, Enter
  PROVE  IInv'
<1> DEFINE f == EnteredTop
           S == {"stmts", "body", "exprs", "else"} \union (DOMAIN Script \ {"Block"})
<1>1. PICK form \in DOMAIN Script :
           frames' = Append(Append(Front(frames), f), Frame(form))
  BY EnterFrames
<1>2. /\ pass = "reference" /\ frames # <<>> /\ AtStep(S)
      /\ UNCHANGED <<walk, top, table, out, current>>
  BY DEF Enter, AtStep
<1>3. FrameOK(Top, table)
  BY <1>2, InWalk
<1>4. "push" \notin S
  BY PushIsNoForm
<1>5. FrameOK(f, table)
  <2>1. /\ DOMAIN f = FrameFields /\ f.form = Top.form /\ f.scope = Top.scope
        /\ f.at = IF Step = "else" THEN Top.at + 1 ELSE Top.at
    BY <1>3 DEF FrameOK, FrameFields, EnteredTop
  <2> HIDE DEF f, S
  <2>2. CASE Step = "else"
    BY <1>2, <1>3, <1>4, <2>1, <2>2, Advanced
  <2>3. CASE Step # "else"
    BY <1>3, <2>1, <2>3 DEF FrameOK
  <2> QED BY <2>2, <2>3
<1> HIDE DEF f, S
<1> QED BY <1>1, <1>2, <1>5, Entered

\* References: the output is what the reference leaves of it.
LEMMA ReferenceStep ==
  ASSUME IInv, Reference \/ TypeReference
  PROVE  IInv'
<1>1. /\ pass = "reference" /\ frames # <<>>
      /\ UNCHANGED <<walk, top, table, current, frames>>
  BY DEF Reference, TypeReference, Lookups, AtStep
<1>2. /\ Walking /\ current' \in 1..Len(table.scopes) /\ FramesOK(frames', table)
      /\ frames' # <<>>
  BY <1>1, InWalk
<1>3. CASE Reference
  <2>1. \E p \in Paths : out' = ResolvePath(Mentioned(out, p), p)
    BY <1>3 DEF Reference, Lookups, ResolvedPath
  <2>2. Resolved(out')
    BY <1>2, <2>1, PathResolved
  <2> QED BY <1>1, <1>2, <2>2, TableKept
<1>4. CASE TypeReference
  <2>1. \E n \in program.types : out' = ResolveType(out, n)
    BY <1>4 DEF TypeReference, Lookups
  <2>2. Resolved(out')
    BY <1>2, <2>1, TypeResolved
  <2> QED BY <1>1, <1>2, <2>2, TableKept
<1> QED BY <1>3, <1>4

LEMMA NameReferenceStep ==
  ASSUME IInv, NameReference
  PROVE  IInv'
<1>1. /\ pass = "reference" /\ frames # <<>> /\ AtStep({"name"}) /\ Advance
      /\ UNCHANGED <<walk, top, table, current>>
  BY DEF NameReference, Lookups, AtStep
<1>2. Walking /\ current' \in 1..Len(table.scopes)
  BY <1>1, InWalk
<1>3. PICK n \in program.locals : out' = ResolveName(Mentioned(out, n), n, n)
  BY DEF NameReference, Lookups
<1>4. n \in Seq(Words) /\ Len(n) = 1
  BY NamesType DEF IInv, Shapes
<1>5. Resolved(out')
  BY <1>2, <1>3, <1>4, LocalResolved
<1>6. "push" \notin {"name"}
  OBVIOUS
<1> QED BY <1>1, <1>2, <1>5, <1>6, AdvanceStep

LEMMA CalleeStep ==
  ASSUME IInv, Callee
  PROVE  IInv'
<1>1. /\ pass = "reference" /\ frames # <<>> /\ AtStep({"callee"})
      /\ UNCHANGED <<walk, top, table, current>>
  BY DEF Callee, AtStep
<1>2. Walking /\ current' \in 1..Len(table.scopes) /\ FrameOK(Top, table)
  BY <1>1, InWalk, SMTT(30)
<1>3. PICK p \in Paths : /\ out' = ResolvePath(Mentioned(out, p), p)
                         /\ \E c : frames' = Append(Front(frames),
                              [Top EXCEPT !.at = @ + 1, !.callee = c])
  BY DEF Callee, ResolvedPath, SetTop
<1> PICK c : frames' = Append(Front(frames), [Top EXCEPT !.at = @ + 1, !.callee = c])
  BY <1>3
<1>4. Resolved(out')
  BY <1>2, <1>3, PathResolved
<1> DEFINE f == [Top EXCEPT !.at = @ + 1, !.callee = c]
<1>5. /\ DOMAIN f = FrameFields /\ f.form = Top.form /\ f.scope = Top.scope
      /\ f.at = Top.at + 1
  BY <1>2 DEF FrameOK, FrameFields
<1>6. "push" \notin {"callee"} /\ frames' = Append(Front(frames), f)
  BY <1>3
<1> HIDE DEF f
<1> QED BY <1>1, <1>2, <1>4, <1>5, <1>6, TopKept

LEMMA ArgumentStep ==
  ASSUME IInv, Argument
  PROVE  IInv'
<1>1. /\ pass = "reference" /\ frames # <<>> /\ AtStep({"argument"}) /\ Advance
      /\ UNCHANGED <<walk, top, table, current>>
  BY DEF Argument, AtStep
<1>2. Walking /\ current' \in 1..Len(table.scopes)
  BY <1>1, InWalk
<1>3. PICK p \in Paths : out' = out \/ out' = ResolvePath(Mentioned(out, p), p)
  BY DEF Argument, ResolvedPath
<1>4. Resolved(ResolvePath(Mentioned(out, p), p)) /\ Resolved(out)
  BY <1>2, PathResolved, OutResolved
<1>5. Resolved(out')
  BY <1>3, <1>4
<1>6. "push" \notin {"argument"}
  OBVIOUS
<1> QED BY <1>1, <1>2, <1>5, <1>6, AdvanceStep

\* A name that is not found in a scope is not bound there.
LEMMA NotBound ==
  ASSUME NEW t, Linked(t), NEW s \in 1..Len(t.scopes), NEW name,
         LookupLocal(t, s, name) = 0
  PROVE  name \notin DOMAIN t.scopes[s].bind
<1> DEFINE among == Binders(t, s, name) \intersect {s}
<1>1. among \in SUBSET Binders(t, s, name)
  OBVIOUS
<1>2. among # {} => Found(t, among, name) \in 1..Len(t.defs)
  <2> HIDE DEF among
  <2> QED BY <1>1, FoundIn
<1>3. Found(t, among, name) = 0
  BY DEF LookupLocal
<1>4. among = {}
  <2> HIDE DEF among
  <2> QED BY <1>2, <1>3
<1>5. s \in Chain(t, s)
  BY ChainOf
<1> QED BY <1>4, <1>5 DEF Binders

\* A step that makes a local definition and binds it in the current scope.
LEMMA LocalBound ==
  ASSUME IInv, pass = "reference", frames # <<>>, UNCHANGED <<walk, top, current>>,
         NEW d, NEW name, Len(name) = 1, LookupLocal(table, current, name) = 0,
         table' = Bind(NewDef(table, d), current, name),
         FramesOK(frames', table), frames' # <<>>,
         DOMAIN out' = OutFields, out'.mentions = out.mentions,
         \A e \in DOMAIN out'.aliases : out'.aliases[e] \in Seq(Words),
         out.diagnostics \subseteq out'.diagnostics
  PROVE  IInv'
<1>1. /\ Linked(table) /\ current \in 1..Len(table.scopes)
      /\ Len(table.scopes) \in Nat \ {0} /\ \A m \in out.mentions : Fine(m)
  BY InWalk
<1>2. name \notin DOMAIN table.scopes[current].bind
  BY <1>1, NotBound
<1>3. Extends(table, table')
  BY <1>1, <1>2, ExtendsBound
<1>4. Len(table'.scopes) = Len(table.scopes)
  BY <1>1, <1>2, Bound
<1>5. FramesOK(frames', table')
  BY <1>1, <1>4, FramesGrow
<1>6. current' \in 1..Len(table'.scopes)
  BY <1>1, <1>4
<1>7. \A m \in out'.mentions : Fine(m)
  BY <1>1
<1> QED BY <1>3, <1>5, <1>6, <1>7, WalkStep

LEMMA DeclareNamesStep ==
  ASSUME IInv, DeclareNames
  PROVE  IInv'
<1>1. /\ pass = "reference" /\ frames # <<>> /\ AtStep(DOMAIN KindOf)
      /\ UNCHANGED <<walk, top, current>> /\ (frames' = frames \/ Advance)
  BY DEF DeclareNames, AtStep
<1>2. PICK name \in program.locals :
        DeclareLocal(name, KindOf[Step], Step \notin {"untracked", "error", "type"})
  BY DEF DeclareNames
<1>3. /\ Walking /\ current' \in 1..Len(table.scopes) /\ FrameOK(Top, table)
      /\ FramesOK(frames, table) /\ FramesOK(Front(frames), table)
      /\ Linked(table) /\ DOMAIN out = OutFields
      /\ \A d \in DOMAIN out.aliases : out.aliases[d] \in Seq(Words)
  BY <1>1, InWalk
<1>4. FramesOK(frames', table) /\ frames' # <<>>
  <2> DEFINE f == [Top EXCEPT !.at = @ + 1]
  <2>1. CASE frames' = frames
    BY <1>1, <1>3, <2>1
  <2>2. CASE Advance
    <3>1. /\ DOMAIN f = FrameFields /\ f.form = Top.form /\ f.scope = Top.scope
          /\ f.at = Top.at + 1
      BY <1>3 DEF FrameOK, FrameFields
    <3>2. "push" \notin DOMAIN KindOf
      BY DEF KindOf
    <3>3. frames' = Append(Front(frames), f)
      BY <2>2 DEF Advance, SetTop
    <3> HIDE DEF f
    <3>4. FrameOK(f, table)
      BY <1>1, <1>3, <3>1, <3>2, Advanced
    <3> QED BY <1>3, <3>3, <3>4, FramesPush
  <2> QED BY <1>1, <2>1, <2>2
<1>5. Len(name) = 1
  BY NamesType DEF IInv, Shapes
<1>6. CASE UNCHANGED table
  <2>1. \E code : out' = Emit(out, code, name)
    <3>1. CASE \E code : out' = Emit(out, code, name)
      BY <3>1
    <3>2. CASE ~\E code : out' = Emit(out, code, name)
      <4>1. \E d : table = Bind(NewDef(table, d), current, name)
                   /\ LookupLocal(table, current, name) = 0
        BY <1>2, <1>6, <3>2 DEF DeclareLocal
      <4>2. PICK d : /\ table = Bind(NewDef(table, d), current, name)
                     /\ LookupLocal(table, current, name) = 0
        BY <4>1
      <4>3. current \in 1..Len(table.scopes)
        BY <1>1, <1>3
      <4>4. name \notin DOMAIN table.scopes[current].bind
        BY <1>3, <4>2, <4>3, NotBound
      <4>5. Len(Bind(NewDef(table, d), current, name).defs) = Len(table.defs) + 1
        BY <1>3, <1>5, <4>3, <4>4, Bound
      <4>6. Len(table.defs) \in Nat
        BY <1>3, Lengths
      <4> QED BY <4>2, <4>5, <4>6
    <3> QED BY <3>1, <3>2
  <2>2. Resolved(out')
    BY <1>3, <2>1, Emitted, OutResolved DEF Resolved
  <2> QED BY <1>1, <1>3, <1>4, <1>6, <2>2, TableKept
<1>7. CASE ~UNCHANGED table
  <2>1. PICK d : /\ table' = Bind(NewDef(table, d), current, name)
                 /\ LookupLocal(table, current, name) = 0
    BY <1>2, <1>7 DEF DeclareLocal
  <2>2. \E v : out' = out \/ out' = [out EXCEPT !.vars = v]
    BY <1>2, <1>7 DEF DeclareLocal
  <2>3. /\ DOMAIN out' = OutFields /\ out'.mentions = out.mentions
        /\ out'.aliases = out.aliases /\ out'.diagnostics = out.diagnostics
    BY <1>3, <2>2 DEF OutFields
  <2> QED BY <1>1, <1>3, <1>4, <1>5, <2>1, <2>3, LocalBound
<1> QED BY <1>6, <1>7

LEMMA UseStep ==
  ASSUME IInv, Use
  PROVE  IInv'
<1>1. /\ pass = "reference" /\ frames # <<>>
      /\ UNCHANGED <<walk, top, current, frames>>
  BY DEF Use, AtStep
<1>2. PICK u \in program.uses : DeclareUse(u.path, u.bound)
  BY DEF Use
<1>3. /\ Walking /\ current' \in 1..Len(table.scopes)
      /\ FramesOK(frames', table) /\ frames' # <<>> /\ DOMAIN out = OutFields
      /\ \A d \in DOMAIN out.aliases : out.aliases[d] \in Seq(Words)
      /\ \A m \in out.mentions : Fine(m)
  BY <1>1, InWalk
<1>4. Len(u.bound) = 1 /\ u.path \in Seq(Words)
  BY NamesType DEF IInv, Shapes
<1> DEFINE id == Len(table.defs) + 1
           valid == IF IsNamespace(u.path) THEN out ELSE Emit(out, "undefined", u.path)
           late == IF Step = "body" /\ Top.pastUse
                   THEN Emit(valid, "use_not_at_top", u.path) ELSE valid
<1>5. /\ DOMAIN late = OutFields /\ late.aliases = out.aliases
      /\ out.diagnostics \subseteq late.diagnostics /\ late.mentions = out.mentions
  <2>1. /\ DOMAIN valid = OutFields /\ valid.aliases = out.aliases
        /\ out.diagnostics \subseteq valid.diagnostics
        /\ valid.mentions = out.mentions
    BY <1>3, Emitted
  <2> HIDE DEF valid
  <2>2. LET r == Emit(valid, "use_not_at_top", u.path)
        IN /\ DOMAIN r = OutFields /\ r.aliases = valid.aliases
           /\ valid.diagnostics \subseteq r.diagnostics
           /\ r.mentions = valid.mentions
    BY <2>1, Emitted
  <2> QED BY <2>1, <2>2
<1>6. \/ /\ out' = [late EXCEPT !.diagnostics = @ \union {Diagnostic("duplicate", u.bound)}]
         /\ UNCHANGED table
      \/ /\ LookupLocal(table, current, u.bound) = 0
         /\ table' = Bind(NewDef(table, Def(u.bound, "Namespace", None, "Private")),
                          current, u.bound)
         /\ out' = [late EXCEPT !.uses = @ \union {id},
                      !.aliases = IF IsNamespace(u.path) THEN With(@, id, u.path)
                                  ELSE @]
  BY <1>2 DEF DeclareUse
<1> HIDE DEF late, id
<1>7. CASE /\ out' = [late EXCEPT !.diagnostics = @ \union {Diagnostic("duplicate", u.bound)}]
           /\ UNCHANGED table
  <2>1. /\ DOMAIN out' = OutFields /\ out'.aliases = out.aliases
        /\ out.diagnostics \subseteq out'.diagnostics /\ out'.mentions = out.mentions
    BY <1>5, <1>7 DEF OutFields
  <2>2. Resolved(out')
    BY <1>3, <2>1 DEF Resolved
  <2> QED BY <1>1, <1>3, <1>7, <2>2, TableKept
<1>8. CASE /\ LookupLocal(table, current, u.bound) = 0
           /\ table' = Bind(NewDef(table, Def(u.bound, "Namespace", None, "Private")),
                            current, u.bound)
           /\ out' = [late EXCEPT !.uses = @ \union {id},
                      !.aliases = IF IsNamespace(u.path) THEN With(@, id, u.path)
                                  ELSE @]
  <2>1. /\ DOMAIN out' = OutFields
        /\ out.diagnostics \subseteq out'.diagnostics /\ out'.mentions = out.mentions
        /\ out'.aliases = late.aliases \/ out'.aliases = With(late.aliases, id, u.path)
    BY <1>5, <1>8 DEF OutFields
  <2>2. \A e \in DOMAIN out'.aliases : out'.aliases[e] \in Seq(Words)
    BY <1>3, <1>4, <1>5, <2>1 DEF With
  <2> QED BY <1>1, <1>3, <1>4, <1>8, <2>1, <2>2, LocalBound
<1> QED BY <1>6, <1>7, <1>8

\* Steps between items and passes.
LEMMA BetweenSteps ==
  ASSUME IInv, UNCHANGED <<program, top, table, current>>,
         Walk', FramesOK(frames', table), out'.mentions = out.mentions,
         out'.aliases = out.aliases, DOMAIN out' = OutFields,
         out.diagnostics \subseteq out'.diagnostics,
         \A i \in DOMAIN Items : Declaring(i)' <=> Declaring(i),
         pass' = "declare" => pass = "declare"
  PROVE  IInv'
<1>1. Linked(table)
  BY DEF IInv, Shapes
<1>2. Extends(table, table')
  BY <1>1, ExtendsSame
<1>3. Declarations' /\ Taken' /\ \A m : Fine(m) => Fine(m)'
  BY <1>2, Grown
<1>4. Shapes'
  BY DEF IInv, Shapes
<1> QED BY <1>3, <1>4 DEF IInv

LEMMA StartReferencesStep ==
  ASSUME IInv, StartReferences
  PROVE  IInv'
<1>1. /\ pass = "declare" /\ index > Len(Items) /\ pass' = "reference"
      /\ index' = 1 /\ namespace' = None
      /\ UNCHANGED <<program, top, table, current, out, frames>>
  BY DEF StartReferences, Rewind
<1>2. /\ index \in 1..(Len(Items) + 1) /\ frames = <<>> /\ program \in Programs
      /\ FramesOK(frames, table) /\ DOMAIN out = OutFields
  BY <1>1 DEF IInv, Shapes, Walk
<1>3. Items' = Items /\ Len(Items) \in Nat /\ DOMAIN Items = 1..Len(Items)
  BY <1>1, <1>2, ItemsKept, ItemsType
<1>4. Walk'
  BY <1>1, <1>2, <1>3 DEF Walk
<1>5. \A i \in DOMAIN Items : Declaring(i)' <=> Declaring(i)
  BY <1>1, <1>2, <1>3 DEF Declaring
<1> QED BY <1>1, <1>2, <1>4, <1>5, BetweenSteps

LEMMA BeginItemStep ==
  ASSUME IInv, BeginItem
  PROVE  IInv'
<1>1. /\ pass = "reference" /\ frames = <<>> /\ index <= Len(Items)
      /\ file' = Item.file /\ namespace' = UpdatedNamespace(Item)
      /\ frames' = Append(frames, Frame(Item.kind))
      /\ UNCHANGED <<program, top, table, current, out, pass, index>>
  BY DEF BeginItem, EnterItem, Call
<1>2. /\ index \in 1..(Len(Items) + 1) /\ program \in Programs
      /\ FramesOK(frames, table) /\ DOMAIN out = OutFields
  BY <1>1 DEF IInv, Shapes, Walk
<1>3. /\ Items' = Items /\ (\A i : NamespaceAt(i)' = NamespaceAt(i))
      /\ Len(Items) \in Nat
  BY <1>1, <1>2, ItemsKept, ItemsType
<1>4. index \in 1..Len(Items)
  BY <1>1, <1>2, <1>3
<1>5. UpdatedNamespace(Item) = NamespaceAt(index)
  BY <1>1, <1>2, <1>4, NamespaceTracked DEF IInv, Walk
<1>6. Item.kind \in DOMAIN Script
  <2>1. Item.kind \in ItemKinds
    BY <1>2, <1>4, ItemsType DEF Item
  <2>2. ItemKinds \subseteq ItemForms
    BY DEF ItemKinds, OneSegment, Named, ItemForms
  <2> QED BY <2>1, <2>2, ScriptOf
<1>7. FrameOK(Frame(Item.kind), table)
  <2> DEFINE f == Frame(Item.kind)
  <2>1. DOMAIN f = FrameFields /\ f.form = Item.kind /\ f.at = 1
    BY DEF Frame, FrameFields
  <2> HIDE DEF f
  <2>2. FrameOK(f, table)
    BY <1>6, <2>1 DEF FrameOK
  <2> QED BY <2>2 DEF f
<1>8. FramesOK(frames', table) /\ frames' # <<>>
  BY <1>1, <1>2, <1>7, FramesPush
<1>9. Walk'
  BY <1>1, <1>2, <1>3, <1>4, <1>5, <1>8 DEF Walk, Item
<1>10. \A i \in DOMAIN Items : Declaring(i)' <=> Declaring(i)
  BY <1>1, <1>3 DEF Declaring
<1> QED BY <1>1, <1>2, <1>8, <1>9, <1>10, BetweenSteps

LEMMA ReturnStep ==
  ASSUME IInv, Return
  PROVE  IInv'
<1>1. /\ pass = "reference" /\ frames # <<>> /\ frames' = Front(frames)
      /\ index' = IF Len(frames) = 1 THEN index + 1 ELSE index
      /\ UNCHANGED <<program, top, table, current, out, pass, namespace, file>>
  BY DEF Return
<1>2. /\ index \in 1..(Len(Items) + 1) /\ index <= Len(Items)
      /\ namespace = NamespaceAt(index) /\ file = Items[index].file
      /\ program \in Programs /\ DOMAIN out = OutFields
      /\ FramesOK(frames, table)
  BY <1>1 DEF IInv, Shapes, Walk
<1>3. /\ Items' = Items /\ (\A i : NamespaceAt(i)' = NamespaceAt(i))
      /\ Len(Items) \in Nat
  BY <1>1, <1>2, ItemsKept, ItemsType
<1>4. FramesOK(frames', table)
  BY <1>1, InWalk
<1>5. Len(frames) = 1 <=> frames' = <<>>
  <2>1. /\ Front(frames) \in Seq(Range(frames)) /\ Len(frames) \in Nat \ {0}
        /\ Len(Front(frames)) = Len(frames) - 1
    BY <1>1, <1>2, WithoutLast DEF FramesOK, Front
  <2>2. Front(frames) = <<>> <=> Len(Front(frames)) = 0
    BY <2>1, EmptySeq
  <2> QED BY <1>1, <2>1, <2>2
<1>6. Walk'
  <2>1. CASE Len(frames) = 1
    <3>1. index' = index + 1 /\ frames' = <<>>
      BY <1>1, <1>5, <2>1
    <3>2. /\ index + 1 \in 1..(Len(Items) + 1) /\ index + 1 # 1
          /\ (index + 1) - 1 = index
      BY <1>2, <1>3
    <3> QED BY <1>1, <1>2, <1>3, <3>1, <3>2 DEF Walk
  <2>2. CASE Len(frames) # 1
    <3>1. index' = index /\ frames' # <<>>
      BY <1>1, <1>5, <2>2
    <3> QED BY <1>1, <1>2, <1>3, <3>1 DEF Walk
  <2> QED BY <2>1, <2>2
<1>7. \A i \in DOMAIN Items : Declaring(i)' <=> Declaring(i)
  BY <1>1, <1>3 DEF Declaring
<1> QED BY <1>1, <1>2, <1>4, <1>6, <1>7, BetweenSteps

LEMMA LastSteps ==
  ASSUME IInv, FinishReferences \/ CheckUnused
  PROVE  IInv'
<1>1. /\ UNCHANGED <<program, top, table, current, index, frames>>
      /\ pass \in {"reference", "unused"} /\ pass' \in {"unused", "done"}
      /\ frames = <<>> \/ pass # "reference"
  BY DEF FinishReferences, CheckUnused
<1>2. /\ index \in 1..(Len(Items) + 1) /\ frames = <<>> /\ program \in Programs
      /\ DOMAIN out = OutFields /\ FramesOK(frames, table)
  BY <1>1 DEF IInv, Shapes, Walk
<1>3. /\ DOMAIN out' = OutFields /\ out'.mentions = out.mentions
      /\ out'.aliases = out.aliases /\ out.diagnostics \subseteq out'.diagnostics
  <2>1. CASE FinishReferences
    BY <1>2, <2>1 DEF FinishReferences
  <2>2. CASE CheckUnused
    <3>1. \E w : out' = [out EXCEPT !.diagnostics = @ \union w]
      <4> DEFINE a == {Warning("unused_variable", d) :
                         d \in {v \in Unused(out.vars) :
                                  table.defs[v].name \notin Ignored}}
                 b == {Warning("unused_import", d) : d \in Unused(out.uses)}
      <4>1. out' = [out EXCEPT !.diagnostics = (@ \union a) \union b]
        BY <2>2 DEF CheckUnused
      <4> HIDE DEF a, b
      <4>2. \A x : (x \union a) \union b = x \union (a \union b)
        OBVIOUS
      <4>3. out' = [out EXCEPT !.diagnostics = @ \union (a \union b)]
        BY <4>1, <4>2
      <4> QED BY <4>3
    <3> QED BY <1>2, <3>1 DEF OutFields
  <2> QED BY <2>1, <2>2, <1>1
<1>4. Items' = Items
  BY <1>1, ItemsKept
<1>5. Walk'
  BY <1>1, <1>2, <1>4 DEF Walk
<1>6. \A i \in DOMAIN Items : Declaring(i)' <=> Declaring(i)
  BY <1>1, <1>4 DEF Declaring
<1>7. FramesOK(frames', table)
  BY <1>1, <1>2
<1> QED BY <1>1, <1>3, <1>5, <1>6, <1>7, BetweenSteps

-----------------------------------------------------------------------------
(* The first pass.                                                         *)

Entering ==
  /\ pass = "declare" /\ index <= Len(Items)
  /\ EnterItem
  /\ index' = index + 1
  /\ UNCHANGED <<program, pass, current, typeParams, frames, fuel>>

LEMMA ItemEntered ==
  ASSUME IInv, Entering
  PROVE  /\ Linked(table) /\ frames = <<>> /\ out.mentions = {}
         /\ out'.mentions = {} => Walk'
         /\ program \in Programs /\ index \in 1..Len(Items) /\ Len(Items) \in Nat
         /\ DOMAIN Items = 1..Len(Items)
         /\ Items' = Items /\ Item = Items[index]
         /\ \A i : NamespaceAt(i)' = NamespaceAt(i) /\ NameAt(i)' = NameAt(i)
         /\ UpdatedNamespace(Item) = NamespaceAt(index)
         /\ \A i \in 1..Len(Items) : Declaring(i)' <=> Declaring(i) \/ i = index
         /\ \A i : Declaring(i) => i \in 1..(index - 1) /\ i \in 1..Len(Items)
<1>1. /\ pass = "declare" /\ index <= Len(Items) /\ pass' = "declare"
      /\ file' = Item.file /\ namespace' = UpdatedNamespace(Item)
      /\ index' = index + 1 /\ UNCHANGED <<program, frames>>
  BY DEF Entering, EnterItem
<1>2. /\ index \in 1..(Len(Items) + 1) /\ program \in Programs /\ Linked(table)
      /\ frames = <<>> /\ out.mentions = {}
  BY <1>1 DEF IInv, Shapes, Walk
<1>3. /\ Items' = Items /\ (\A i : NamespaceAt(i)' = NamespaceAt(i))
      /\ (\A i : NameAt(i)' = NameAt(i))
      /\ Len(Items) \in Nat /\ DOMAIN Items = 1..Len(Items)
  BY <1>1, <1>2, ItemsKept, ItemsType
<1>4. index \in 1..Len(Items)
  BY <1>1, <1>2, <1>3
<1>5. UpdatedNamespace(Item) = NamespaceAt(index)
  BY <1>1, <1>2, <1>4, NamespaceTracked DEF IInv, Walk
<1>6. /\ \A i \in 1..Len(Items) : Declaring(i)' <=> Declaring(i) \/ i = index
      /\ \A i : Declaring(i) => i \in 1..(index - 1) /\ i \in 1..Len(Items)
  BY <1>1, <1>3, <1>4 DEF Declaring
<1>7. out'.mentions = {} => Walk'
  <2>1. /\ index + 1 \in 1..(Len(Items) + 1) /\ index + 1 # 1
        /\ (index + 1) - 1 = index
    BY <1>3, <1>4
  <2> QED BY <1>1, <1>2, <1>3, <1>5, <2>1 DEF Walk, Item
<1> QED BY <1>2, <1>3, <1>4, <1>5, <1>6, <1>7 DEF Item

\* What an item was accounted for by stays.
LEMMA AccountedKept ==
  ASSUME program' = program, out.diagnostics \subseteq out'.diagnostics,
         \A n \in DOMAIN top.order :
           n \in DOMAIN top'.order /\ top'.order[n] = top.order[n],
         DOMAIN top.mutual \subseteq DOMAIN top'.mutual,
         NEW i, Accounted(i)
  PROVE  Accounted(i)'
<1>1. /\ Items' = Items
      /\ \A j : NamespaceAt(j)' = NamespaceAt(j)
      /\ \A j : NameAt(j)' = NameAt(j)
  BY ItemsKept
<1> QED BY <1>1 DEF Accounted

\* An item that declares no name of its own is accounted for in another way.
LEMMA NothingDeclared ==
  ASSUME IInv, Entering, UNCHANGED table, DOMAIN top' = {"order", "mutual", "bodies"},
         top'.order = top.order, top'.mutual = top.mutual,
         top.bodies \subseteq top'.bodies,
         DOMAIN out' = OutFields, out'.mentions = out.mentions,
         out'.aliases = out.aliases, out.diagnostics \subseteq out'.diagnostics,
         \A i : i = index => Accounted(i)',
         Item.kind \in Named \union {"Mutual"} =>
           NameAt(index) \in DOMAIN table.scopes[Root].bind,
         Item.kind = "Function" /\ NameAt(index) \in DOMAIN top.mutual =>
           NameAt(index) \in top'.bodies
  PROVE  IInv'
<1>1. /\ Walk' /\ index \in 1..Len(Items) /\ DOMAIN Items = 1..Len(Items)
      /\ Items' = Items /\ Item = Items[index]
      /\ \A i : NamespaceAt(i)' = NamespaceAt(i) /\ NameAt(i)' = NameAt(i)
      /\ \A i \in 1..Len(Items) : Declaring(i)' <=> Declaring(i) \/ i = index
      /\ program' = program /\ pass = "declare" /\ pass' = "declare"
      /\ current' = current /\ frames' = frames /\ out.mentions = {}
  BY ItemEntered DEF Entering
<1>2. Shapes'
  BY <1>1 DEF IInv, Shapes
<1>3. Declarations'
  <2>1. ASSUME NEW n \in DOMAIN top.order PROVE Declares(n)'
    <3>1. Declares(n)
      BY DEF IInv, Declarations
    <3>2. Declaring(top.order[n].item)'
      BY <1>1, <3>1 DEF Declares, Declaring
    <3> QED BY <1>1, <3>1, <3>2, ZenonT(30) DEF Declares
  <2>2. BoundOnce' /\ NamespacesDeclared'
    BY <1>1 DEF IInv, Declarations, BoundOnce, NamespacesDeclared
  <2> QED BY <2>1, <2>2, SMTT(30) DEF Declarations
<1>4. ASSUME NEW i \in DOMAIN Items, Declaring(i)'
      PROVE  /\ Accounted(i)'
             /\ Items[i].kind \in Named \union {"Mutual"} =>
                  NameAt(i) \in DOMAIN table.scopes[Root].bind
             /\ Items[i].kind = "Function" /\ NameAt(i) \in DOMAIN top.mutual =>
                  NameAt(i) \in top'.bodies
  <2>1. CASE i = index
    BY <1>1, <2>1
  <2>2. CASE i # index
    <3>1. Declaring(i)
      BY <1>1, <1>4, <2>2
    <3>2. Accounted(i)'
      BY <1>1, <3>1, AccountedKept DEF IInv, Taken
    <3> QED BY <1>1, <3>1, <3>2 DEF IInv, Taken
  <2> QED BY <2>1, <2>2
<1>5. Taken'
  <2>1. DOMAIN top.mutual \subseteq DOMAIN table.scopes[Root].bind
    BY DEF IInv, Taken
  <2> QED BY <1>1, <1>4, <2>1 DEF Taken
<1> QED BY <1>1, <1>2, <1>3, <1>5 DEF IInv

\* A name that was free is declared by its item.
LEMMA NameDeclared ==
  ASSUME IInv, Entering, NEW n, NEW d, n \notin DOMAIN table.scopes[Root].bind,
         n = NameAt(index), table' = Bind(NewDef(table, d), Root, n),
         DOMAIN top' = {"order", "mutual", "bodies"}, top'.bodies = top.bodies,
         top'.order = With(top.order, n, [def |-> Len(table.defs) + 1, item |-> index]),
         \/ top'.mutual = top.mutual
         \/ /\ top'.mutual = With(top.mutual, n, Len(table.defs) + 1)
            /\ Item.kind = "Mutual",
         DOMAIN out' = OutFields, out'.mentions = out.mentions,
         out'.aliases = out.aliases, out.diagnostics \subseteq out'.diagnostics,
         d.item = index, d.vis \in {"Public", "Private"},
         d.ns \in {None, NamespaceAt(index)},
         d.ns # None => n = d.ns \o Item.name /\ Len(Item.name) = 1,
         d.kind = "Namespace" => Item.kind = "Namespace" /\ Item.name = n
  PROVE  IInv'
<1> DEFINE id == Len(table.defs) + 1
<1>1. /\ Walk' /\ index \in 1..Len(Items) /\ DOMAIN Items = 1..Len(Items)
      /\ Items' = Items /\ Item = Items[index]
      /\ \A i : NamespaceAt(i)' = NamespaceAt(i) /\ NameAt(i)' = NameAt(i)
      /\ \A i \in 1..Len(Items) : Declaring(i)' <=> Declaring(i) \/ i = index
      /\ program' = program /\ pass = "declare" /\ pass' = "declare"
      /\ current' = current /\ frames' = frames /\ out'.mentions = {}
      /\ Linked(table)
  BY ItemEntered DEF Entering
<1>2. /\ Linked(table') /\ Len(table'.scopes) = Len(table.scopes)
      /\ Len(table'.defs) = id /\ table'.defs[id] = d
      /\ \A i \in 1..Len(table.defs) : table'.defs[i] = table.defs[i]
      /\ \A i \in 1..Len(table.scopes) :
           table'.scopes[i].bind = IF i = Root THEN With(table.scopes[Root].bind, n, id)
                                   ELSE table.scopes[i].bind
      /\ Root \in 1..Len(table.scopes) /\ Len(table.defs) \in Nat
  <2>1. Root \in 1..Len(table.scopes) /\ Len(table.defs) \in Nat
    BY <1>1, Lengths
  <2>2. Linked(table) /\ n \notin DOMAIN table.scopes[Root].bind
    BY <1>1
  <2>3. LET u == Bind(NewDef(table, d), Root, n)
            new == Len(table.defs) + 1
        IN /\ Linked(u)
           /\ Len(u.scopes) = Len(table.scopes)
           /\ Len(u.defs) = new /\ u.defs[new] = d
           /\ \A i \in 1..Len(table.defs) : u.defs[i] = table.defs[i]
           /\ \A i \in 1..Len(table.scopes) :
                /\ u.scopes[i].parent = table.scopes[i].parent
                /\ u.scopes[i].bind = IF i = Root
                                      THEN With(table.scopes[Root].bind, n, new)
                                      ELSE table.scopes[i].bind
    BY ONLY <2>1, <2>2, Bound
  <2> QED BY <2>1, <2>3
<1>3. /\ DOMAIN table'.scopes[Root].bind = DOMAIN table.scopes[Root].bind \union {n}
      /\ table'.scopes[Root].bind[n] = id
      /\ \A m \in DOMAIN table.scopes[Root].bind :
           table'.scopes[Root].bind[m] = table.scopes[Root].bind[m]
  <2> HIDE DEF id
  <2>1. table'.scopes[Root].bind = With(table.scopes[Root].bind, n, id)
    BY <1>2
  <2> QED BY <2>1 DEF With
<1>4. \A m \in DOMAIN top.order :
        /\ m # n /\ Declares(m) /\ top.order[m].def \in 1..Len(table.defs)
        /\ top.order[m].def # id
  <2> TAKE m \in DOMAIN top.order
  <2>1. Declares(m)
    BY SMTT(30) DEF IInv, Declarations
  <2>2. m # n /\ top.order[m].def \in 1..Len(table.defs)
    BY <2>1 DEF Declares
  <2> QED BY <1>2, <2>1, <2>2
<1>5. /\ DOMAIN top'.order = DOMAIN top.order \union {n}
      /\ top'.order[n].def = id /\ top'.order[n].item = index
      /\ \A m \in DOMAIN top.order : top'.order[m] = top.order[m]
  BY <1>4 DEF With
<1> HIDE DEF id
<1>6. Shapes'
  <2>1. FramesOK(frames', table')
    BY <1>1, <1>2, FramesGrow, SMTT(30) DEF IInv, Shapes
  <2> QED BY <1>1, <1>2, <2>1 DEF IInv, Shapes
<1>7. ASSUME NEW m \in DOMAIN top.order PROVE Declares(m)'
  <2>1. PICK e : e = top.order[m]
    OBVIOUS
  <2>2. PICK d0 : d0 = table.defs[e.def]
    OBVIOUS
  <2>3. top'.order[m] = e /\ Declares(m)
    BY <1>4, <1>5, <2>1
  <2>4. /\ e.def \in 1..Len(table.defs) /\ Declaring(e.item)
        /\ m \in DOMAIN table.scopes[Root].bind
        /\ table.scopes[Root].bind[m] = e.def
        /\ d0.item = e.item /\ d0.vis \in {"Public", "Private"}
        /\ d0.ns \in {None, NamespaceAt(e.item)}
        /\ d0.ns # None => m = d0.ns \o Items[e.item].name /\ Len(Items[e.item].name) = 1
        /\ d0.kind = "Namespace" =>
             Items[e.item].kind = "Namespace" /\ Items[e.item].name = m
    BY <2>1, <2>2, <2>3, Zenon DEF Declares
  <2>5. Declaring(e.item)'
    BY <1>1, <2>4 DEF Declaring
  <2>6. e.def \in 1..Len(table'.defs) /\ table'.defs[e.def] = d0
    <3>1. PICK j : j = e.def
      OBVIOUS
    <3>2. j \in 1..Len(table.defs) /\ d0 = table.defs[j]
      BY <2>2, <2>4, <3>1, Zenon
    <3>3. j \in 1..Len(table'.defs) /\ table'.defs[j] = table.defs[j]
      BY ONLY <1>2, <3>2 DEF id
    <3> QED BY <3>1, <3>2, <3>3, Zenon
  <2>7. m \in DOMAIN table'.scopes[Root].bind /\ table'.scopes[Root].bind[m] = e.def
    BY <1>3, <2>4
  <2>8. NamespaceAt(e.item)' = NamespaceAt(e.item) /\ Items' = Items
    BY <1>1
  <2> QED BY ONLY <2>3, <2>4, <2>5, <2>6, <2>7, <2>8, ZenonT(30) DEF Declares
<1>8. Declares(n)'
  <2>1. PICK i : i = index
    OBVIOUS
  <2>2. id \in 1..Len(table'.defs) /\ table'.defs[id] = d
    BY <1>2 DEF id
  <2>3. /\ Declaring(i)' /\ NamespaceAt(i)' = NamespaceAt(i)
        /\ Items'[i] = Item
    BY <1>1, <2>1
  <2>4. /\ top'.order[n].def = id /\ top'.order[n].item = i
        /\ n \in DOMAIN table'.scopes[Root].bind
        /\ table'.scopes[Root].bind[n] = id
    BY <1>3, <1>5, <2>1
  <2>5. /\ d.item = i /\ d.vis \in {"Public", "Private"}
        /\ d.ns \in {None, NamespaceAt(i)}
        /\ d.ns # None => n = d.ns \o Item.name /\ Len(Item.name) = 1
        /\ d.kind = "Namespace" => Item.kind = "Namespace" /\ Item.name = n
    BY <2>1
  <2> QED BY ONLY <2>2, <2>3, <2>4, <2>5, ZenonT(30) DEF Declares
<1>9. BoundOnce'
  <2> SUFFICES ASSUME NEW s \in 1..Len(table'.scopes),
                      NEW m \in DOMAIN table'.scopes[s].bind,
                      NEW k \in DOMAIN top'.order,
                      top'.order[k].def = table'.scopes[s].bind[m]
               PROVE  k = m
    BY DEF BoundOnce
  <2>1. CASE s = Root /\ m = n
    BY <1>3, <1>4, <1>5, <2>1
  <2>2. CASE ~(s = Root /\ m = n)
    <3>1. /\ s \in 1..Len(table.scopes) /\ m \in DOMAIN table.scopes[s].bind
          /\ table'.scopes[s].bind[m] = table.scopes[s].bind[m]
      BY <1>2, <1>3, <2>2
    <3>2. table.scopes[s].bind[m] \in 1..Len(table.defs)
      BY <1>1, <3>1 DEF Linked
    <3>3. k # n
      BY <1>2, <1>5, <3>1, <3>2 DEF id
    <3> QED BY <1>5, <3>1, <3>3 DEF IInv, Declarations, BoundOnce
  <2> QED BY <2>1, <2>2
<1>10. NamespacesDeclared'
  <2> SUFFICES ASSUME NEW m \in DOMAIN table'.scopes[Root].bind,
                      table'.defs[table'.scopes[Root].bind[m]].kind = "Namespace"
               PROVE  m \in DOMAIN top'.order
    BY DEF NamespacesDeclared
  <2>1. CASE m = n
    BY <1>5, <2>1
  <2>2. CASE m # n
    <3>1. m \in DOMAIN table.scopes[Root].bind
      BY <1>3, <2>2, SMTT(30)
    <3>2. table.scopes[Root].bind[m] \in 1..Len(table.defs)
      BY <1>1, <1>2, <3>1, SMTT(30) DEF Linked
    <3>3. PICK b \in 1..Len(table.defs) : b = table.scopes[Root].bind[m]
      BY <3>2
    <3>4. table'.scopes[Root].bind[m] = b /\ table'.defs[b] = table.defs[b]
      BY <1>2, <1>3, <3>1, <3>3, ZenonT(30)
    <3>5. table.defs[table.scopes[Root].bind[m]].kind = "Namespace"
      BY <3>3, <3>4
    <3>6. m \in DOMAIN top.order
      BY <1>1, <3>1, <3>5 DEF IInv, Declarations, NamespacesDeclared
    <3> QED BY <1>5, <3>6
  <2> QED BY <2>1, <2>2
<1>11. Declarations'
  BY <1>5, <1>7, <1>8, <1>9, <1>10 DEF Declarations
<1>12. DOMAIN top.mutual \subseteq DOMAIN top'.mutual
       /\ DOMAIN top'.mutual \subseteq DOMAIN top.mutual \union {n}
  BY DEF With
<1>13. ASSUME NEW i \in DOMAIN Items, Declaring(i)'
       PROVE  /\ Accounted(i)'
              /\ Items[i].kind \in Named \union {"Mutual"} =>
                   NameAt(i) \in DOMAIN table'.scopes[Root].bind
              /\ Items[i].kind = "Function" /\ NameAt(i) \in DOMAIN top'.mutual =>
                   NameAt(i) \in top.bodies
  <2>1. CASE i = index
    <3>1. Accounted(i)'
      BY <1>1, <1>5, <2>1 DEF Accounted
    <3>2. NameAt(i) \in DOMAIN table'.scopes[Root].bind
      BY <1>3, <2>1
    <3>3. Items[i].kind = "Function" => NameAt(i) \notin DOMAIN top'.mutual
      BY <1>1, <2>1 DEF IInv, Taken
    <3> QED BY <3>1, <3>2, <3>3
  <2>2. CASE i # index
    <3>1. Declaring(i)
      BY <1>1, <1>13, <2>2
    <3>2. Accounted(i)'
      BY <1>1, <1>5, <1>12, <3>1, AccountedKept DEF IInv, Taken
    <3>3. /\ Items[i].kind \in Named \union {"Mutual"} =>
                NameAt(i) \in DOMAIN table.scopes[Root].bind
          /\ Items[i].kind = "Function" /\ NameAt(i) \in DOMAIN top.mutual =>
                NameAt(i) \in top.bodies
      BY <1>1, <3>1 DEF IInv, Taken
    <3>4. Items[i].kind = "Function" => NameAt(i) # n /\ "Function" \in Named
      BY <3>3 DEF Named
    <3> QED BY <1>3, <1>12, <3>2, <3>3, <3>4
  <2> QED BY <2>1, <2>2
<1>14. Taken'
  <2>1. DOMAIN top'.mutual \subseteq DOMAIN table'.scopes[Root].bind
    BY <1>3, <1>12 DEF IInv, Taken
  <2> QED BY <1>1, <1>13, <2>1 DEF Taken
<1> QED BY <1>1, <1>6, <1>11, <1>14 DEF IInv

\* An item that is reported in the first pass is accounted for.
LEMMA Reported ==
  ASSUME IInv, Entering, NEW code \in {"duplicate", "invalid_root_export"},
         out' = Emit(out, code, NameAt(index))
  PROVE  /\ DOMAIN out' = OutFields /\ out'.mentions = out.mentions
         /\ out'.aliases = out.aliases /\ out.diagnostics \subseteq out'.diagnostics
         /\ \A i : i = index => Accounted(i)'
<1>1. DOMAIN out = OutFields
  BY DEF IInv, Shapes
<1>2. /\ DOMAIN out' = OutFields /\ out'.aliases = out.aliases
      /\ out.diagnostics \subseteq out'.diagnostics
      /\ Diagnostic(code, NameAt(index)) \in out'.diagnostics
      /\ out'.mentions = out.mentions
  BY <1>1, Emitted
<1>3. \A i : NameAt(i)' = NameAt(i)
  BY ItemEntered
<1>4. \A i : i = index => Accounted(i)'
  BY <1>2, <1>3 DEF Accounted, Diagnostic
<1> QED BY <1>2, <1>4

\* A name that is taken is reported.
LEMMA DuplicateStep ==
  ASSUME IInv, Entering, NEW name, name = NameAt(index), ~IsFree(name),
         Duplicate(name), Item.kind = "Function" => name \notin DOMAIN top.mutual
  PROVE  IInv'
<1>1. Linked(table) /\ DOMAIN top = {"order", "mutual", "bodies"}
  BY DEF IInv, Shapes
<1>2. name \in DOMAIN table.scopes[Root].bind
  BY <1>1, FoundAtRoot DEF IsFree
<1>3. out' = Emit(out, "duplicate", name) /\ UNCHANGED <<table, top>>
  BY DEF Duplicate
<1>4. /\ DOMAIN out' = OutFields /\ out'.mentions = out.mentions
      /\ out'.aliases = out.aliases /\ out.diagnostics \subseteq out'.diagnostics
      /\ \A i : i = index => Accounted(i)'
  BY <1>3, Reported
<1> QED BY <1>1, <1>2, <1>3, <1>4, NothingDeclared

LEMMA FreeAtRoot ==
  ASSUME IInv, NEW name, IsFree(name)
  PROVE  name \notin DOMAIN table.scopes[Root].bind
<1>1. Linked(table) /\ Root \in 1..Len(table.scopes)
  BY Lengths DEF IInv, Shapes
<1> QED BY <1>1, NotBound DEF IsFree

\* A namespace that is found is one of an item above.
LEMMA NamespaceAbove ==
  ASSUME IInv, Entering, Item.kind = "Namespace",
         NEW prev, prev = LookupLocal(table, Root, Item.name), prev # 0,
         table.defs[prev].kind = "Namespace"
  PROVE  \E j \in 1..(index - 1) :
           /\ Items[j].kind = "Namespace" /\ Items[j].name = Item.name
           /\ NamespaceAt(j) = NamespaceAt(index)
<1> DEFINE name == Item.name
           j == top.order[name].item
<1>1. /\ Linked(table) /\ program \in Programs /\ index \in 1..Len(Items)
      /\ Item = Items[index] /\ pass = "declare"
      /\ \A i : Declaring(i) => i \in 1..(index - 1) /\ i \in 1..Len(Items)
  BY ItemEntered DEF Entering
<1>2. name \in DOMAIN table.scopes[Root].bind /\ prev = table.scopes[Root].bind[name]
  BY <1>1, FoundAtRoot
<1>3. name \in DOMAIN top.order
  BY <1>1, <1>2 DEF IInv, Declarations, NamespacesDeclared
<1>4. Declares(name)
  BY <1>3, SMTT(30) DEF IInv, Declarations
<1> HIDE DEF name
<1>5. Declaring(j) /\ Items[j].kind = "Namespace" /\ Items[j].name = name
  BY <1>2, <1>4 DEF Declares
<1>6. j \in 1..(index - 1) /\ j \in 1..Len(Items)
  BY <1>1, <1>5
<1> HIDE DEF j
<1>7. NamespaceAt(j) = name /\ NamespaceAt(index) = Items[index].name
  BY <1>1, <1>5, <1>6, NamespaceStep
<1> QED BY <1>1, <1>5, <1>6, <1>7 DEF name

LEMMA DeclareNamespaceStep ==
  ASSUME IInv, Entering, DeclareNamespace
  PROVE  IInv'
<1>1. /\ Item = Items[index] /\ index \in 1..Len(Items) /\ program \in Programs
      /\ \A i : NamespaceAt(i)' = NamespaceAt(i) /\ NameAt(i)' = NameAt(i)
      /\ Items' = Items /\ Item.kind = "Namespace" /\ Linked(table)
      /\ DOMAIN out = OutFields /\ DOMAIN top = {"order", "mutual", "bodies"}
  BY ItemEntered DEF DeclareNamespace, IInv, Shapes
<1>2. NameAt(index) = Item.name
  BY <1>1 DEF NameAt
<1>3. Item.kind \notin Named \union {"Mutual"}
  BY <1>1 DEF Named
<1> DEFINE prev == LookupLocal(table, Root, Item.name)
<1>4. CASE /\ prev # 0 /\ table.defs[prev].kind = "Namespace"
           /\ Item.file \in Stdlib /\ UNCHANGED <<table, top, out>>
  <2>1. PICK j \in 1..(index - 1) :
           /\ Items[j].kind = "Namespace" /\ Items[j].name = Item.name
           /\ NamespaceAt(j) = NamespaceAt(index)
    BY <1>1, <1>4, NamespaceAbove
  <2>2. \A i : i = index => Accounted(i)'
    BY <1>1, <1>4, <2>1 DEF Accounted
  <2> QED BY <1>1, <1>3, <1>4, <2>2, NothingDeclared
<1>5. CASE prev # 0 /\ Duplicate(Item.name)
  <2>1. ~IsFree(Item.name)
    BY <1>5 DEF IsFree
  <2> QED BY <1>1, <1>2, <1>5, <2>1, DuplicateStep
<1>6. CASE prev = 0 /\ Declared(Item.name, "Namespace", None, "Public")
           /\ UNCHANGED out
  <2>1. Item.name \notin DOMAIN table.scopes[Root].bind
    BY <1>6, FreeAtRoot DEF IsFree
  <2> DEFINE d == [Def(Item.name, "Namespace", None, "Public") EXCEPT !.file = Item.file]
  <2>2. d.item = index /\ d.vis = "Public" /\ d.ns = None /\ d.kind = "Namespace"
    BY DEF Def
  <2>3. /\ table' = Bind(NewDef(table, d), Root, Item.name)
        /\ top' = [top EXCEPT !.order =
             With(@, Item.name, [def |-> Len(table.defs) + 1, item |-> index])]
    BY <1>6 DEF Declared
  <2> HIDE DEF d
  <2> QED BY <1>1, <1>2, <1>6, <2>1, <2>2, <2>3, NameDeclared
<1> QED BY <1>4, <1>5, <1>6 DEF DeclareNamespace

LEMMA DeclareMutualBodyStep ==
  ASSUME IInv, Entering, DeclareMutualBody
  PROVE  IInv'
<1> DEFINE name == FullName(Item.name)
<1>1. /\ Item = Items[index] /\ index \in 1..Len(Items) /\ program \in Programs
      /\ \A i : NamespaceAt(i)' = NamespaceAt(i) /\ NameAt(i)' = NameAt(i)
      /\ Items' = Items /\ Item.kind = "Function" /\ pass = "declare"
      /\ UpdatedNamespace(Item) = NamespaceAt(index)
      /\ DOMAIN out = OutFields /\ DOMAIN top = {"order", "mutual", "bodies"}
      /\ DOMAIN Items = 1..Len(Items) /\ Len(Items) \in Nat
  BY ItemEntered DEF DeclareMutualBody, IInv, Shapes, Entering
<1>2. name = NameAt(index)
  BY <1>1, DeclaredName DEF Named
<1> HIDE DEF name
<1>3. /\ name \in DOMAIN top.mutual /\ UNCHANGED table
      /\ out' = IF name \in top.bodies THEN Emit(out, "duplicate", name) ELSE out
      /\ top' = [top EXCEPT !.bodies = @ \union {name}]
  BY DEF DeclareMutualBody, name
<1>4. /\ DOMAIN top' = {"order", "mutual", "bodies"} /\ top'.order = top.order
      /\ top'.mutual = top.mutual /\ top'.bodies = top.bodies \union {name}
  BY <1>1, <1>3
<1>5. name \in DOMAIN table.scopes[Root].bind
  BY <1>3 DEF IInv, Taken
<1>6. /\ DOMAIN out' = OutFields /\ out'.mentions = out.mentions
      /\ out'.aliases = out.aliases /\ out.diagnostics \subseteq out'.diagnostics
      /\ \A i : i = index => Accounted(i)'
  <2>1. CASE name \in top.bodies
    <3>1. out' = Emit(out, "duplicate", NameAt(index))
      BY <1>2, <1>3, <2>1
    <3> QED BY <3>1, Reported
  <2>2. CASE name \notin top.bodies
    <3>1. ASSUME NEW j \in 1..(index - 1), Items[j].kind = "Function",
                 Items[j].name = Item.name, NamespaceAt(j) = NamespaceAt(index)
          PROVE  FALSE
      <4>1. NameAt(j) = name
        BY <1>1, <1>2, <3>1 DEF NameAt
      <4>2. Declaring(j) /\ j \in DOMAIN Items
        BY <1>1 DEF Declaring
      <4> QED BY <1>1, <1>3, <2>2, <3>1, <4>1, <4>2 DEF IInv, Taken
    <3>2. \A i : i = index => Accounted(i)'
      BY <1>1, <1>2, <1>3, <1>4, <3>1 DEF Accounted
    <3> QED BY <1>1, <1>3, <2>2, <3>2
  <2> QED BY <2>1, <2>2
<1> QED BY <1>1, <1>2, <1>3, <1>4, <1>5, <1>6, NothingDeclared

\* What a definition of an item is: its namespace, visibility and name.
LEMMA DefinitionOf ==
  ASSUME IInv, Entering, Item.kind \in Named \union {"Mutual"}, NEW kind
  PROVE  LET name == FullName(Item.name)
             d == [Def(name, kind, NamespaceOfItem, Visibility(Item))
                     EXCEPT !.file = Item.file]
         IN /\ name = NameAt(index)
            /\ d.item = index /\ d.vis \in {"Public", "Private"} /\ d.kind = kind
            /\ d.ns \in {None, NamespaceAt(index)}
            /\ d.ns # None => name = d.ns \o Item.name /\ Len(Item.name) = 1
<1> DEFINE name == FullName(Item.name)
           d == [Def(name, kind, NamespaceOfItem, Visibility(Item))
                   EXCEPT !.file = Item.file]
<1>1. /\ Item = Items[index] /\ index \in 1..Len(Items) /\ program \in Programs
      /\ UpdatedNamespace(Item) = NamespaceAt(index)
  BY ItemEntered
<1>2. name = NameAt(index)
  BY <1>1, DeclaredName
<1>3. NamespaceOfItem = NamespaceAt(index)
  BY <1>1 DEF NamespaceOfItem
<1> HIDE DEF name
<1>4. /\ d.item = index /\ d.kind = kind
      /\ d.ns = NamespaceOfItem /\ d.vis = Visibility(Item)
  BY DEF Def
<1>5. Visibility(Item) \in {"Public", "Private"}
  BY DEF Visibility
<1>6. Item.kind \in OneSegment /\ Item.kind \notin {"Namespace", "RootAlias"}
  BY DEF OneSegment, Named
<1>7. Len(Item.name) = 1
  BY <1>1, <1>6, ItemsType
<1>8. NamespaceAt(index) # None => name = NamespaceAt(index) \o Item.name
  BY <1>1, <1>2, <1>6 DEF NameAt
<1> HIDE DEF d
<1>9. /\ d.vis \in {"Public", "Private"} /\ d.ns = NamespaceAt(index)
      /\ d.ns # None => name = d.ns \o Item.name
  BY <1>3, <1>4, <1>5, <1>8
<1> QED BY <1>2, <1>4, <1>7, <1>9 DEF d, name

LEMMA DeclareMutualStep ==
  ASSUME IInv, Entering, DeclareMutual
  PROVE  IInv'
<1> DEFINE name == FullName(Item.name)
           d == [Def(name, "Function", NamespaceOfItem, Visibility(Item))
                   EXCEPT !.file = Item.file]
<1>1. /\ DOMAIN out = OutFields /\ DOMAIN top = {"order", "mutual", "bodies"}
      /\ Item.kind = "Mutual"
  BY DEF DeclareMutual, IInv, Shapes
<1>2. /\ name = NameAt(index)
      /\ d.item = index /\ d.vis \in {"Public", "Private"} /\ d.kind = "Function"
      /\ d.ns \in {None, NamespaceAt(index)}
      /\ d.ns # None => name = d.ns \o Item.name /\ Len(Item.name) = 1
  BY <1>1, DefinitionOf
<1>3. \/ ~IsFree(name) /\ Duplicate(name)
      \/ /\ IsFree(name)
         /\ table' = Bind(NewDef(table, d), Root, name)
         /\ top' = [top EXCEPT
              !.order = With(@, name, [def |-> Len(table.defs) + 1, item |-> index]),
              !.mutual = With(@, name, Len(table.defs) + 1)]
         /\ UNCHANGED out
  BY DEF DeclareMutual
<1> HIDE DEF name, d
<1>4. CASE ~IsFree(name) /\ Duplicate(name)
  BY <1>1, <1>2, <1>4, DuplicateStep
<1>5. CASE /\ IsFree(name)
           /\ table' = Bind(NewDef(table, d), Root, name)
           /\ top' = [top EXCEPT
              !.order = With(@, name, [def |-> Len(table.defs) + 1, item |-> index]),
              !.mutual = With(@, name, Len(table.defs) + 1)]
           /\ UNCHANGED out
  <2>1. name \notin DOMAIN table.scopes[Root].bind
    BY <1>5, FreeAtRoot
  <2>2. /\ DOMAIN top' = {"order", "mutual", "bodies"} /\ top'.bodies = top.bodies
        /\ top'.order = With(top.order, name, [def |-> Len(table.defs) + 1, item |-> index])
        /\ top'.mutual = With(top.mutual, name, Len(table.defs) + 1)
    BY <1>1, <1>5
  <2> QED BY <1>1, <1>2, <1>5, <2>1, <2>2, NameDeclared
<1> QED BY <1>3, <1>4, <1>5

LEMMA DeclareRootAliasStep ==
  ASSUME IInv, Entering, DeclareRootAlias
  PROVE  IInv'
<1>1. /\ Item = Items[index] /\ Item.kind = "RootAlias"
      /\ DOMAIN out = OutFields /\ DOMAIN top = {"order", "mutual", "bodies"}
  BY ItemEntered DEF DeclareRootAlias, IInv, Shapes
<1>2. NameAt(index) = Item.name /\ Item.kind \notin Named \union {"Mutual"}
  BY <1>1 DEF NameAt, Named
<1>3. CASE out' = Emit(out, "invalid_root_export", Item.name)
           /\ UNCHANGED <<table, top>>
  <2>1. /\ DOMAIN out' = OutFields /\ out'.mentions = out.mentions
        /\ out'.aliases = out.aliases /\ out.diagnostics \subseteq out'.diagnostics
        /\ \A i : i = index => Accounted(i)'
    BY <1>2, <1>3, Reported
  <2> QED BY <1>1, <1>2, <1>3, <2>1, NothingDeclared
<1>4. CASE ~IsFree(Item.name) /\ Duplicate(Item.name)
  BY <1>1, <1>2, <1>4, DuplicateStep
<1>5. CASE IsFree(Item.name) /\ Declared(Item.name, "Type", None, "Public")
           /\ UNCHANGED out
  <2> DEFINE d == [Def(Item.name, "Type", None, "Public") EXCEPT !.file = Item.file]
  <2>1. Item.name \notin DOMAIN table.scopes[Root].bind
    BY <1>5, FreeAtRoot
  <2>2. d.item = index /\ d.vis = "Public" /\ d.ns = None /\ d.kind = "Type"
    BY DEF Def
  <2>3. /\ table' = Bind(NewDef(table, d), Root, Item.name)
        /\ top' = [top EXCEPT !.order =
             With(@, Item.name, [def |-> Len(table.defs) + 1, item |-> index])]
    BY <1>5 DEF Declared
  <2> HIDE DEF d
  <2> QED BY <1>1, <1>2, <1>5, <2>1, <2>2, <2>3, NameDeclared
<1> QED BY <1>3, <1>4, <1>5 DEF DeclareRootAlias

LEMMA DeclareNamedStep ==
  ASSUME IInv, Entering, DeclareNamed
  PROVE  IInv'
<1> DEFINE name == FullName(Item.name)
           d == [Def(name, Item.kind, NamespaceOfItem, Visibility(Item))
                   EXCEPT !.file = Item.file]
<1>1. /\ DOMAIN out = OutFields /\ DOMAIN top = {"order", "mutual", "bodies"}
      /\ Item.kind \in Named \union {"Mutual"} /\ Item.kind # "Namespace"
  BY DEF DeclareNamed, IInv, Shapes, Named
<1>2. /\ name = NameAt(index)
      /\ d.item = index /\ d.vis \in {"Public", "Private"} /\ d.kind = Item.kind
      /\ d.ns \in {None, NamespaceAt(index)}
      /\ d.ns # None => name = d.ns \o Item.name /\ Len(Item.name) = 1
  BY <1>1, DefinitionOf
<1>3. /\ Item.kind = "Function" => name \notin DOMAIN top.mutual
      /\ \/ ~IsFree(name) /\ Duplicate(name)
         \/ /\ IsFree(name)
            /\ table' = Bind(NewDef(table, d), Root, name)
            /\ top' = [top EXCEPT
                 !.order = With(@, name, [def |-> Len(table.defs) + 1, item |-> index])]
            /\ \E v : out' = out \/ out' = [out EXCEPT !.vars = v]
  BY DEF DeclareNamed, Declared
<1> HIDE DEF name, d
<1>4. CASE ~IsFree(name) /\ Duplicate(name)
  BY <1>1, <1>2, <1>3, <1>4, DuplicateStep
<1>5. CASE /\ IsFree(name)
           /\ table' = Bind(NewDef(table, d), Root, name)
           /\ top' = [top EXCEPT
                 !.order = With(@, name, [def |-> Len(table.defs) + 1, item |-> index])]
           /\ \E v : out' = out \/ out' = [out EXCEPT !.vars = v]
  <2>1. name \notin DOMAIN table.scopes[Root].bind
    BY <1>5, FreeAtRoot
  <2>2. /\ DOMAIN top' = {"order", "mutual", "bodies"} /\ top'.bodies = top.bodies
        /\ top'.order = With(top.order, name, [def |-> Len(table.defs) + 1, item |-> index])
        /\ top'.mutual = top.mutual
    BY <1>1, <1>5
  <2>3. /\ DOMAIN out' = OutFields /\ out'.mentions = out.mentions
        /\ out'.aliases = out.aliases /\ out'.diagnostics = out.diagnostics
    BY <1>1, <1>5 DEF OutFields
  <2> QED BY <1>1, <1>2, <1>5, <2>1, <2>2, <2>3, NameDeclared
<1> QED BY <1>3, <1>4, <1>5

LEMMA DeclareNothingStep ==
  ASSUME IInv, Entering, DeclareNothing
  PROVE  IInv'
<1>1. /\ Item = Items[index] /\ Items' = Items
      /\ Item.kind \in {"Verify", "Property", "Implement"}
      /\ UNCHANGED <<table, top, out>>
      /\ DOMAIN out = OutFields /\ DOMAIN top = {"order", "mutual", "bodies"}
  BY ItemEntered DEF DeclareNothing, IInv, Shapes
<1>2. Item.kind \notin Named \union {"Mutual"}
  BY <1>1 DEF Named
<1>3. \A i : i = index => Accounted(i)'
  BY <1>1 DEF Accounted
<1> QED BY <1>1, <1>2, <1>3, NothingDeclared

LEMMA DeclareItemStep ==
  ASSUME IInv, DeclareItem
  PROVE  IInv'
<1>1. Entering
  BY DEF DeclareItem, Entering
<1> QED BY <1>1, DeclareNamespaceStep, DeclareMutualBodyStep, DeclareMutualStep,
           DeclareRootAliasStep, DeclareNamedStep, DeclareNothingStep
        DEF DeclareItem

-----------------------------------------------------------------------------
(* The start, and the theorem.                                             *)

LEMMA PreludeLinked ==
  /\ Linked(PreludeTable)
  /\ \A i \in 1..Len(PreludeTable.defs) : PreludeTable.defs[i].kind = "Constant"
<1> DEFINE N == Cardinality(Prelude)
           names == SetToSeq(Prelude)
           entry(i) == [name |-> names[i], kind |-> "Constant", item |-> 0,
                        file |-> NoFile, ns |-> None, vis |-> "Public"]
           defs == [i \in DOMAIN names |-> entry(i)]
           bind == [n \in Prelude |-> CHOOSE i \in DOMAIN names : names[i] = n]
           root == [bind |-> bind, parent |-> 0]
<1>1. N \in Nat /\ ExistsBijection(1..N, Prelude)
  BY PreludeFinite, FS_CardinalityType
<1>2. \E f \in [1..N -> Prelude] : IsInjective(f)
  BY <1>1 DEF ExistsBijection, Bijection, Injection
<1>3. names \in [1..N -> Prelude] /\ IsInjective(names)
  <2> HIDE DEF N
  <2> QED BY <1>2 DEF SetToSeq, N
<1>4. names \in Surjection(1..N, Prelude)
  <2>1. names \in Injection(1..N, Prelude)
    BY <1>3 DEF Injection
  <2>2. Cardinality(1..N) = N
    BY <1>1, FS_Interval
  <2> HIDE DEF names, N
  <2>3. Cardinality(1..N) = Cardinality(Prelude)
    BY <2>2 DEF N
  <2> QED BY <2>1, <2>3, PreludeFinite, FS_Injection
<1> HIDE DEF names
<1>5. DOMAIN names = 1..N /\ \A n \in Prelude : \E i \in 1..N : names[i] = n
  BY <1>3, <1>4 DEF Surjection
<1>6. DOMAIN bind = Prelude /\ \A n \in Prelude : bind[n] \in 1..N
  BY <1>5
<1>7. /\ defs \in Seq(Range(defs)) /\ Len(defs) = N
      /\ \A i \in 1..N : defs[i].kind = "Constant"
  <2> DEFINE S == {entry(i) : i \in 1..N}
  <2>1. defs \in [1..N -> S]
    BY <1>5
  <2>2. \A i \in 1..N : defs[i].kind = "Constant"
    BY <1>5
  <2> HIDE DEF defs, S
  <2>3. defs \in Seq(S)
    BY <1>1, <2>1, SeqDef
  <2>4. Len(defs) = N
    BY <1>1, <2>1, <2>3, LenProperties
  <2> QED BY <2>2, <2>3, <2>4, SeqOfRange, Zenon
<1> HIDE DEF bind, defs, N
<1>8. /\ <<root>> \in Seq(Range(<<root>>)) /\ Len(<<root>>) = 1 /\ <<root>>[1] = root
      /\ <<root>> # <<>>
  <2> HIDE DEF root
  <2>1. <<root>> \in Seq({root})
    OBVIOUS
  <2>2. <<root>> \in Seq(Range(<<root>>))
    BY <2>1, SeqOfRange, Zenon
  <2> QED BY <2>2
<1>9. DOMAIN root = {"bind", "parent"} /\ root.bind = bind /\ root.parent = 0
  OBVIOUS
<1> HIDE DEF root
<1>10. PreludeTable = [defs |-> defs, scopes |-> <<root>>]
  BY DEF PreludeTable, defs, root, bind, names
<1>11. /\ DOMAIN PreludeTable = {"defs", "scopes"}
       /\ PreludeTable.defs = defs /\ PreludeTable.scopes = <<root>>
  BY <1>10
<1>12. /\ 2..Len(<<root>>) = {} /\ \A s \in 1..Len(<<root>>) : s = 1
  BY <1>8
<1>13. Linked(PreludeTable)
  BY <1>6, <1>7, <1>8, <1>9, <1>11, <1>12 DEF Linked, Root
<1> QED BY <1>7, <1>11, <1>13

LEMMA InitInv == Init => IInv
<1> SUFFICES ASSUME Init PROVE IInv
  OBVIOUS
<1>1. /\ program \in Programs /\ pass = "declare" /\ index = 1 /\ namespace = None
      /\ current = Root /\ table = PreludeTable /\ frames = <<>>
      /\ top = [order |-> <<>>, mutual |-> <<>>, bodies |-> {}]
      /\ out = [mentions |-> {}, used |-> {}, aliases |-> <<>>, vars |-> {},
                uses |-> {}, diagnostics |-> {}]
  BY DEF Init
<1>2. DOMAIN <<>> = {}
  OBVIOUS
<1>3. /\ DOMAIN top = {"order", "mutual", "bodies"} /\ DOMAIN out = OutFields
      /\ DOMAIN top.order = {} /\ DOMAIN top.mutual = {}
      /\ DOMAIN out.aliases = {} /\ out.mentions = {}
  BY <1>1, <1>2 DEF OutFields
<1>4. /\ Linked(table) /\ Root \in 1..Len(table.scopes)
      /\ \A i \in 1..Len(table.defs) : table.defs[i].kind = "Constant"
  BY <1>1, PreludeLinked, Lengths
<1>5. Len(Items) \in Nat /\ DOMAIN Items = 1..Len(Items)
  BY <1>1, ItemsType
<1>6. FramesOK(frames, table)
  <2>1. <<>> \in Seq({}) /\ Len(<<>>) = 0
    BY EmptySeq
  <2>2. <<>> \in Seq(Range(<<>>))
    BY <2>1, SeqOfRange, Zenon
  <2> QED BY <1>1, <2>1, <2>2 DEF FramesOK
<1>7. Shapes
  BY <1>1, <1>3, <1>4, <1>6 DEF Shapes
<1>8. Walk
  BY <1>1, <1>3, <1>5 DEF Walk
<1>9. \A i : ~Declaring(i)
  BY <1>1, <1>5 DEF Declaring
<1>10. Declarations
  <2>1. NamespacesDeclared
    BY <1>4 DEF NamespacesDeclared, Linked
  <2> QED BY <1>3, <2>1 DEF Declarations, BoundOnce
<1>11. Taken
  BY <1>3, <1>9 DEF Taken
<1> QED BY <1>3, <1>7, <1>8, <1>10, <1>11 DEF IInv

LEMMA StutterInv ==
  ASSUME IInv, UNCHANGED vars
  PROVE  IInv'
<1>1. /\ UNCHANGED <<program, top, table, current, out, pass, index, namespace,
                     file, frames>>
  BY DEF vars
<1>2. DOMAIN out = OutFields /\ FramesOK(frames, table) /\ Walk
  BY DEF IInv, Shapes
<1>3. /\ Items' = Items /\ \A i : NamespaceAt(i)' = NamespaceAt(i)
  BY <1>1, ItemsKept
<1>4. Walk'
  BY <1>1, <1>2, <1>3 DEF Walk
<1>5. \A i \in DOMAIN Items : Declaring(i)' <=> Declaring(i)
  BY <1>1, <1>3 DEF Declaring
<1> QED BY <1>1, <1>2, <1>4, <1>5, BetweenSteps

LEMMA NextInv == IInv /\ [Next]_vars => IInv'
<1> SUFFICES ASSUME IInv, [Next]_vars PROVE IInv'
  OBVIOUS
<1>1. CASE DeclareItem \/ StartReferences \/ BeginItem \/ Return
  BY <1>1, DeclareItemStep, StartReferencesStep, BeginItemStep, ReturnStep
<1>2. CASE PushScope \/ PopScope \/ AddTypeParams \/ RemoveTypeParams
  BY <1>2, PushScopeStep, PopScopeStep, TypeParamsStep
<1>3. CASE DeclareNames \/ Use \/ EnterBlock \/ Enter \/ EndOfStep
  BY <1>3, DeclareNamesStep, UseStep, EnterBlockStep, EnterStep, EndOfStepStep
<1>4. CASE Reference \/ TypeReference \/ NameReference \/ Callee \/ Argument
  BY <1>4, ReferenceStep, NameReferenceStep, CalleeStep, ArgumentStep
<1>5. CASE FinishReferences \/ CheckUnused
  BY <1>5, LastSteps
<1>6. CASE UNCHANGED vars
  BY <1>6, StutterInv
<1> QED BY <1>1, <1>2, <1>3, <1>4, <1>5, <1>6 DEF Next

LEMMA InvImplies == IInv => TopLevelNames
<1> SUFFICES ASSUME IInv PROVE TopLevelNames
  OBVIOUS
<1>1. TopLevelRules /\ OwnNamespace
  BY DEF IInv, Fine, TopLevelRules, OwnNamespace
<1>2. ItemsAccounted
  BY DEF IInv, Taken, Declaring, ItemsAccounted
<1> QED BY <1>1, <1>2 DEF TopLevelNames

\* A reference reaches a definition of the top level only if it was declared
\* in time and may be named there, a name no local has means that of its own
\* namespace before any other, and every item that declares a name is bound,
\* completes a function of a mutual block or is reported: for all programs,
\* with bodies of any size and nesting.
THEOREM ResolverTopLevelNames == Spec => []TopLevelNames
<1>1. Init => IInv
  BY InitInv
<1>2. IInv /\ [Next]_vars => IInv'
  BY NextInv
<1>3. IInv => TopLevelNames
  BY InvImplies
<1> QED BY <1>1, <1>2, <1>3, PTL DEF Spec

-----------------------------------------------------------------------------
(* Lexical scoping: the forms under way are nested.                        *)

\* The steps of a form that have been taken; whether its scope is open and its
\* type parameters are active; the scope and the parameters it works in.
Done(f, step) == \E k \in 1..(f.at - 1) : Script[f.form][k] = step
IsOpen(f) == Done(f, "push") /\ ~Done(f, "pop")
IsActive(f) == Done(f, "add") /\ ~Done(f, "remove")
ScopeIn(f) == IF IsOpen(f) THEN f.scope ELSE f.entry
Held(f) == IF IsActive(f) THEN f.added ELSE {}

\* Of the first i of a stack of forms.
ScopeAt(fs, i) == IF i = 0 THEN Root ELSE ScopeIn(fs[i])
HeldUpTo(fs, i) == UNION {Held(fs[j]) : j \in 1..i}

\* A form that was entered in scope s with the parameters ps active.
EnteredIn(f, s, ps, t) ==
  /\ f.entry = s /\ f.at <= Len(Script[f.form]) + 1
  /\ IsOpen(f) => t.scopes[f.scope].parent = s
  /\ Held(f) \intersect ps = {}
  /\ IsActive(f) => program.params[f.form] \subseteq ps \union Held(f)
StackOK(fs, t) ==
  \A i \in 1..Len(fs) :
    EnteredIn(fs[i], ScopeAt(fs, i - 1), HeldUpTo(fs, i - 1), t)
Nested ==
  /\ StackOK(frames, table)
  /\ current = ScopeAt(frames, Len(frames))
  /\ typeParams = HeldUpTo(frames, Len(frames))

LEMMA DoneNext ==
  ASSUME NEW f, NEW g, f.at \in Nat \ {0}, g.form = f.form, g.at = f.at + 1, NEW step
  PROVE  Done(g, step) <=> Done(f, step) \/ Script[f.form][f.at] = step
<1>1. g.at - 1 = f.at /\ 1..f.at = 1..(f.at - 1) \union {f.at}
  OBVIOUS
<1> QED BY <1>1 DEF Done

LEMMA DoneSame ==
  ASSUME NEW f, NEW g, g.form = f.form, g.at = f.at, NEW step
  PROVE  Done(g, step) <=> Done(f, step)
BY DEF Done

\* A form that has just been entered has done nothing.
LEMMA NothingDone ==
  ASSUME NEW form, NEW step
  PROVE  ~Done(Frame(form), step)
<1>1. Frame(form).at = 1
  BY DEF Frame
<1> QED BY <1>1 DEF Done

\* The form on top takes the steps of its script in order.
LEMMA StepTaken ==
  ASSUME IInv, NEW S, AtStep(S)
  PROVE  /\ Step \in S /\ Top.at \in Nat \ {0} /\ Step = Script[Top.form][Top.at]
         /\ Step = "push" => ~Done(Top, "push") /\ ~Done(Top, "pop")
         /\ Step = "pop" => Done(Top, "push") /\ ~Done(Top, "pop")
         /\ Step = "add" => ~Done(Top, "add") /\ ~Done(Top, "remove")
         /\ Step = "remove" => Done(Top, "add") /\ ~Done(Top, "remove")
<1> DEFINE s == Script[Top.form]
<1>1. /\ pass = "reference" /\ frames # <<>> /\ Step \in S
      /\ Top.at <= Len(Script[Top.form])
  BY DEF AtStep
<1>2. FrameOK(Top, table)
  BY <1>1, InWalk
<1>3. Top.form \in DOMAIN Script /\ Top.at \in Nat \ {0}
  BY <1>2 DEF FrameOK
<1>4. Scoped(s)
  BY <1>3, AllScoped
<1>5. Len(s) \in Nat /\ Paired(s, "push", "pop") /\ Paired(s, "add", "remove")
  BY <1>4 DEF Scoped
<1>6. Step = s[Top.at]
  BY DEF Step
<1>7. Top.at \in 1..Len(s)
  BY <1>1, <1>3, <1>5
<1>8. ASSUME NEW open, NEW close, Paired(s, open, close)
      PROVE  /\ Step = open => ~Done(Top, open) /\ ~Done(Top, close)
             /\ Step = close => Done(Top, open) /\ ~Done(Top, close)
  <2>1. \A k \in 1..(Top.at - 1) : k \in 1..Len(s) /\ k # Top.at
    BY <1>5, <1>7
  <2>2. ASSUME Step \in {open, close} PROVE ~Done(Top, Step)
    BY <1>6, <1>7, <1>8, <2>1, <2>2 DEF Done, Paired
  <2>3. Step = close => Done(Top, open)
    BY <1>6, <1>7, <1>8 DEF Done, Paired
  <2>4. ASSUME Done(Top, close), ~Done(Top, open) PROVE FALSE
    <3>1. PICK k \in 1..(Top.at - 1) : s[k] = close
      BY <2>4 DEF Done
    <3>2. PICK j \in 1..(k - 1) : s[j] = open
      BY <1>8, <2>1, <3>1 DEF Paired
    <3>3. j \in 1..(Top.at - 1)
      BY <1>3, <3>1, <3>2
    <3> QED BY <2>4, <3>2, <3>3 DEF Done
  <2> QED BY <2>2, <2>3, <2>4
<1> QED BY <1>1, <1>3, <1>5, <1>6, <1>8

\* A form that has done all its steps has closed what it opened.
LEMMA AllDone ==
  ASSUME NEW f, NEW t, FrameOK(f, t), f.at > Len(Script[f.form]),
         f.at <= Len(Script[f.form]) + 1
  PROVE  ~IsOpen(f) /\ ~IsActive(f)
<1> DEFINE s == Script[f.form]
<1>1. f.form \in DOMAIN Script /\ f.at \in Nat \ {0}
  BY DEF FrameOK
<1>2. Len(s) \in Nat /\ Paired(s, "push", "pop") /\ Paired(s, "add", "remove")
  BY <1>1, AllScoped DEF Scoped
<1>3. ASSUME NEW open, NEW close, Paired(s, open, close), Done(f, open)
      PROVE  Done(f, close)
  <2>1. PICK k \in 1..(f.at - 1) : s[k] = open
    BY <1>3 DEF Done
  <2>2. k \in 1..Len(s)
    BY <1>1, <1>2
  <2>3. PICK j \in (k + 1)..Len(s) : s[j] = close
    BY <1>3, <2>1, <2>2 DEF Paired
  <2>4. j \in 1..(f.at - 1)
    BY <1>1, <1>2, <2>2, <2>3
  <2> QED BY <2>3, <2>4 DEF Done
<1> QED BY <1>2, <1>3 DEF IsOpen, IsActive

\* Stacks that agree on their first n forms.
LEMMA StackAgrees ==
  ASSUME NEW fs, NEW gs, NEW n \in Nat, \A i \in 1..n : gs[i] = fs[i]
  PROVE  \A i \in 0..n : /\ ScopeAt(gs, i) = ScopeAt(fs, i)
                         /\ HeldUpTo(gs, i) = HeldUpTo(fs, i)
<1> TAKE i \in 0..n
<1>1. \A j \in 1..i : gs[j] = fs[j]
  OBVIOUS
<1>2. i # 0 => gs[i] = fs[i]
  OBVIOUS
<1>3. {Held(gs[j]) : j \in 1..i} = {Held(fs[j]) : j \in 1..i}
  BY <1>1
<1> QED BY <1>2, <1>3 DEF ScopeAt, HeldUpTo

LEMMA HeldNext ==
  ASSUME NEW fs, NEW n \in Nat
  PROVE  /\ HeldUpTo(fs, 0) = {}
         /\ HeldUpTo(fs, n + 1) = HeldUpTo(fs, n) \union Held(fs[n + 1])
<1>1. 1..(n + 1) = 1..n \union {n + 1} /\ 1..0 = {}
  OBVIOUS
<1>2. {Held(fs[j]) : j \in 1..(n + 1)} = {Held(fs[j]) : j \in 1..n} \union {Held(fs[n + 1])}
  BY <1>1
<1>3. {Held(fs[j]) : j \in 1..0} = {}
  BY <1>1
<1> QED BY <1>2, <1>3 DEF HeldUpTo

\* A form that was entered where the stack is goes on top.
LEMMA StackPush ==
  ASSUME NEW fs, NEW t, fs \in Seq(Range(fs)), StackOK(fs, t), NEW f,
         EnteredIn(f, ScopeAt(fs, Len(fs)), HeldUpTo(fs, Len(fs)), t)
  PROVE  LET gs == Append(fs, f)
         IN /\ StackOK(gs, t)
            /\ ScopeAt(gs, Len(gs)) = ScopeIn(f)
            /\ HeldUpTo(gs, Len(gs)) = HeldUpTo(fs, Len(fs)) \union Held(f)
<1> DEFINE gs == Append(fs, f)
           n == Len(fs)
<1>1. n \in Nat /\ Len(gs) = n + 1 /\ gs[n + 1] = f /\ \A i \in 1..n : gs[i] = fs[i]
  BY Appended
<1> HIDE DEF gs
<1>2. \A i \in 0..n : /\ ScopeAt(gs, i) = ScopeAt(fs, i)
                      /\ HeldUpTo(gs, i) = HeldUpTo(fs, i)
  BY <1>1, StackAgrees
<1>3. StackOK(gs, t)
  <2> SUFFICES ASSUME NEW i \in 1..(n + 1)
               PROVE  EnteredIn(gs[i], ScopeAt(gs, i - 1), HeldUpTo(gs, i - 1), t)
    BY <1>1 DEF StackOK
  <2>1. i - 1 \in 0..n
    BY <1>1
  <2>2. ScopeAt(gs, i - 1) = ScopeAt(fs, i - 1) /\ HeldUpTo(gs, i - 1) = HeldUpTo(fs, i - 1)
    BY <1>2, <2>1
  <2>3. CASE i = n + 1
    <3>1. i - 1 = n
      BY <1>1, <2>3
    <3> QED BY <1>1, <2>2, <2>3, <3>1
  <2>4. CASE i # n + 1
    <3>1. i \in 1..n
      BY <1>1, <2>4
    <3> QED BY <1>1, <2>2, <3>1 DEF StackOK
  <2> QED BY <2>3, <2>4
<1>4. ScopeAt(gs, Len(gs)) = ScopeIn(f)
  BY <1>1 DEF ScopeAt
<1>5. HeldUpTo(gs, Len(gs)) = HeldUpTo(gs, n) \union Held(f)
  BY <1>1, HeldNext
<1>6. HeldUpTo(gs, n) = HeldUpTo(fs, n)
  BY <1>1, <1>2
<1> QED BY <1>3, <1>4, <1>5, <1>6 DEF gs

\* The form on top was entered where the stack below it is.
LEMMA StackPop ==
  ASSUME NEW fs, NEW t, fs \in Seq(Range(fs)), fs # <<>>, StackOK(fs, t)
  PROVE  LET gs == Front(fs)
             f == Last(fs)
         IN /\ gs \in Seq(Range(gs)) /\ StackOK(gs, t)
            /\ EnteredIn(f, ScopeAt(gs, Len(gs)), HeldUpTo(gs, Len(gs)), t)
            /\ ScopeAt(fs, Len(fs)) = ScopeIn(f)
            /\ HeldUpTo(fs, Len(fs)) = HeldUpTo(gs, Len(gs)) \union Held(f)
<1> DEFINE gs == Front(fs)
           n == Len(gs)
<1>1. /\ gs \in Seq(Range(fs)) /\ Len(fs) \in Nat \ {0} /\ n = Len(fs) - 1
      /\ \A i \in 1..(Len(fs) - 1) : gs[i] = fs[i]
  BY WithoutLast DEF Front
<1>2. gs \in Seq(Range(gs))
  BY <1>1, SeqOfRange, Zenon
<1>3. n \in Nat /\ Len(fs) = n + 1 /\ Last(fs) = fs[n + 1] /\ \A i \in 1..n : gs[i] = fs[i]
  BY <1>1 DEF Last
<1> HIDE DEF gs
<1>4. \A i \in 0..n : /\ ScopeAt(gs, i) = ScopeAt(fs, i)
                      /\ HeldUpTo(gs, i) = HeldUpTo(fs, i)
  BY <1>3, StackAgrees
<1>5. ASSUME NEW i \in 1..(n + 1)
      PROVE  EnteredIn(fs[i], ScopeAt(gs, i - 1), HeldUpTo(gs, i - 1), t)
  <2>1. i - 1 \in 0..n /\ i \in 1..Len(fs)
    BY <1>3
  <2> QED BY <1>4, <2>1 DEF StackOK
<1>6. StackOK(gs, t)
  <2> SUFFICES ASSUME NEW i \in 1..n
               PROVE  EnteredIn(gs[i], ScopeAt(gs, i - 1), HeldUpTo(gs, i - 1), t)
    BY DEF StackOK
  <2>1. i \in 1..(n + 1) /\ gs[i] = fs[i]
    BY <1>3
  <2> QED BY <1>5, <2>1
<1>7. EnteredIn(Last(fs), ScopeAt(gs, n), HeldUpTo(gs, n), t)
  <2>1. n + 1 \in 1..(n + 1) /\ (n + 1) - 1 = n
    BY <1>3
  <2> QED BY <1>3, <1>5, <2>1
<1>8. ScopeAt(fs, Len(fs)) = ScopeIn(Last(fs))
  BY <1>3 DEF ScopeAt
<1>9. HeldUpTo(fs, Len(fs)) = HeldUpTo(fs, n) \union Held(Last(fs))
  BY <1>3, HeldNext
<1>10. HeldUpTo(gs, n) = HeldUpTo(fs, n)
  BY <1>3, <1>4
<1> QED BY <1>2, <1>6, <1>7, <1>8, <1>9, <1>10 DEF gs

\* Scopes that are added leave it as it is.
LEMMA StackGrows ==
  ASSUME NEW fs, NEW t, NEW u, FramesOK(fs, t), StackOK(fs, t), Extends(t, u)
  PROVE  StackOK(fs, u)
<1> SUFFICES ASSUME NEW i \in 1..Len(fs)
             PROVE  EnteredIn(fs[i], ScopeAt(fs, i - 1), HeldUpTo(fs, i - 1), u)
  BY DEF StackOK
<1>1. EnteredIn(fs[i], ScopeAt(fs, i - 1), HeldUpTo(fs, i - 1), t) /\ FrameOK(fs[i], t)
  BY DEF StackOK, FramesOK
<1>2. Len(t.scopes) \in Nat
  BY Lengths DEF Extends
<1>3. IsOpen(fs[i]) => fs[i].scope \in 1..Len(t.scopes)
  <2>1. IsOpen(fs[i]) => fs[i].scope \in 2..Len(t.scopes)
    BY <1>1 DEF IsOpen, Done, FrameOK
  <2> QED BY <1>2, <2>1
<1>4. IsOpen(fs[i]) => u.scopes[fs[i].scope].parent = t.scopes[fs[i].scope].parent
  BY <1>3 DEF Extends
<1> QED BY <1>1, <1>4 DEF EnteredIn

LEMMA NestedThen ==
  ASSUME program' = program, StackOK(frames', table'),
         current' = ScopeAt(frames', Len(frames')),
         typeParams' = HeldUpTo(frames', Len(frames'))
  PROVE  Nested'
BY DEF Nested, StackOK, EnteredIn

\* What is below the form on top, and the form on top itself.
Below == Front(frames)
ScopeBelow == ScopeAt(Below, Len(Below))
HeldBelow == HeldUpTo(Below, Len(Below))

LEMMA OnTop ==
  ASSUME IInv, Nested, pass = "reference", frames # <<>>
  PROVE  /\ Below \in Seq(Range(Below)) /\ StackOK(Below, table)
         /\ FramesOK(Below, table) /\ FrameOK(Top, table)
         /\ EnteredIn(Top, ScopeBelow, HeldBelow, table)
         /\ current = ScopeIn(Top) /\ typeParams = HeldBelow \union Held(Top)
<1>1. FramesOK(frames, table) /\ FramesOK(Below, table) /\ FrameOK(Top, table)
  BY InWalk DEF Below
<1>2. frames \in Seq(Range(frames))
  BY <1>1 DEF FramesOK
<1> QED BY <1>1, <1>2, StackPop DEF Nested, Below, Top, ScopeBelow, HeldBelow

\* The form on top is replaced by one that was entered in the same place.
LEMMA TopReplaced ==
  ASSUME IInv, Nested, pass = "reference", frames # <<>>, NEW f,
         program' = program, Extends(table, table'),
         frames' = Append(Below, f), EnteredIn(f, ScopeBelow, HeldBelow, table'),
         current' = ScopeIn(f), typeParams' = HeldBelow \union Held(f)
  PROVE  Nested'
<1>1. Below \in Seq(Range(Below)) /\ StackOK(Below, table) /\ FramesOK(Below, table)
  BY OnTop
<1>2. StackOK(Below, table')
  BY <1>1, StackGrows
<1>3. /\ StackOK(frames', table')
      /\ ScopeAt(frames', Len(frames')) = ScopeIn(f)
      /\ HeldUpTo(frames', Len(frames')) = HeldBelow \union Held(f)
  BY <1>1, <1>2, StackPush DEF ScopeBelow, HeldBelow
<1> QED BY <1>3, NestedThen

\* Steps that open and close nothing.
Quiet(step) == step \notin {"push", "pop", "add", "remove"}

LEMMA QuietStep ==
  ASSUME NEW f, NEW g, f.at \in Nat \ {0}, g.form = f.form, g.entry = f.entry,
         g.scope = f.scope, g.added = f.added,
         g.at = f.at \/ (g.at = f.at + 1 /\ Quiet(Script[f.form][f.at]))
  PROVE  /\ \A step : ~Quiet(step) => (Done(g, step) <=> Done(f, step))
         /\ IsOpen(g) = IsOpen(f) /\ IsActive(g) = IsActive(f)
         /\ ScopeIn(g) = ScopeIn(f) /\ Held(g) = Held(f)
<1>1. ASSUME NEW step, ~Quiet(step) PROVE Done(g, step) <=> Done(f, step)
  <2>1. CASE g.at = f.at
    BY <2>1, DoneSame
  <2>2. CASE g.at = f.at + 1 /\ Quiet(Script[f.form][f.at])
    <3>1. Done(g, step) <=> Done(f, step) \/ Script[f.form][f.at] = step
      BY <2>2, DoneNext
    <3>2. Script[f.form][f.at] # step
      BY <1>1, <2>2
    <3> QED BY <3>1, <3>2
  <2> QED BY <2>1, <2>2
<1>2. ~Quiet("push") /\ ~Quiet("pop") /\ ~Quiet("add") /\ ~Quiet("remove")
  BY DEF Quiet
<1>3. IsOpen(g) = IsOpen(f) /\ IsActive(g) = IsActive(f)
  BY <1>1, <1>2, Zenon DEF IsOpen, IsActive
<1> QED BY <1>1, <1>3 DEF ScopeIn, Held

\* After such a step the form on top is where it was.
LEMMA TopQuiet ==
  ASSUME IInv, Nested, NEW S, AtStep(S), NEW f,
         f.form = Top.form, f.entry = Top.entry, f.scope = Top.scope,
         f.added = Top.added,
         f.at = Top.at \/ (f.at = Top.at + 1 /\ Quiet(Step))
  PROVE  /\ EnteredIn(f, ScopeBelow, HeldBelow, table)
         /\ ScopeIn(f) = current /\ HeldBelow \union Held(f) = typeParams
<1>1. pass = "reference" /\ frames # <<>> /\ Top.at <= Len(Script[Top.form])
  BY DEF AtStep
<1>2. Top.at \in Nat \ {0} /\ Step = Script[Top.form][Top.at]
  BY StepTaken
<1>3. /\ EnteredIn(Top, ScopeBelow, HeldBelow, table) /\ FrameOK(Top, table)
      /\ current = ScopeIn(Top) /\ typeParams = HeldBelow \union Held(Top)
  BY <1>1, OnTop
<1>4. /\ IsOpen(f) = IsOpen(Top) /\ IsActive(f) = IsActive(Top)
      /\ ScopeIn(f) = ScopeIn(Top) /\ Held(f) = Held(Top)
  BY <1>2, QuietStep
<1>5. f.at <= Len(Script[f.form]) + 1
  <2>1. Len(Script[Top.form]) \in Nat
    BY <1>3, AllScoped DEF FrameOK, Scoped
  <2> QED BY <1>1, <1>2, <2>1
<1> QED BY <1>3, <1>4, <1>5 DEF EnteredIn

LEMMA NestedKept ==
  ASSUME IInv, Nested, UNCHANGED <<program, current, typeParams, frames>>,
         Extends(table, table')
  PROVE  Nested'
<1>1. FramesOK(frames, table)
  BY DEF IInv, Shapes
<1>2. StackOK(frames, table')
  BY <1>1, StackGrows DEF Nested
<1> QED BY <1>2, NestedThen DEF Nested

LEMMA NestedGoesOn ==
  ASSUME IInv, Nested, NEW S, AtStep(S), \A s \in S : Quiet(s), NEW f,
         UNCHANGED <<program, current, typeParams>>, Extends(table, table'),
         frames' = Append(Front(frames), f),
         f.form = Top.form, f.entry = Top.entry, f.scope = Top.scope,
         f.added = Top.added, f.at = Top.at + 1
  PROVE  Nested'
<1>1. pass = "reference" /\ frames # <<>> /\ Quiet(Step)
  BY DEF AtStep
<1>2. /\ EnteredIn(f, ScopeBelow, HeldBelow, table)
      /\ ScopeIn(f) = current /\ HeldBelow \union Held(f) = typeParams
  BY <1>1, TopQuiet
<1>3. EnteredIn(f, ScopeBelow, HeldBelow, table')
  <2> DEFINE fs == Append(Below, f)
  <2>1. IsOpen(f) => f.scope \in 1..Len(table.scopes)
    <3>1. FrameOK(Top, table) /\ Top.at \in Nat \ {0} /\ Len(table.scopes) \in Nat
          /\ Step = Script[Top.form][Top.at]
      BY <1>1, InWalk, StepTaken
    <3>2. IsOpen(f) = IsOpen(Top)
      BY <1>1, <3>1, QuietStep
    <3>3. IsOpen(Top) => Top.scope \in 2..Len(table.scopes)
      BY <3>1 DEF IsOpen, Done, FrameOK
    <3> QED BY <3>1, <3>2, <3>3
  <2>2. IsOpen(f) => table'.scopes[f.scope].parent = table.scopes[f.scope].parent
    BY <2>1 DEF Extends
  <2> QED BY <1>2, <2>2 DEF EnteredIn
<1> QED BY <1>1, <1>2, <1>3, TopReplaced DEF Below

LEMMA NestedAdvance ==
  ASSUME IInv, Nested, NEW S, AtStep(S), \A s \in S : Quiet(s), Advance,
         UNCHANGED <<program, current, typeParams>>, Extends(table, table')
  PROVE  Nested'
<1> DEFINE f == [Top EXCEPT !.at = @ + 1]
<1>1. FrameOK(Top, table)
  BY InWalk DEF AtStep
<1>2. /\ f.form = Top.form /\ f.entry = Top.entry /\ f.scope = Top.scope
      /\ f.added = Top.added /\ f.at = Top.at + 1
  BY <1>1 DEF FrameOK, FrameFields
<1>3. frames' = Append(Front(frames), f)
  BY DEF Advance, SetTop
<1> HIDE DEF f
<1> QED BY <1>2, <1>3, NestedGoesOn

LEMMA NestedPushScope ==
  ASSUME IInv, Nested, PushScope
  PROVE  Nested'
<1> DEFINE n == Len(table.scopes) + 1
           f == [Top EXCEPT !.at = @ + 1, !.scope = n]
<1>1. /\ pass = "reference" /\ frames # <<>> /\ AtStep({"push"})
      /\ table' = NewScope(table, current) /\ current' = n
      /\ frames' = Append(Front(frames), f)
      /\ program' = program /\ typeParams' = typeParams
  BY DEF PushScope, AtStep, SetTop, walk
<1>2. /\ Linked(table) /\ current \in 1..Len(table.scopes) /\ FrameOK(Top, table)
      /\ Len(table.scopes) \in Nat \ {0}
  BY <1>1, InWalk
<1>3. Extends(table, table') /\ table'.scopes[n].parent = current
  <2>1. Extends(table, table')
    BY <1>1, <1>2, ExtendsOpened
  <2>2. NewScope(table, current).scopes[n].parent = current
    BY <1>2, Opened
  <2> QED BY <1>1, <2>1, <2>2
<1>4. /\ Step = "push" /\ Top.at \in Nat \ {0} /\ Step = Script[Top.form][Top.at]
      /\ ~Done(Top, "push") /\ ~Done(Top, "pop")
  BY <1>1, StepTaken
<1>5. /\ f.form = Top.form /\ f.entry = Top.entry /\ f.scope = n
      /\ f.added = Top.added /\ f.at = Top.at + 1
  BY <1>2 DEF FrameOK, FrameFields
<1> HIDE DEF f, n
<1>6. \A step : Done(f, step) <=> Done(Top, step) \/ step = "push"
  BY <1>4, <1>5, DoneNext
<1>7. /\ IsOpen(f) /\ ~IsOpen(Top) /\ IsActive(f) = IsActive(Top)
      /\ ScopeIn(f) = n /\ ScopeIn(Top) = Top.entry /\ Held(f) = Held(Top)
  BY <1>4, <1>5, <1>6 DEF IsOpen, IsActive, ScopeIn, Held
<1>8. /\ EnteredIn(Top, ScopeBelow, HeldBelow, table)
      /\ current = ScopeIn(Top) /\ typeParams = HeldBelow \union Held(Top)
  BY <1>1, OnTop
<1>9. f.at <= Len(Script[f.form]) + 1
  <2>1. Len(Script[Top.form]) \in Nat /\ Top.at <= Len(Script[Top.form])
    BY <1>1, <1>2, AllScoped DEF FrameOK, Scoped, AtStep
  <2> QED BY <1>4, <1>5, <2>1
<1>10. EnteredIn(f, ScopeBelow, HeldBelow, table')
  BY <1>3, <1>5, <1>7, <1>8, <1>9 DEF EnteredIn
<1> QED BY <1>1, <1>3, <1>7, <1>8, <1>10, TopReplaced DEF Below

LEMMA NestedPopScope ==
  ASSUME IInv, Nested, PopScope
  PROVE  /\ Nested' /\ current = Top.scope
         /\ current' = table.scopes[current].parent /\ current # Root
<1> DEFINE f == [Top EXCEPT !.at = @ + 1]
<1>1. /\ pass = "reference" /\ frames # <<>> /\ AtStep({"pop"})
      /\ table' = table /\ current' = table.scopes[Top.scope].parent
      /\ frames' = Append(Front(frames), f)
      /\ program' = program /\ typeParams' = typeParams
  BY DEF PopScope, AtStep, Advance, SetTop, walk
<1>2. Linked(table) /\ FrameOK(Top, table)
  BY <1>1, InWalk
<1>3. Extends(table, table')
  BY <1>1, <1>2, ExtendsSame
<1>4. /\ Step = "pop" /\ Top.at \in Nat \ {0} /\ Step = Script[Top.form][Top.at]
      /\ Done(Top, "push") /\ ~Done(Top, "pop")
  BY <1>1, StepTaken
<1>5. /\ f.form = Top.form /\ f.entry = Top.entry /\ f.scope = Top.scope
      /\ f.added = Top.added /\ f.at = Top.at + 1
  BY <1>2 DEF FrameOK, FrameFields
<1> HIDE DEF f
<1>6. \A step : Done(f, step) <=> Done(Top, step) \/ step = "pop"
  BY <1>4, <1>5, DoneNext
<1>7. /\ ~IsOpen(f) /\ IsOpen(Top) /\ IsActive(f) = IsActive(Top)
      /\ ScopeIn(f) = Top.entry /\ ScopeIn(Top) = Top.scope /\ Held(f) = Held(Top)
  BY <1>4, <1>5, <1>6 DEF IsOpen, IsActive, ScopeIn, Held
<1>8. /\ EnteredIn(Top, ScopeBelow, HeldBelow, table)
      /\ current = ScopeIn(Top) /\ typeParams = HeldBelow \union Held(Top)
  BY <1>1, OnTop
<1>9. f.at <= Len(Script[f.form]) + 1
  <2>1. Len(Script[Top.form]) \in Nat /\ Top.at <= Len(Script[Top.form])
    BY <1>1, <1>2, AllScoped DEF FrameOK, Scoped, AtStep
  <2> QED BY <1>4, <1>5, <2>1
<1>10. EnteredIn(f, ScopeBelow, HeldBelow, table')
  BY <1>1, <1>5, <1>7, <1>8, <1>9 DEF EnteredIn
<1>11. current' = ScopeIn(f)
  BY <1>1, <1>7, <1>8 DEF EnteredIn
<1>12. Nested'
  BY <1>1, <1>3, <1>7, <1>8, <1>10, <1>11, TopReplaced DEF Below
<1>13. current # Root
  <2>1. Top.scope \in 2..Len(table.scopes) /\ Len(table.scopes) \in Nat
    BY <1>1, <1>2, <1>4, InWalk DEF Done, FrameOK
  <2> QED BY <1>7, <1>8, <2>1 DEF Root
<1> QED BY <1>1, <1>7, <1>8, <1>12, <1>13

LEMMA NestedAddTypeParams ==
  ASSUME IInv, Nested, AddTypeParams
  PROVE  Nested'
<1> DEFINE added == program.params[Top.form] \ typeParams
           f == [Top EXCEPT !.at = @ + 1, !.added = added]
<1>1. /\ pass = "reference" /\ frames # <<>> /\ AtStep({"add"})
      /\ table' = table /\ current' = current /\ program' = program
      /\ frames' = Append(Front(frames), f) /\ typeParams' = typeParams \union added
  BY DEF AddTypeParams, AtStep, SetTop, walk
<1>2. Linked(table) /\ FrameOK(Top, table)
  BY <1>1, InWalk
<1>3. Extends(table, table')
  BY <1>1, <1>2, ExtendsSame
<1>4. /\ Step = "add" /\ Top.at \in Nat \ {0} /\ Step = Script[Top.form][Top.at]
      /\ ~Done(Top, "add") /\ ~Done(Top, "remove")
  BY <1>1, StepTaken
<1>5. /\ f.form = Top.form /\ f.entry = Top.entry /\ f.scope = Top.scope
      /\ f.added = added /\ f.at = Top.at + 1
  BY <1>2 DEF FrameOK, FrameFields
<1> HIDE DEF f
<1>6. \A step : Done(f, step) <=> Done(Top, step) \/ step = "add"
  BY <1>4, <1>5, DoneNext
<1>7. /\ IsActive(f) /\ ~IsActive(Top) /\ IsOpen(f) = IsOpen(Top)
      /\ ScopeIn(f) = ScopeIn(Top) /\ Held(f) = added /\ Held(Top) = {}
  BY <1>4, <1>5, <1>6 DEF IsOpen, IsActive, ScopeIn, Held
<1>8. /\ EnteredIn(Top, ScopeBelow, HeldBelow, table)
      /\ current = ScopeIn(Top) /\ typeParams = HeldBelow
  <2>1. typeParams = HeldBelow \union Held(Top)
    BY <1>1, OnTop
  <2>2. EnteredIn(Top, ScopeBelow, HeldBelow, table) /\ current = ScopeIn(Top)
    BY <1>1, OnTop
  <2> QED BY <1>7, <2>1, <2>2
<1>9. f.at <= Len(Script[f.form]) + 1
  <2>1. Len(Script[Top.form]) \in Nat /\ Top.at <= Len(Script[Top.form])
    BY <1>1, <1>2, AllScoped DEF FrameOK, Scoped, AtStep
  <2> QED BY <1>4, <1>5, <2>1
<1>10. /\ added \intersect HeldBelow = {}
       /\ program.params[f.form] \subseteq HeldBelow \union added
  BY <1>5, <1>8
<1>11. EnteredIn(f, ScopeBelow, HeldBelow, table')
  BY <1>1, <1>5, <1>7, <1>8, <1>9, <1>10 DEF EnteredIn
<1>12. current' = ScopeIn(f) /\ typeParams' = HeldBelow \union Held(f)
  BY <1>1, <1>7, <1>8
<1> QED BY <1>1, <1>3, <1>11, <1>12, TopReplaced DEF Below

LEMMA NestedRemoveTypeParams ==
  ASSUME IInv, Nested, RemoveTypeParams
  PROVE  Nested'
<1> DEFINE f == [Top EXCEPT !.at = @ + 1]
<1>1. /\ pass = "reference" /\ frames # <<>> /\ AtStep({"remove"})
      /\ table' = table /\ current' = current /\ program' = program
      /\ frames' = Append(Front(frames), f) /\ typeParams' = typeParams \ Top.added
  BY DEF RemoveTypeParams, AtStep, Advance, SetTop, walk
<1>2. Linked(table) /\ FrameOK(Top, table)
  BY <1>1, InWalk
<1>3. Extends(table, table')
  BY <1>1, <1>2, ExtendsSame
<1>4. /\ Step = "remove" /\ Top.at \in Nat \ {0} /\ Step = Script[Top.form][Top.at]
      /\ Done(Top, "add") /\ ~Done(Top, "remove")
  BY <1>1, StepTaken
<1>5. /\ f.form = Top.form /\ f.entry = Top.entry /\ f.scope = Top.scope
      /\ f.added = Top.added /\ f.at = Top.at + 1
  BY <1>2 DEF FrameOK, FrameFields
<1> HIDE DEF f
<1>6. \A step : Done(f, step) <=> Done(Top, step) \/ step = "remove"
  BY <1>4, <1>5, DoneNext
<1>7. /\ ~IsActive(f) /\ IsActive(Top) /\ IsOpen(f) = IsOpen(Top)
      /\ ScopeIn(f) = ScopeIn(Top) /\ Held(f) = {} /\ Held(Top) = Top.added
  BY <1>4, <1>5, <1>6 DEF IsOpen, IsActive, ScopeIn, Held
<1>8. /\ EnteredIn(Top, ScopeBelow, HeldBelow, table)
      /\ current = ScopeIn(Top) /\ typeParams = HeldBelow \union Held(Top)
  BY <1>1, OnTop
<1>9. f.at <= Len(Script[f.form]) + 1
  <2>1. Len(Script[Top.form]) \in Nat /\ Top.at <= Len(Script[Top.form])
    BY <1>1, <1>2, AllScoped DEF FrameOK, Scoped, AtStep
  <2> QED BY <1>4, <1>5, <2>1
<1>10. EnteredIn(f, ScopeBelow, HeldBelow, table')
  BY <1>1, <1>5, <1>7, <1>8, <1>9 DEF EnteredIn
<1>11. Held(Top) \intersect HeldBelow = {}
  BY <1>8 DEF EnteredIn
<1>12. current' = ScopeIn(f) /\ typeParams' = HeldBelow \union Held(f)
  BY <1>1, <1>7, <1>8, <1>11
<1> QED BY <1>1, <1>3, <1>10, <1>12, TopReplaced DEF Below

\* A form is entered: it works where the form that it is in does.
LEMMA NestedNew ==
  ASSUME NEW fs, NEW t, fs \in Seq(Range(fs)), StackOK(fs, t),
         NEW form \in DOMAIN Script, current = ScopeAt(fs, Len(fs))
  PROVE  LET gs == Append(fs, Frame(form))
         IN /\ StackOK(gs, t)
            /\ ScopeAt(gs, Len(gs)) = current
            /\ HeldUpTo(gs, Len(gs)) = HeldUpTo(fs, Len(fs))
<1> DEFINE f == Frame(form)
<1>1. f.form = form /\ f.entry = current /\ f.at = 1
  BY DEF Frame
<1>2. \A step : ~Done(f, step)
  BY NothingDone
<1> HIDE DEF f
<1>3. ~IsOpen(f) /\ ~IsActive(f) /\ ScopeIn(f) = current /\ Held(f) = {}
  BY <1>1, <1>2 DEF IsOpen, IsActive, ScopeIn, Held
<1>4. f.at <= Len(Script[f.form]) + 1
  <2>1. Len(Script[form]) \in Nat
    BY AllScoped DEF Scoped
  <2> QED BY <1>1, <2>1
<1>5. EnteredIn(f, ScopeAt(fs, Len(fs)), HeldUpTo(fs, Len(fs)), t)
  BY <1>1, <1>3, <1>4 DEF EnteredIn
<1> DEFINE gs == Append(fs, f)
<1>6. /\ StackOK(gs, t) /\ ScopeAt(gs, Len(gs)) = ScopeIn(f)
      /\ HeldUpTo(gs, Len(gs)) = HeldUpTo(fs, Len(fs)) \union Held(f)
  BY <1>5, StackPush
<1>7. /\ StackOK(gs, t) /\ ScopeAt(gs, Len(gs)) = current
      /\ HeldUpTo(gs, Len(gs)) = HeldUpTo(fs, Len(fs))
  <2> HIDE DEF gs
  <2> QED BY <1>3, <1>6
<1> QED BY <1>7 DEF f

LEMMA NestedEntered ==
  ASSUME IInv, Nested, NEW S, AtStep(S), UNCHANGED <<program, current, typeParams, table>>,
         NEW f, NEW form \in DOMAIN Script,
         f.form = Top.form, f.entry = Top.entry, f.scope = Top.scope,
         f.added = Top.added, f.at = Top.at \/ (f.at = Top.at + 1 /\ Quiet(Step)),
         frames' = Append(Append(Front(frames), f), Frame(form))
  PROVE  Nested'
<1> DEFINE fs == Append(Below, f)
<1>1. pass = "reference" /\ frames # <<>>
  BY DEF AtStep
<1>2. /\ EnteredIn(f, ScopeBelow, HeldBelow, table)
      /\ ScopeIn(f) = current /\ HeldBelow \union Held(f) = typeParams
  BY TopQuiet
<1>3. Below \in Seq(Range(Below)) /\ StackOK(Below, table)
  BY <1>1, OnTop
<1>4. /\ StackOK(fs, table) /\ ScopeAt(fs, Len(fs)) = ScopeIn(f)
      /\ HeldUpTo(fs, Len(fs)) = HeldUpTo(Below, Len(Below)) \union Held(f)
  BY <1>2, <1>3, StackPush DEF ScopeBelow, HeldBelow
<1>5. fs \in Seq(Range(fs))
  BY <1>3, Appended
<1>6. frames' = Append(fs, Frame(form))
  BY DEF Below
<1> HIDE DEF fs
<1>7. /\ StackOK(frames', table) /\ ScopeAt(frames', Len(frames')) = current
      /\ HeldUpTo(frames', Len(frames')) = HeldUpTo(fs, Len(fs))
  BY <1>2, <1>4, <1>5, <1>6, NestedNew
<1>8. HeldUpTo(frames', Len(frames')) = typeParams
  BY <1>2, <1>4, <1>7 DEF HeldBelow
<1> QED BY <1>7, <1>8, NestedThen

LEMMA NestedBeginItem ==
  ASSUME IInv, Nested, BeginItem, Item.kind \in DOMAIN Script
  PROVE  Nested'
<1>1. /\ frames' = Append(frames, Frame(Item.kind))
      /\ UNCHANGED <<program, current, typeParams, table>>
  BY DEF BeginItem, Call
<1>2. frames \in Seq(Range(frames))
  BY DEF IInv, Shapes, FramesOK
<1>3. /\ StackOK(frames', table) /\ ScopeAt(frames', Len(frames')) = current
      /\ HeldUpTo(frames', Len(frames')) = typeParams
  BY <1>1, <1>2, NestedNew DEF Nested
<1> QED BY <1>1, <1>3, NestedThen

LEMMA NestedReturn ==
  ASSUME IInv, Nested, Return
  PROVE  Nested'
<1>1. /\ pass = "reference" /\ frames # <<>> /\ Top.at > Len(Script[Top.form])
      /\ frames' = Below /\ UNCHANGED <<program, current, typeParams, table>>
  BY DEF Return, Below
<1>2. /\ StackOK(Below, table) /\ FrameOK(Top, table)
      /\ EnteredIn(Top, ScopeBelow, HeldBelow, table)
      /\ current = ScopeIn(Top) /\ typeParams = HeldBelow \union Held(Top)
  BY <1>1, OnTop
<1>3. ~IsOpen(Top) /\ ~IsActive(Top)
  BY <1>1, <1>2, AllDone DEF EnteredIn
<1>4. current = ScopeBelow /\ typeParams = HeldBelow
  BY <1>2, <1>3 DEF ScopeIn, Held, EnteredIn
<1>5. /\ StackOK(frames', table') /\ current' = ScopeAt(frames', Len(frames'))
      /\ typeParams' = HeldUpTo(frames', Len(frames'))
  BY <1>1, <1>2, <1>4 DEF ScopeBelow, HeldBelow
<1> QED BY <1>1, <1>5, NestedThen

\* Scopes are entered and left in step with the source.
LEMMA NestedBalanced ==
  ASSUME IInv, Nested
  PROVE  Balanced
<1>1. FramesOK(frames, table)
  BY DEF IInv, Shapes
<1>2. frames \in Seq(Range(frames)) /\ Len(frames) \in Nat /\ DOMAIN frames = 1..Len(frames)
  BY <1>1, LenProperties DEF FramesOK
<1>3. frames = <<>> => current = Root /\ typeParams = {}
  <2>1. Len(<<>>) = 0
    BY EmptySeq
  <2>2. HeldUpTo(<<>>, 0) = {}
    BY HeldNext
  <2> QED BY <2>1, <2>2 DEF Nested, ScopeAt
<1>4. ASSUME frames # <<>>
      PROVE  /\ Top.at > Len(Script[Top.form]) => current = Top.entry
             /\ AtStep({"pop"}) => current = Top.scope
  <2>1. pass = "reference"
    BY <1>4 DEF IInv, Walk
  <2>2. /\ FrameOK(Top, table) /\ current = ScopeIn(Top)
        /\ EnteredIn(Top, ScopeBelow, HeldBelow, table)
    BY <1>4, <2>1, OnTop
  <2>3. Top.at > Len(Script[Top.form]) => ~IsOpen(Top)
    BY <2>2, AllDone DEF EnteredIn
  <2>4. AtStep({"pop"}) => IsOpen(Top)
    BY StepTaken DEF IsOpen
  <2> QED BY <2>2, <2>3, <2>4 DEF ScopeIn
<1>5. ASSUME NEW i \in 1..Len(frames),
             "add" \in {Script[frames[i].form][k] : k \in 1..(frames[i].at - 1)},
             "remove" \notin {Script[frames[i].form][k] : k \in 1..(frames[i].at - 1)}
      PROVE  program.params[frames[i].form] \subseteq typeParams
  <2>1. IsActive(frames[i])
    BY <1>5 DEF IsActive, Done
  <2>2. /\ program.params[frames[i].form] \subseteq HeldUpTo(frames, i - 1) \union Held(frames[i])
    BY <2>1 DEF Nested, StackOK, EnteredIn
  <2>3. \A j \in 1..(i - 1) : j \in 1..Len(frames)
    BY <1>2
  <2>4. HeldUpTo(frames, i - 1) \union Held(frames[i]) \subseteq typeParams
    BY <2>3 DEF HeldUpTo, Nested
  <2> QED BY <2>2, <2>4
<1> QED BY <1>2, <1>3, <1>4, <1>5 DEF Balanced

-----------------------------------------------------------------------------
(* Lexical scoping: the scopes that are open.                              *)

\* Along the chain of a scope, a name that is bound again is bound by an
\* import, and to a later definition.
Layered(t, s) ==
  \A i, j \in Chain(t, s) : i < j =>
    \A n \in DOMAIN t.scopes[i].bind \intersect DOMAIN t.scopes[j].bind :
      /\ t.scopes[i].bind[n] < t.scopes[j].bind[n]
      /\ t.defs[t.scopes[j].bind[n]].kind = "Namespace"

\* What the other scopes than the root bind is local.
Local(d) == table.defs[d].ns = None /\ ~IsTopLevel(d)
LocalsAreLocal ==
  \A s \in 2..Len(table.scopes) : \A n \in DOMAIN table.scopes[s].bind :
    Local(table.scopes[s].bind[n])

LEMMA LayeredRoot ==
  ASSUME NEW t, Linked(t)
  PROVE  Layered(t, Root)
<1>1. Chain(t, Root) = {Root}
  BY ChainEquations
<1> QED BY <1>1 DEF Layered, Root

\* A chain of a table stays layered when the table grows elsewhere.
LEMMA LayeredKept ==
  ASSUME NEW t, NEW u, Extends(t, u), NEW s \in 1..Len(t.scopes), Layered(t, s),
         \A i \in Chain(t, s) : DOMAIN u.scopes[i].bind = DOMAIN t.scopes[i].bind
  PROVE  Layered(u, s)
<1>1. Chain(u, s) = Chain(t, s) /\ Linked(t)
  BY ChainKept DEF Extends
<1>2. Chain(t, s) \subseteq 1..Len(t.scopes)
  <2>1. Chain(t, s) \subseteq 1..s /\ Len(t.scopes) \in Nat
    BY <1>1, ChainOf, Lengths
  <2> QED BY <2>1
<1>3. ASSUME NEW i \in Chain(t, s), NEW n \in DOMAIN u.scopes[i].bind
      PROVE  /\ u.scopes[i].bind[n] = t.scopes[i].bind[n]
             /\ t.scopes[i].bind[n] \in 1..Len(t.defs)
             /\ u.defs[t.scopes[i].bind[n]] = t.defs[t.scopes[i].bind[n]]
  <2>1. i \in 1..Len(t.scopes) /\ n \in DOMAIN t.scopes[i].bind
    BY <1>2, <1>3
  <2>2. t.scopes[i].bind[n] \in 1..Len(t.defs)
    BY <1>1, <2>1 DEF Linked
  <2>3. u.scopes[i].bind[n] = t.scopes[i].bind[n]
    BY <2>1 DEF Extends
  <2>4. u.defs[t.scopes[i].bind[n]] = t.defs[t.scopes[i].bind[n]]
    BY <2>2 DEF Extends
  <2> QED BY <2>2, <2>3, <2>4
<1> SUFFICES ASSUME NEW i \in Chain(t, s), NEW j \in Chain(t, s), i < j,
                    NEW n \in DOMAIN u.scopes[i].bind \intersect DOMAIN u.scopes[j].bind
             PROVE  /\ u.scopes[i].bind[n] < u.scopes[j].bind[n]
                    /\ u.defs[u.scopes[j].bind[n]].kind = "Namespace"
  BY <1>1 DEF Layered
<1>4. n \in DOMAIN t.scopes[i].bind \intersect DOMAIN t.scopes[j].bind
  OBVIOUS
<1>5. /\ t.scopes[i].bind[n] < t.scopes[j].bind[n]
      /\ t.defs[t.scopes[j].bind[n]].kind = "Namespace"
  BY <1>4 DEF Layered
<1> QED BY <1>3, <1>5

\* A new scope binds nothing.
LEMMA LayeredPush ==
  ASSUME NEW t, Linked(t), NEW s \in 1..Len(t.scopes), Layered(t, s)
  PROVE  Layered(NewScope(t, s), Len(t.scopes) + 1)
<1> DEFINE u == NewScope(t, s)
           n == Len(t.scopes) + 1
<1>1. /\ Linked(u) /\ Len(u.scopes) = n
      /\ DOMAIN u.scopes[n].bind = {} /\ u.scopes[n].parent = s
      /\ \A i \in 1..Len(t.scopes) : u.scopes[i] = t.scopes[i]
  BY Opened
<1>2. Extends(t, u)
  BY ExtendsOpened
<1>3. Len(t.scopes) \in Nat \ {0}
  BY Lengths
<1>4. n \in 2..Len(u.scopes)
  BY <1>1, <1>3
<1> HIDE DEF u
<1>5. Chain(u, n) = {n} \union Chain(u, s)
  BY <1>1, <1>4, ChainEquations
<1>6. Layered(u, s)
  <2>1. Chain(t, s) \subseteq 1..s
    BY ChainOf
  <2>2. \A i \in Chain(t, s) : i \in 1..Len(t.scopes)
    BY <1>3, <2>1
  <2> QED BY <1>1, <1>2, <2>2, LayeredKept
<1>7. Layered(u, n)
  <2> SUFFICES ASSUME NEW i \in Chain(u, n), NEW j \in Chain(u, n), i < j,
                      NEW x \in DOMAIN u.scopes[i].bind \intersect DOMAIN u.scopes[j].bind
               PROVE  /\ u.scopes[i].bind[x] < u.scopes[j].bind[x]
                      /\ u.defs[u.scopes[j].bind[x]].kind = "Namespace"
    BY DEF Layered
  <2>1. i # n /\ j # n
    BY <1>1
  <2> QED BY <1>5, <1>6, <2>1 DEF Layered
<1> QED BY <1>7 DEF u

LEMMA LayeredPop ==
  ASSUME NEW t, Linked(t), NEW s \in 2..Len(t.scopes), Layered(t, s)
  PROVE  Layered(t, t.scopes[s].parent)
<1>1. Chain(t, t.scopes[s].parent) \subseteq Chain(t, s)
  BY ChainEquations
<1> QED BY <1>1 DEF Layered

\* A scope binds a name that its chain does not bind, or an import.
LEMMA LayeredBound ==
  ASSUME NEW t, Linked(t), NEW s \in 1..Len(t.scopes), Layered(t, s), NEW d,
         NEW name, name \notin DOMAIN t.scopes[s].bind, s # Root => Len(name) = 1,
         d.kind = "Namespace" \/ Binders(t, s, name) = {}
  PROVE  Layered(Bind(NewDef(t, d), s, name), s)
<1> DEFINE u == Bind(NewDef(t, d), s, name)
           id == Len(t.defs) + 1
<1>1. /\ Linked(u) /\ Len(u.scopes) = Len(t.scopes)
      /\ Len(u.defs) = id /\ u.defs[id] = d
      /\ \A i \in 1..Len(t.scopes) :
           /\ u.scopes[i].parent = t.scopes[i].parent
           /\ u.scopes[i].bind = IF i = s THEN With(t.scopes[s].bind, name, id)
                                 ELSE t.scopes[i].bind
  BY Bound, SMTT(30)
<1>2. Extends(t, u)
  BY ExtendsBound
<1>3. /\ DOMAIN With(t.scopes[s].bind, name, id) = DOMAIN t.scopes[s].bind \union {name}
      /\ With(t.scopes[s].bind, name, id)[name] = id
  BY DEF With
<1>4. Len(t.scopes) \in Nat /\ Len(t.defs) \in Nat /\ Chain(t, s) \subseteq 1..s
  BY Lengths, ChainOf
<1> HIDE DEF u
<1>5. Chain(u, s) = Chain(t, s)
  BY <1>1, <1>2, ChainKept DEF Extends
<1>6. \A i \in Chain(t, s) : i \in 1..Len(t.scopes) /\ i <= s
  BY <1>4
<1> SUFFICES ASSUME NEW i \in Chain(t, s), NEW j \in Chain(t, s), i < j,
                    NEW n \in DOMAIN u.scopes[i].bind \intersect DOMAIN u.scopes[j].bind
             PROVE  /\ u.scopes[i].bind[n] < u.scopes[j].bind[n]
                    /\ u.defs[u.scopes[j].bind[n]].kind = "Namespace"
  BY <1>5 DEF Layered, u
<1>7. i # s /\ i \in 1..Len(t.scopes) /\ j \in 1..Len(t.scopes)
  BY <1>6
<1>8. n \in DOMAIN t.scopes[i].bind /\ u.scopes[i].bind[n] = t.scopes[i].bind[n]
      /\ t.scopes[i].bind[n] \in 1..Len(t.defs)
  BY <1>1, <1>7 DEF Linked
<1>9. CASE j = s /\ n = name
  <2>1. u.scopes[j].bind[n] = id
    BY <1>1, <1>3, <1>7, <1>9
  <2>2. i \in Binders(t, s, name)
    BY <1>8, <1>9 DEF Binders
  <2>3. d.kind = "Namespace"
    BY <2>2
  <2> QED BY <1>1, <1>4, <1>8, <2>1, <2>3
<1>10. CASE ~(j = s /\ n = name)
  <2>1. n \in DOMAIN t.scopes[j].bind
    BY <1>1, <1>3, <1>7, <1>10
  <2>2. u.scopes[j].bind[n] = t.scopes[j].bind[n]
    BY <1>2, <1>7, <2>1 DEF Extends
  <2>3. t.scopes[j].bind[n] \in 1..Len(t.defs)
    BY <1>7, <2>1 DEF Linked
  <2>4. u.defs[t.scopes[j].bind[n]] = t.defs[t.scopes[j].bind[n]]
    BY <1>2, <2>3 DEF Extends
  <2>5. /\ t.scopes[i].bind[n] < t.scopes[j].bind[n]
        /\ t.defs[t.scopes[j].bind[n]].kind = "Namespace"
    BY <1>8, <2>1 DEF Layered
  <2> QED BY <1>8, <2>2, <2>4, <2>5
<1> QED BY <1>9, <1>10

LEMMA LayeredNoShadowing ==
  ASSUME Layered(table, current)
  PROVE  NoShadowing
BY DEF Layered, NoShadowing

\* A definition that is made for a scope other than the root is local, and
\* the others stay so.
LEMMA LocalsKept ==
  ASSUME IInv, LocalsAreLocal, Extends(table, table'), top' = top,
         \A s \in 2..Len(table'.scopes) : \A n \in DOMAIN table'.scopes[s].bind :
           \/ s <= Len(table.scopes) /\ n \in DOMAIN table.scopes[s].bind
           \/ table'.defs[table'.scopes[s].bind[n]].ns = None
  PROVE  LocalsAreLocal'
<1>1. /\ Linked(table) /\ Linked(table') /\ Len(table.scopes) \in Nat
      /\ Len(table'.scopes) \in Nat /\ Len(table.defs) \in Nat
  BY Lengths DEF Extends
<1> SUFFICES ASSUME NEW s \in 2..Len(table'.scopes), NEW n \in DOMAIN table'.scopes[s].bind
             PROVE  LET d == table'.scopes[s].bind[n]
                    IN /\ table'.defs[d].ns = None
                       /\ ~\E k \in DOMAIN top.order : top.order[k].def = d
  BY DEF LocalsAreLocal, Local, IsTopLevel
<1> DEFINE d == table'.scopes[s].bind[n]
<1>2. CASE s <= Len(table.scopes) /\ n \in DOMAIN table.scopes[s].bind
  <2>1. s \in 2..Len(table.scopes) /\ s \in 1..Len(table.scopes)
    BY <1>1, <1>2
  <2>2. d = table.scopes[s].bind[n] /\ d \in 1..Len(table.defs)
    BY <1>1, <1>2, <2>1 DEF Extends, Linked
  <2>3. table'.defs[d] = table.defs[d]
    BY <2>2 DEF Extends
  <2>4. Local(d)
    BY <1>2, <2>1, <2>2 DEF LocalsAreLocal
  <2> QED BY <2>3, <2>4 DEF Local, IsTopLevel
<1>3. CASE ~(s <= Len(table.scopes) /\ n \in DOMAIN table.scopes[s].bind)
  <2>1. table'.defs[d].ns = None
    BY <1>3
  <2>2. s \in 1..Len(table'.scopes)
    BY <1>1
  <2>3. d > Len(table.defs)
    BY <1>3, <2>2 DEF Extends
  <2>4. \A k \in DOMAIN top.order : top.order[k].def \in 1..Len(table.defs)
    BY DEF IInv, Declarations, Declares
  <2>5. \A k \in DOMAIN top.order : top.order[k].def # d
    <3> HIDE DEF d
    <3> QED BY <1>1, <2>3, <2>4
  <2> QED BY <2>1, <2>5 DEF Local, IsTopLevel
<1> QED BY <1>2, <1>3

-----------------------------------------------------------------------------
(* Lexical scoping: what a reference denotes.                              *)

\* The local definition that a name finds is the latest of its locals.
LEMMA NearestLocal ==
  ASSUME IInv, Layered(table, current), NEW w, NEW d
  PROVE  LET local == LookupLocalNonRoot(table, current, <<Head(w)>>)
             m == [Mention(w) EXCEPT !.to = d]
         IN /\ LocalsOf(m) = LocalsOf(Mention(w))
            /\ local = 0 <=> LocalsOf(Mention(w)) = {}
            /\ local # 0 => Max(LocalsOf(Mention(w))) = local
            /\ local \in 0..Len(table.defs)
<1> DEFINE h == <<Head(w)>>
           local == LookupLocalNonRoot(table, current, h)
           bound == Binders(table, current, h) \ {Root}
           L == LocalsOf(Mention(w))
           m == [Mention(w) EXCEPT !.to = d]
           c == Chain(table, current)
           at(s) == table.scopes[s].bind[h]
<1>1. /\ Linked(table) /\ current \in 1..Len(table.scopes)
      /\ Len(table.defs) \in Nat /\ Len(table.scopes) \in Nat
  BY Lengths DEF IInv, Shapes
<1>2. /\ Mention(w).name = w /\ Mention(w).scope = current
      /\ Mention(w).after = Len(table.defs)
      /\ m.name = w /\ m.scope = current /\ m.after = Len(table.defs)
  BY DEF Mention
<1>3. LocalsOf(m) = L
  <2> HIDE DEF m
  <2> QED BY <1>2 DEF LocalsOf
<1>4. L = {e \in 1..Len(table.defs) : \E s \in c \ {Root} :
             h \in DOMAIN table.scopes[s].bind /\ at(s) = e}
  BY <1>2 DEF LocalsOf
<1>5. bound = {s \in c \ {Root} : h \in DOMAIN table.scopes[s].bind}
  BY DEF Binders
<1>6. c \subseteq 1..Len(table.scopes)
  <2>1. c \subseteq 1..current
    BY <1>1, ChainOf
  <2> QED BY <1>1, <2>1
<1>7. \A s \in bound : at(s) \in 1..Len(table.defs)
  BY <1>1, <1>5, <1>6 DEF Linked
<1>8. L \subseteq {at(s) : s \in bound} /\ \A s \in bound : at(s) \in L
  <2> HIDE DEF L, bound, c
  <2> QED BY <1>4, <1>5, <1>7
<1>9. CASE bound = {}
  <2>1. local = 0
    BY <1>9 DEF LookupLocalNonRoot, Found
  <2>2. L = {}
    <3> HIDE DEF L, bound
    <3> QED BY <1>8, <1>9
  <2> HIDE DEF L, local
  <2> QED BY <1>1, <1>3, <2>1, <2>2 DEF L, local
<1>10. CASE bound # {}
  <2> DEFINE s0 == Max(bound)
  <2>1. /\ s0 \in bound /\ \A i \in bound : i <= s0
        /\ local = at(s0) /\ local \in 1..Len(table.defs)
    <3>1. bound \in SUBSET Binders(table, current, h)
      OBVIOUS
    <3>2. local = Found(table, bound, h)
      BY DEF LookupLocalNonRoot
    <3> HIDE DEF bound, h, local
    <3>3. /\ Max(bound) \in bound /\ \A i \in bound : i <= Max(bound)
          /\ Found(table, bound, h) = table.scopes[Max(bound)].bind[h]
          /\ Found(table, bound, h) \in 1..Len(table.defs)
      BY <1>1, <1>10, <3>1, FoundIn
    <3> QED BY <3>2, <3>3
  <2> HIDE DEF s0
  <2>2. \A s \in bound : at(s) <= at(s0)
    <3> TAKE s \in bound
    <3>1. CASE s = s0
      BY <1>7, <3>1
    <3>2. CASE s # s0
      <4>1. s \in c /\ s0 \in c /\ s < s0
        <5>1. s \in c /\ s0 \in c
          BY <1>5, <2>1
        <5>2. s \in 1..Len(table.scopes) /\ s0 \in 1..Len(table.scopes) /\ s <= s0
          BY <1>6, <2>1, <5>1
        <5> QED BY <1>1, <3>2, <5>1, <5>2
      <4>2. h \in DOMAIN table.scopes[s].bind \intersect DOMAIN table.scopes[s0].bind
        BY <1>5, <2>1
      <4>3. at(s) < at(s0)
        BY <4>1, <4>2 DEF Layered
      <4> QED BY <1>7, <2>1, <4>3
    <3> QED BY <3>1, <3>2
  <2>3. local \in L /\ L # {} /\ \A e \in L : e <= local
    <3> HIDE DEF L, bound, local, c, h
    <3> QED BY <1>8, <2>1, <2>2
  <2>4. Max(L) = local
    <3>1. L \in SUBSET (0..Len(table.defs))
      BY <1>4
    <3> HIDE DEF L, local
    <3>2. Max(L) \in L /\ local <= Max(L)
      BY <1>1, <2>3, <3>1, LargestOf
    <3>3. Max(L) <= local
      BY <2>3, <3>2
    <3>4. Max(L) \in 0..Len(table.defs)
      BY <3>1, <3>2
    <3> QED BY <1>1, <2>1, <3>2, <3>3, <3>4
  <2>5. local # 0
    BY <2>1
  <2> HIDE DEF L, local
  <2> QED BY <1>1, <1>3, <2>1, <2>3, <2>4, <2>5 DEF L, local
<1> QED BY <1>9, <1>10

\* A name of more than one segment is bound at the root only.
LEMMA RootOnly ==
  ASSUME IInv, NEW name, Len(name) # 1
  PROVE  /\ LookupLocalNonRoot(table, current, name) = 0
         /\ Lookup(table, current, name) # 0 =>
              name \in DOMAIN table.scopes[Root].bind
<1>1. Linked(table) /\ current \in 1..Len(table.scopes) /\ Len(table.scopes) \in Nat
  BY Lengths DEF IInv, Shapes
<1>2. Chain(table, current) \subseteq 1..current
  BY <1>1, ChainOf
<1>3. \A s \in Binders(table, current, name) : s = Root
  <2> TAKE s \in Binders(table, current, name)
  <2>1. s \in 1..Len(table.scopes) /\ name \in DOMAIN table.scopes[s].bind
    BY <1>1, <1>2 DEF Binders
  <2> QED BY <1>1, <2>1 DEF Linked
<1>4. Binders(table, current, name) \ {Root} = {}
  BY <1>3
<1>5. LookupLocalNonRoot(table, current, name) = 0
  BY <1>4 DEF LookupLocalNonRoot, Found
<1>6. Lookup(table, current, name) # 0 => Root \in Binders(table, current, name)
  BY <1>3 DEF Lookup, Found
<1> QED BY <1>5, <1>6 DEF Binders

\* A reference to w turns o into r: it denotes d, or nothing.
Denotes(o, r, w, d) ==
  r = [o EXCEPT !.used = @ \union {d},
                !.mentions = (@ \ {Mention(w)})
                             \union {[Mention(w) EXCEPT !.to = d]}]
Silent(o, r) == r = o \/ \E code, name : r = Emit(o, code, name)
Answered(o, r, w) ==
  Silent(o, r) \/ \E d \in 1..Len(table.defs) : Denotes(o, r, w, d)

LEMMA RecordAnswered ==
  ASSUME NEW o, NEW name, NEW d \in 1..Len(table.defs), NEW w
  PROVE  /\ Answered(o, RecordResolution(o, name, d, w), w)
         /\ Local(d) => Denotes(o, RecordResolution(o, name, d, w), w, d)
<1> DEFINE r == RecordResolution(o, name, d, w)
<1>1. Silent(o, r) \/ Denotes(o, r, w, d)
  BY DEF RecordResolution, Silent, Denotes
<1>2. ASSUME Local(d) PROVE Denotes(o, r, w, d)
  <2>1. ~PrivateAccess(d) /\ ~QualifierRequired(name, d) /\ ~ForwardReference(name, d)
    BY <1>2 DEF Local, IsTopLevel, PrivateAccess, QualifierRequired, ForwardReference
  <2> QED BY <2>1 DEF RecordResolution, Denotes
<1> QED BY <1>1, <1>2 DEF Answered

LEMMA FoundLocal ==
  ASSUME IInv, LocalsAreLocal, NEW name, LookupLocalNonRoot(table, current, name) # 0
  PROVE  Local(LookupLocalNonRoot(table, current, name))
<1> DEFINE among == Binders(table, current, name) \ {Root}
<1>1. Linked(table) /\ current \in 1..Len(table.scopes) /\ Len(table.scopes) \in Nat
  BY Lengths DEF IInv, Shapes
<1>2. among \in SUBSET Binders(table, current, name) /\ Root \notin among
  OBVIOUS
<1>3. Found(table, among, name) # 0
  BY DEF LookupLocalNonRoot
<1> HIDE DEF among
<1>4. /\ Max(among) \in among /\ Max(among) \in 1..Len(table.scopes)
      /\ name \in DOMAIN table.scopes[Max(among)].bind
      /\ Found(table, among, name) = table.scopes[Max(among)].bind[name]
  BY <1>1, <1>2, <1>3, FoundIn
<1>5. Max(among) \in 2..Len(table.scopes)
  BY <1>1, <1>2, <1>4 DEF Root
<1>6. Local(Found(table, among, name))
  BY <1>4, <1>5 DEF LocalsAreLocal
<1> QED BY <1>6 DEF LookupLocalNonRoot, among

LEMMA NameAnswered ==
  ASSUME Walking, LocalsAreLocal, NEW o, NEW name, NEW w
  PROVE  LET r == ResolveName(o, name, w)
             local == LookupLocalNonRoot(table, current, name)
         IN /\ Answered(o, r, w)
            /\ local # 0 /\ name \notin typeParams \union Modules
                 => Denotes(o, r, w, local)
            /\ Len(name) > 1 /\ Lookup(table, current, name) = 0 => Silent(o, r)
<1> DEFINE local == LookupLocalNonRoot(table, current, name)
           qualified == Qualified(namespace, name)
           own == Lookup(table, current, qualified)
           global == Lookup(table, current, name)
           leaf == UniqueExternalLeaf(name)
           r == ResolveName(o, name, w)
<1>1. /\ local # 0 => local \in 1..Len(table.defs) /\ Local(local)
      /\ own # 0 => own \in 1..Len(table.defs)
      /\ global # 0 => global \in 1..Len(table.defs)
  <2>1. local # 0 => KnownAs(name, local) /\ Local(local)
    BY LookedUp, FoundLocal DEF Walking
  <2>2. own # 0 => KnownAs(qualified, own)
    BY LookedUp DEF Walking
  <2>3. global # 0 => KnownAs(name, global)
    BY LookedUp DEF Walking
  <2> QED BY <2>1, <2>2, <2>3 DEF KnownAs
<1>2. CASE name \in typeParams \union Modules
  <2>1. r = o
    BY <1>2 DEF ResolveName
  <2> QED BY <1>2, <2>1 DEF Answered, Silent
<1>3. CASE name \notin typeParams \union Modules /\ local # 0
  <2>1. r = RecordResolution(o, name, local, w)
    BY <1>3 DEF ResolveName
  <2>2. ~(Len(name) > 1)
    <3>1. Len(name) = 1
      BY <1>3, RootOnly DEF Walking
    <3> QED BY <3>1
  <2> HIDE DEF local
  <2>3. /\ Answered(o, RecordResolution(o, name, local, w), w)
        /\ Denotes(o, RecordResolution(o, name, local, w), w, local)
    BY <1>1, <1>3, RecordAnswered
  <2> HIDE DEF r
  <2> QED BY <2>1, <2>2, <2>3 DEF r, local
<1>4. CASE name \notin typeParams \union Modules /\ local = 0
  <2>1. CASE qualified # None /\ own # 0
    <3>1. r = RecordResolution(o, qualified, own, w)
      BY <1>4, <2>1 DEF ResolveName
    <3>2. ~(Len(name) > 1)
      BY <2>1 DEF Qualified
    <3> HIDE DEF own, qualified
    <3>3. Answered(o, RecordResolution(o, qualified, own, w), w)
      BY <1>1, <2>1, RecordAnswered
    <3> HIDE DEF r, local
    <3> QED BY <1>4, <3>1, <3>2, <3>3 DEF r, local
  <2>2. CASE ~(qualified # None /\ own # 0) /\ global # 0
    <3>1. r = RecordResolution(o, name, global, w)
      BY <1>4, <2>2 DEF ResolveName
    <3> HIDE DEF global
    <3>2. Answered(o, RecordResolution(o, name, global, w), w)
      BY <1>1, <2>2, RecordAnswered
    <3> HIDE DEF r, local
    <3> QED BY <1>4, <2>2, <3>1, <3>2 DEF r, local, global
  <2>3. CASE ~(qualified # None /\ own # 0) /\ global = 0
    <3>1. r = IF leaf # 0 THEN RecordResolution(o, name, leaf, w)
              ELSE Emit(o, "undefined", name)
      BY <1>4, <2>3 DEF ResolveName
    <3>2. leaf # 0 => QualifierRequired(name, leaf)
      BY LeafQualified
    <3>3. Silent(o, r)
      <4> HIDE DEF leaf, r
      <4> QED BY <3>1, <3>2 DEF RecordResolution, Silent
    <3> HIDE DEF r, local
    <3> QED BY <1>4, <3>3 DEF r, local, Answered
  <2> QED BY <2>1, <2>2, <2>3
<1> QED BY <1>2, <1>3, <1>4

LEMMA PrefixOne ==
  ASSUME NEW path \in Seq(Words), path # <<>>
  PROVE  SubSeq(path, 1, 1) = <<Head(path)>> /\ Len(SubSeq(path, 1, 1)) = 1
<1>1. Len(path) \in Nat /\ 1 \in 1..Len(path)
  BY LenProperties, EmptySeq
<1>2. /\ SubSeq(path, 1, 1) \in Seq(Words) /\ Len(SubSeq(path, 1, 1)) = 1
      /\ Head(SubSeq(path, 1, 1)) = Head(path)
  BY <1>1, PrefixOf
<1> QED BY <1>2, OneSegmentName

LEMMA CandidateAnswered ==
  ASSUME Walking, LocalsAreLocal, NEW o, NEW path \in Seq(Words), NEW w,
         IsPrefixed(path)
  PROVE  Answered(o, ResolveCandidate(o, path, w), w)
<1> DEFINE whole == Lookup(table, current, path)
           prefix == SubSeq(path, 1, StopAt(path))
           d == Lookup(table, current, prefix)
           r == ResolveCandidate(o, path, w)
<1>1. whole # 0 => whole \in 1..Len(table.defs)
  BY LookedUp DEF Walking, KnownAs
<1>2. d # 0 => d \in 1..Len(table.defs)
  BY LookedUp DEF Walking, KnownAs
<1>3. CASE whole # 0
  <2>1. r = RecordResolution(o, path, whole, w)
    BY <1>3 DEF ResolveCandidate
  <2> HIDE DEF whole
  <2>2. Answered(o, RecordResolution(o, path, whole, w), w)
    BY <1>1, <1>3, RecordAnswered
  <2> QED BY <2>1, <2>2
<1>4. CASE whole = 0
  <2>1. prefix \in Modules \/ d # 0
    <3>1. StopAt(path) # 0
      BY <1>4 DEF IsPrefixed
    <3> QED BY <3>1, StopIn
  <2>2. r = IF prefix \in Modules THEN o
            ELSE IF table.defs[d].kind = "Namespace" THEN ResolveName(o, prefix, w)
            ELSE RecordResolution(o, prefix, d, w)
    BY <1>4 DEF ResolveCandidate
  <2> HIDE DEF prefix, d, r
  <2>3. Answered(o, o, w)
    BY DEF Answered, Silent
  <2>4. Answered(o, ResolveName(o, prefix, w), w)
    BY NameAnswered
  <2>5. prefix \notin Modules => Answered(o, RecordResolution(o, prefix, d, w), w)
    BY <1>2, <2>1, RecordAnswered
  <2>6. Answered(o, r, w)
    BY <2>2, <2>3, <2>4, <2>5
  <2> QED BY <2>6 DEF r
<1> QED BY <1>3, <1>4

\* A path that nothing but its head, which is local, could be looked up by.
Plain(path) ==
  /\ LookupLocalNonRoot(table, current, <<Head(path)>>) # 0
  /\ <<Head(path)>> \notin typeParams \union Modules
  /\ \A k \in 2..Len(path) :
       SubSeq(path, 1, k) \notin DOMAIN table.scopes[Root].bind

LEMMA PlainPrefix ==
  ASSUME Walking, NEW path \in Seq(Words), Plain(path), NEW k \in 2..Len(path)
  PROVE  /\ Lookup(table, current, SubSeq(path, 1, k)) = 0
         /\ SubSeq(path, 1, k) \notin Modules
<1>1. Len(path) \in Nat /\ k \in 1..Len(path) /\ k # 1
  BY LenProperties
<1>2. Len(SubSeq(path, 1, k)) # 1
  BY <1>1, PrefixOf
<1>3. SubSeq(path, 1, k) \notin DOMAIN table.scopes[Root].bind
  BY DEF Plain
<1> QED BY <1>2, <1>3, RootOnly, ModulesOneSegment DEF Walking

LEMMA CandidatePlain ==
  ASSUME Walking, LocalsAreLocal, NEW o, NEW path \in Seq(Words), NEW w,
         Len(path) > 1, IsPrefixed(path), Plain(path)
  PROVE  Denotes(o, ResolveCandidate(o, path, w), w,
                 LookupLocalNonRoot(table, current, <<Head(path)>>))
<1> DEFINE k == StopAt(path)
           prefix == SubSeq(path, 1, k)
           d == Lookup(table, current, prefix)
           r == ResolveCandidate(o, path, w)
           local == LookupLocalNonRoot(table, current, <<Head(path)>>)
<1>1. Len(path) \in Nat /\ path # <<>>
  BY LenProperties, EmptySeq
<1>2. Lookup(table, current, path) = 0
  <2>1. SubSeq(path, 1, Len(path)) = path /\ Len(path) \in 2..Len(path)
    BY <1>1, SubSeqFull
  <2> QED BY <2>1, PlainPrefix
<1>3. /\ k \in 1..(Len(path) - 1)
      /\ \/ prefix \in Modules
         \/ d # 0 /\ (table.defs[d].kind = "Namespace" \/ k > 1)
  <2>1. k # 0
    BY <1>2 DEF IsPrefixed
  <2> QED BY <2>1, StopIn
<1>4. k = 1
  <2> SUFFICES ASSUME k # 1 PROVE FALSE
    OBVIOUS
  <2>1. k \in 2..Len(path)
    <3> HIDE DEF k
    <3> QED BY <1>1, <1>3
  <2>2. d = 0 /\ prefix \notin Modules
    <3> HIDE DEF k
    <3> QED BY <2>1, PlainPrefix
  <2> QED BY <1>3, <2>2
<1>5. prefix = <<Head(path)>>
  BY <1>1, <1>4, PrefixOne
<1>6. prefix \notin typeParams \union Modules /\ local # 0
  BY <1>5 DEF Plain
<1>7. d # 0 /\ table.defs[d].kind = "Namespace"
  <2> HIDE DEF k, d, prefix
  <2> QED BY <1>3, <1>4, <1>6
<1>8. r = ResolveName(o, prefix, w)
  <2>1. r = IF prefix \in Modules THEN o
            ELSE IF table.defs[d].kind = "Namespace" THEN ResolveName(o, prefix, w)
            ELSE RecordResolution(o, prefix, d, w)
    BY <1>2 DEF ResolveCandidate
  <2> HIDE DEF r, d, prefix
  <2> QED BY <1>6, <1>7, <2>1
<1>9. Denotes(o, ResolveName(o, <<Head(path)>>, w), w, local)
  BY <1>5, <1>6, NameAnswered
<1> QED BY <1>5, <1>8, <1>9

LEMMA PathAnswered ==
  ASSUME Walking, LocalsAreLocal, NEW o,
         \A d \in DOMAIN o.aliases : o.aliases[d] \in Seq(Words),
         NEW path \in Seq(Words), Len(path) > 1
  PROVE  LET q == UseAlias(o, path)
             r == ResolvePath(o, path)
             local == LookupLocalNonRoot(table, current, <<Head(path)>>)
         IN /\ Answered(q, r, path)
            /\ Plain(path) /\ local \notin DOMAIN o.aliases
                 => Denotes(q, r, path, local)
<1> DEFINE q == UseAlias(o, path)
           r == ResolvePath(o, path)
           h == <<Head(path)>>
           local == LookupLocalNonRoot(table, current, h)
           p(k) == SubSeq(path, 1, k)
<1>1. Len(path) \in Nat /\ path # <<>>
  BY LenProperties, EmptySeq
<1>2. CASE r = ResolveName(q, SubSeq(path, 1, 1), path)
  <2>1. SubSeq(path, 1, 1) = h
    BY <1>1, PrefixOne
  <2>2. /\ Answered(q, ResolveName(q, h, path), path)
        /\ local # 0 /\ h \notin typeParams \union Modules
             => Denotes(q, ResolveName(q, h, path), path, local)
    <3> HIDE DEF q, h
    <3> QED BY NameAnswered DEF h
  <2> HIDE DEF q, r
  <2> QED BY <1>2, <2>1, <2>2 DEF Plain, q, r
<1>3. ASSUME NEW k \in 2..Len(path), AliasOf(o, p(k)) # 0, IsPrefixed(Expanded(o, p(k))),
             r = ResolveCandidate(q, Expanded(o, p(k)), path)
      PROVE  Answered(q, r, path) /\ local \in DOMAIN o.aliases
  <2>1. /\ p(k) \in Seq(Words) /\ p(k) # <<>> /\ Head(p(k)) = Head(path)
    <3>1. k \in 1..Len(path)
      BY <1>1
    <3> QED BY <3>1, PrefixOf
  <2> HIDE DEF p, q, r
  <2>2. AliasOf(o, p(k)) = local /\ local \in DOMAIN o.aliases
    BY <1>3, <2>1 DEF AliasOf
  <2>3. o.aliases[AliasOf(o, p(k))] \in Seq(Words) /\ Tail(p(k)) \in Seq(Words)
    BY <2>1, <2>2, HeadTailProperties
  <2>4. Expanded(o, p(k)) \in Seq(Words)
    BY <2>3, ConcatProperties DEF Expanded
  <2>5. Answered(q, r, path)
    BY <1>3, <2>4, CandidateAnswered
  <2> QED BY <2>2, <2>5
<1>4. ASSUME NEW k \in 2..Len(path), IsPrefixed(p(k)), r = ResolveCandidate(q, p(k), path)
      PROVE  Answered(q, r, path) /\ (Plain(path) => Denotes(q, r, path, local))
  <2>1. k \in 1..Len(path)
    BY <1>1
  <2>2. /\ p(k) \in Seq(Words) /\ Len(p(k)) = k /\ Head(p(k)) = Head(path)
        /\ \A j \in 1..k : SubSeq(p(k), 1, j) = SubSeq(path, 1, j)
    BY <2>1, PrefixOf
  <2> HIDE DEF p, q, r
  <2>3. Answered(q, r, path)
    BY <1>4, <2>2, CandidateAnswered
  <2>4. ASSUME Plain(path) PROVE Denotes(q, r, path, local)
    <3>1. Len(p(k)) > 1
      BY <1>1, <2>2
    <3>2. Plain(p(k))
      <4>1. \A j \in 2..k : SubSeq(p(k), 1, j) \notin DOMAIN table.scopes[Root].bind
        <5> TAKE j \in 2..k
        <5>1. j \in 1..k /\ j \in 2..Len(path)
          BY <1>1
        <5> QED BY <2>2, <2>4, <5>1 DEF Plain
      <4> QED BY <2>2, <2>4, <4>1 DEF Plain
    <3>3. Denotes(q, ResolveCandidate(q, p(k), path), path,
                  LookupLocalNonRoot(table, current, <<Head(p(k))>>))
      BY <1>4, <2>2, <3>1, <3>2, CandidatePlain
    <3> QED BY <1>4, <2>2, <3>3
  <2> QED BY <2>3, <2>4
<1>5. \/ r = ResolveName(q, SubSeq(path, 1, 1), path)
      \/ \E k \in 2..Len(path) :
           \/ /\ AliasOf(o, p(k)) # 0 /\ IsPrefixed(Expanded(o, p(k)))
              /\ r = ResolveCandidate(q, Expanded(o, p(k)), path)
           \/ IsPrefixed(p(k)) /\ r = ResolveCandidate(q, p(k), path)
  BY PathCases
<1> HIDE DEF q, r, h, local, p
<1> QED BY <1>2, <1>3, <1>4, <1>5 DEF q, r, local, h

-----------------------------------------------------------------------------
(* Lexical scoping: what is noted of the references.                       *)

\* A reference that only the nearest of its locals can be meant by.
Sure(w) ==
  LET L == LocalsOf(Mention(w))
  IN /\ L # {} /\ <<Head(w)>> \notin typeParams \union Modules
     /\ Len(w) > 1 => Max(L) \notin DOMAIN out.aliases
     /\ \A k \in 2..Len(w) :
          SubSeq(w, 1, k) \notin DOMAIN table.scopes[Root].bind

LEMMA SureNearest ==
  ASSUME IInv, Layered(table, current), NEW w
  PROVE  LET local == LookupLocalNonRoot(table, current, <<Head(w)>>)
         IN /\ ~Sure(w) => \A d : NamesNearest([Mention(w) EXCEPT !.to = d])
            /\ Sure(w) => /\ NamesNearest([Mention(w) EXCEPT !.to = local])
                          /\ Plain(w) /\ local \in 1..Len(table.defs)
                          /\ Len(w) > 1 => local \notin DOMAIN out.aliases
<1> DEFINE local == LookupLocalNonRoot(table, current, <<Head(w)>>)
           L == LocalsOf(Mention(w))
           m(d) == [Mention(w) EXCEPT !.to = d]
<1>1. /\ \A d : LocalsOf(m(d)) = L
      /\ local = 0 <=> L = {}
      /\ local # 0 => Max(L) = local
      /\ local \in 0..Len(table.defs)
  BY NearestLocal
<1>2. \A d : /\ m(d).name = w /\ m(d).to = d
             /\ m(d).generic <=> <<Head(w)>> \in typeParams
  BY DEF Mention
<1>3. ASSUME ~Sure(w), NEW d PROVE NamesNearest(m(d))
  <2> HIDE DEF m, L
  <2> QED BY <1>1, <1>2, <1>3 DEF NamesNearest, Sure, L
<1>4. ASSUME Sure(w) PROVE NamesNearest(m(local))
  <2>1. L # {}
    BY <1>4 DEF Sure
  <2> HIDE DEF m, L, local
  <2> QED BY <1>1, <1>2, <2>1 DEF NamesNearest
<1>5. ASSUME Sure(w)
      PROVE  /\ Plain(w) /\ local \in 1..Len(table.defs)
             /\ Len(w) > 1 => local \notin DOMAIN out.aliases
  <2>1. L # {} /\ (Len(w) > 1 => Max(L) \notin DOMAIN out.aliases)
    BY <1>5 DEF Sure
  <2> HIDE DEF L
  <2>2. local # 0 /\ Max(L) = local
    BY <1>1, <2>1
  <2>3. Plain(w)
    BY <1>5, <2>2 DEF Plain, Sure
  <2>4. Len(table.defs) \in Nat
    BY Lengths DEF IInv, Shapes
  <2>5. local \in 1..Len(table.defs)
    <3> HIDE DEF local
    <3> QED BY <1>1, <2>2, <2>4
  <2> QED BY <2>1, <2>2, <2>3, <2>5
<1> HIDE DEF m, local
<1> QED BY <1>3, <1>4, <1>5 DEF m, local

\* What the resolver has noted so far: its mentions name the nearest, and what
\* is used is what they use.
NotedIn(o) ==
  /\ o.used \subseteq 1..Len(table.defs)
  /\ \A m \in o.mentions : m.to \in 0..Len(table.defs) /\ NamesNearest(m)
  /\ \A d \in 1..Len(table.defs) :
       d \in o.used <=> \E m \in o.mentions : UsedBy(m, d)
  /\ \A g \in o.diagnostics : "def" \notin DOMAIN g
Beside(o) ==
  /\ DOMAIN o = OutFields
  /\ o.aliases = out.aliases /\ o.vars = out.vars /\ o.uses = out.uses

\* q is the output with the mention of w, or, where that is none of its own,
\* without.
Mentions(q, w) ==
  /\ Beside(q) /\ q.diagnostics = out.diagnostics
  /\ \/ /\ q.mentions = out.mentions /\ q.used = out.used
        /\ Mention(w).type
     \/ /\ q.mentions = out.mentions \union {Mention(w)}
        /\ ~Mention(w).type
        /\ \A d \in 1..Len(table.defs) :
             d \in q.used <=> d \in out.used \/ UsedBy(Mention(w), d)
        /\ q.used \subseteq 1..Len(table.defs)

\* The mention of w uses an import, or nothing until it is known what it means.
LEMMA UsedByMention ==
  ASSUME IInv, Layered(table, current), NEW w, NEW d \in 1..Len(table.defs), NEW e
  PROVE  /\ UsedBy(Mention(w), d) <=>
              ~Mention(w).type /\ d = AliasOf(out, w)
         /\ UsedBy([Mention(w) EXCEPT !.to = e], d) <=>
              e = d \/ UsedBy(Mention(w), d)
<1> DEFINE local == LookupLocalNonRoot(table, current, <<Head(w)>>)
           L == LocalsOf(Mention(w))
           m == [Mention(w) EXCEPT !.to = e]
           M == Mention(w)
<1>1. /\ LocalsOf(m) = L
      /\ local = 0 <=> L = {}
      /\ local # 0 => Max(L) = local
  BY NearestLocal
<1>2. /\ m.name = w /\ M.name = w /\ m.to = e /\ M.to = 0 /\ m.type = M.type
  BY DEF Mention
<1>3. d # 0
  BY Lengths DEF IInv, Shapes
<1>4. UsedBy(M, d) <=> d \in DOMAIN out.aliases /\ ~M.type /\ Len(w) > 1
                        /\ L # {} /\ Max(L) = d
  <2> HIDE DEF M
  <2> QED BY <1>2, <1>3 DEF UsedBy, M
<1>5. UsedBy(m, d) <=> e = d \/ (d \in DOMAIN out.aliases /\ ~M.type /\ Len(w) > 1
                        /\ L # {} /\ Max(L) = d)
  <2> HIDE DEF M, m, L
  <2> QED BY <1>1, <1>2 DEF UsedBy
<1>6. d = AliasOf(out, w) <=> d \in DOMAIN out.aliases /\ Len(w) > 1 /\ d = local
  <2> HIDE DEF local
  <2> QED BY <1>3 DEF AliasOf, local
<1>7. L # {} /\ Max(L) = d <=> d = local
  <2> HIDE DEF local, L
  <2> QED BY <1>1, <1>3
<1> HIDE DEF L, local, m, M
<1> QED BY <1>4, <1>5, <1>6, <1>7 DEF m, M

LEMMA MentionsNoted ==
  ASSUME IInv, Layered(table, current), NotedIn(out), NEW w, NEW q, Mentions(q, w)
  PROVE  /\ q.used \subseteq 1..Len(table.defs)
         /\ \A d \in 1..Len(table.defs) :
              d \in q.used <=> \E m \in q.mentions : UsedBy(m, d)
         /\ Mention(w) \in q.mentions \/ Mention(w).type
<1>1. CASE q.mentions = out.mentions /\ q.used = out.used /\ Mention(w).type
  BY <1>1 DEF NotedIn
<1>2. CASE /\ q.mentions = out.mentions \union {Mention(w)}
           /\ \A d \in 1..Len(table.defs) :
                d \in q.used <=> d \in out.used \/ UsedBy(Mention(w), d)
           /\ q.used \subseteq 1..Len(table.defs)
  BY <1>2 DEF NotedIn
<1> QED BY <1>1, <1>2 DEF Mentions

\* A reference leaves everything noted.
LEMMA AnswerNoted ==
  ASSUME IInv, Layered(table, current), NotedIn(out), NEW w, NEW q, Mentions(q, w),
         NEW r, Answered(q, r, w),
         LET local == LookupLocalNonRoot(table, current, <<Head(w)>>)
         IN Sure(w) => \/ Denotes(q, r, w, local)
                       \/ Silent(q, r) /\ q.mentions = out.mentions
  PROVE  NotedIn(r) /\ Beside(r)
<1> DEFINE local == LookupLocalNonRoot(table, current, <<Head(w)>>)
           M == Mention(w)
           to(d) == [M EXCEPT !.to = d]
<1>1. /\ q.used \subseteq 1..Len(table.defs)
      /\ \A d \in 1..Len(table.defs) :
           d \in q.used <=> \E m \in q.mentions : UsedBy(m, d)
      /\ M \in q.mentions \/ M.type
  BY MentionsNoted
<1>2. DOMAIN q = OutFields /\ Beside(q) /\ q.diagnostics = out.diagnostics
  BY DEF Mentions, Beside
<1>3. /\ M.to = 0 /\ M = to(0) /\ \A d : to(d).to = d
  BY DEF Mention
<1>4. Len(table.defs) \in Nat
  BY Lengths DEF IInv, Shapes
<1>5. q.mentions \subseteq out.mentions \union {M}
  BY DEF Mentions
<1>6. \A m \in out.mentions : m.to \in 0..Len(table.defs) /\ NamesNearest(m)
  BY DEF NotedIn
<1>7. \A g \in q.diagnostics : "def" \notin DOMAIN g
  BY <1>2 DEF NotedIn
<1>8. /\ ~Sure(w) => \A d : NamesNearest(to(d))
      /\ Sure(w) => NamesNearest(to(local)) /\ local \in 1..Len(table.defs)
  BY SureNearest
<1>9. ASSUME Silent(q, r), ~Sure(w) \/ q.mentions = out.mentions
      PROVE  NotedIn(r) /\ Beside(r)
  <2>1. /\ DOMAIN r = OutFields /\ r.mentions = q.mentions /\ r.used = q.used
        /\ Beside(r)
    BY <1>2, <1>9 DEF Silent, Emit, OutFields, Beside
  <2>2. \A g \in r.diagnostics : "def" \notin DOMAIN g
    <3>1. CASE r = q
      BY <1>7, <3>1
    <3>2. CASE \E code, name : r = Emit(q, code, name)
      <4>1. PICK code, name : r = Emit(q, code, name)
        BY <3>2
      <4>2. r.diagnostics = q.diagnostics \union {Diagnostic(code, name)}
        BY <1>2, <4>1 DEF Emit, OutFields
      <4>3. "def" \notin DOMAIN Diagnostic(code, name)
        BY DEF Diagnostic
      <4> QED BY <1>7, <4>2, <4>3
    <3> QED BY <1>9, <3>1, <3>2 DEF Silent
  <2>3. \A m \in r.mentions : m.to \in 0..Len(table.defs) /\ NamesNearest(m)
    <3>1. CASE q.mentions = out.mentions
      BY <1>6, <2>1, <3>1
    <3>2. CASE ~Sure(w)
      <4>1. NamesNearest(M) /\ M.to \in 0..Len(table.defs)
        <5> HIDE DEF M, to
        <5> QED BY <1>3, <1>4, <1>8, <3>2
      <4> HIDE DEF M
      <4> QED BY <1>5, <1>6, <2>1, <4>1
    <3> QED BY <1>9, <3>1, <3>2
  <2> QED BY <1>1, <2>1, <2>2, <2>3 DEF NotedIn
<1>10. ASSUME NEW d \in 1..Len(table.defs), Denotes(q, r, w, d),
              NamesNearest(to(d))
       PROVE  NotedIn(r) /\ Beside(r)
  <2>1. /\ DOMAIN r = OutFields /\ Beside(r) /\ r.diagnostics = q.diagnostics
        /\ r.mentions = (q.mentions \ {M}) \union {to(d)}
        /\ r.used = q.used \union {d}
    BY <1>2, <1>10 DEF Denotes, OutFields, Beside
  <2>2. to(d).to = d
    BY <1>3
  <2>3. \A e \in 1..Len(table.defs) :
          UsedBy(to(d), e) <=> d = e \/ UsedBy(M, e)
    BY UsedByMention
  <2>4. \A e \in 1..Len(table.defs) : UsedBy(M, e) => M \in q.mentions
    BY <1>1, UsedByMention
  <2> HIDE DEF to, M
  <2>5. \A m \in r.mentions : m.to \in 0..Len(table.defs) /\ NamesNearest(m)
    <3> TAKE m \in r.mentions
    <3>1. CASE m = to(d)
      BY <1>4, <1>10, <2>2, <3>1
    <3>2. CASE m # to(d)
      BY <1>5, <1>6, <2>1, <3>2
    <3> QED BY <3>1, <3>2
  <2>6. ASSUME NEW e \in 1..Len(table.defs)
        PROVE  e \in r.used <=> \E m \in r.mentions : UsedBy(m, e)
    <3>1. ASSUME e \in r.used PROVE \E m \in r.mentions : UsedBy(m, e)
      <4>1. CASE e = d
        BY <2>1, <2>3, <4>1
      <4>2. CASE e \in q.used
        <5>1. PICK m \in q.mentions : UsedBy(m, e)
          BY <1>1, <4>2
        <5>2. CASE m = M
          BY <2>1, <2>3, <5>1, <5>2
        <5>3. CASE m # M
          BY <2>1, <5>1, <5>3
        <5> QED BY <5>2, <5>3
      <4> QED BY <2>1, <3>1, <4>1, <4>2
    <3>2. ASSUME NEW m \in r.mentions, UsedBy(m, e) PROVE e \in r.used
      <4>1. CASE m \in q.mentions
        BY <1>1, <2>1, <3>2, <4>1
      <4>2. CASE m = to(d)
        <5>1. d = e \/ UsedBy(M, e)
          BY <2>3, <3>2, <4>2
        <5> QED BY <1>1, <2>1, <2>4, <5>1
      <4> QED BY <2>1, <3>2, <4>1, <4>2
    <3> QED BY <3>1, <3>2
  <2>7. r.used \subseteq 1..Len(table.defs)
    BY <1>1, <2>1
  <2> QED BY <1>7, <2>1, <2>5, <2>6, <2>7 DEF NotedIn
<1> HIDE DEF to, local
<1>11. CASE Sure(w)
  BY <1>8, <1>9, <1>10, <1>11 DEF local
<1>12. CASE ~Sure(w)
  BY <1>8, <1>9, <1>10, <1>12 DEF Answered
<1> QED BY <1>11, <1>12

Noting ==
  /\ Walking /\ Layered(table, current) /\ LocalsAreLocal /\ NotedIn(out)
  /\ DOMAIN out.aliases \subseteq 1..Len(table.defs)

LEMMA NotingOut ==
  ASSUME Noting
  PROVE  /\ IInv /\ DOMAIN out = OutFields /\ Beside(out)
         /\ \A d \in DOMAIN out.aliases : out.aliases[d] \in Seq(Words)
         /\ Len(table.defs) \in Nat
<1>1. IInv /\ DOMAIN out = OutFields
  BY DEF Noting, Walking, IInv, Shapes
<1> QED BY <1>1, Lengths DEF Noting, Walking, IInv, Shapes, Beside

\* The output with the mention of an expression's name.
LEMMA MentionedWith ==
  ASSUME Noting, NEW w, ~Mention(w).type
  PROVE  /\ Mentions(UseAlias(Mentioned(out, w), w), w)
         /\ ~(Len(w) > 1) => Mentions(Mentioned(out, w), w)
         /\ Mentioned(out, w).aliases = out.aliases
         /\ UseAlias(Mentioned(out, w), w).aliases = out.aliases
<1> DEFINE o == Mentioned(out, w)
           q == UseAlias(o, w)
           a == AliasOf(out, w)
<1>1. /\ DOMAIN out = OutFields /\ Beside(out) /\ Len(table.defs) \in Nat /\ IInv
      /\ out.used \subseteq 1..Len(table.defs)
  BY NotingOut DEF Noting, NotedIn
<1>2. /\ Beside(o) /\ o.diagnostics = out.diagnostics /\ o.used = out.used
      /\ o.mentions = out.mentions \union {Mention(w)}
  BY <1>1 DEF Mentioned, OutFields, Beside
<1>3. AliasOf(o, w) = a
  BY <1>2 DEF AliasOf, Beside
<1>4. /\ Beside(q) /\ q.diagnostics = out.diagnostics
      /\ q.mentions = out.mentions \union {Mention(w)}
      /\ q.used = (out.used \union {a}) \ {0}
  <2> HIDE DEF o
  <2> QED BY <1>2, <1>3 DEF UseAlias, OutFields, Beside
<1>5. a \in 0..Len(table.defs)
  BY <1>1 DEF AliasOf, Noting
<1>6. \A d \in 1..Len(table.defs) : UsedBy(Mention(w), d) <=> d = a
  BY <1>1, UsedByMention DEF Noting
<1>7. Mentions(q, w)
  <2>1. \A d \in 1..Len(table.defs) :
          d \in q.used <=> d \in out.used \/ UsedBy(Mention(w), d)
    <3> HIDE DEF q, a
    <3> QED BY <1>1, <1>4, <1>6
  <2>2. q.used \subseteq 1..Len(table.defs)
    <3> HIDE DEF q, a
    <3> QED BY <1>1, <1>4, <1>5
  <2> HIDE DEF q
  <2> QED BY <1>4, <2>1, <2>2 DEF Mentions
<1>8. ASSUME ~(Len(w) > 1) PROVE Mentions(o, w)
  <2>1. a = 0
    BY <1>8 DEF AliasOf
  <2>2. \A d \in 1..Len(table.defs) :
          d \in o.used <=> d \in out.used \/ UsedBy(Mention(w), d)
    <3> HIDE DEF o, a
    <3> QED BY <1>1, <1>2, <1>6, <2>1
  <2> HIDE DEF o
  <2> QED BY <1>1, <1>2, <2>2 DEF Mentions
<1> QED BY <1>2, <1>4, <1>7, <1>8 DEF Beside

LEMMA ExpressionMention ==
  ASSUME Step # "types", NEW w
  PROVE  ~Mention(w).type
BY DEF Mention

\* A name of one segment, with or without its own mention.
LEMMA NameNoted ==
  ASSUME Noting, NEW w \in Seq(Words), Len(w) = 1, NEW q, Mentions(q, w)
  PROVE  NotedIn(ResolveName(q, w, w)) /\ Beside(ResolveName(q, w, w))
<1> DEFINE r == ResolveName(q, w, w)
           local == LookupLocalNonRoot(table, current, <<Head(w)>>)
<1>1. <<Head(w)>> = w /\ IInv
  BY OneSegmentName, NotingOut
<1>2. /\ Answered(q, r, w)
      /\ local # 0 /\ w \notin typeParams \union Modules => Denotes(q, r, w, local)
  BY <1>1, NameAnswered DEF Noting
<1>3. Sure(w) => Plain(w)
  BY <1>1, SureNearest DEF Noting
<1>4. Sure(w) => Denotes(q, r, w, local)
  <2> HIDE DEF r
  <2> QED BY <1>1, <1>2, <1>3 DEF Plain
<1> HIDE DEF r, local
<1>5. NotedIn(r) /\ Beside(r)
  BY <1>1, <1>2, <1>4, AnswerNoted DEF Noting, local
<1> QED BY <1>5 DEF r

LEMMA PathNoted ==
  ASSUME Noting, Step # "types", NEW path \in Paths
  PROVE  LET r == ResolvePath(Mentioned(out, path), path)
         IN NotedIn(r) /\ Beside(r)
<1> DEFINE o == Mentioned(out, path)
           q == UseAlias(o, path)
           r == ResolvePath(o, path)
           local == LookupLocalNonRoot(table, current, <<Head(path)>>)
<1>1. path \in Seq(Words) /\ Len(path) \in Nat \ {0}
  BY NamesType DEF Noting, Walking, IInv, Shapes
<1>2. Mentions(q, path) /\ o.aliases = out.aliases
  BY ExpressionMention, MentionedWith
<1>3. IInv /\ Walking /\ \A d \in DOMAIN o.aliases : o.aliases[d] \in Seq(Words)
  <2> HIDE DEF o
  <2> QED BY <1>2, NotingOut DEF Noting
<1>4. CASE Len(path) > 1
  <2>1. /\ Answered(q, r, path)
        /\ Plain(path) /\ local \notin DOMAIN o.aliases => Denotes(q, r, path, local)
    <3> HIDE DEF o
    <3> QED BY <1>1, <1>3, <1>4, PathAnswered DEF Noting
  <2>2. Sure(path) => Plain(path) /\ local \notin DOMAIN out.aliases
    BY <1>3, <1>4, SureNearest DEF Noting
  <2> HIDE DEF r, q, o, local
  <2>3. Sure(path) => Denotes(q, r, path, local)
    BY <1>2, <2>1, <2>2
  <2>4. NotedIn(r) /\ Beside(r)
    BY <1>2, <1>3, <2>1, <2>3, AnswerNoted DEF Noting, local
  <2> QED BY <2>4 DEF r, o
<1>5. CASE Len(path) = 1
  <2>1. r = ResolveName(q, path, path)
    BY <1>1, <1>5, PathOfOne
  <2> HIDE DEF q
  <2>2. NotedIn(ResolveName(q, path, path)) /\ Beside(ResolveName(q, path, path))
    BY <1>1, <1>2, <1>5, NameNoted
  <2> QED BY <2>1, <2>2
<1>6. Len(path) > 1 \/ Len(path) = 1
  BY <1>1, OneOrMore, Zenon
<1> QED BY <1>4, <1>5, <1>6

LEMMA OneLess ==
  ASSUME NEW n \in Nat \ {0}, n > 1
  PROVE  n - 1 = 1 \/ n - 1 \in 2..n
OBVIOUS

LEMMA TypeNoted ==
  ASSUME Noting, Step = "types", NEW name \in program.types
  PROVE  LET r == ResolveType(out, name)
         IN NotedIn(r) /\ Beside(r)
<1> DEFINE r == ResolveType(out, name)
           h == <<Head(name)>>
           local == LookupLocalNonRoot(table, current, h)
<1>1. name \in Seq(Words) /\ Len(name) \in Nat \ {0} /\ name # <<>>
  BY NamesType, EmptySeq DEF Noting, Walking, IInv, Shapes
<1>2. /\ IInv /\ Walking /\ LocalsAreLocal /\ NotedIn(out) /\ Beside(out)
      /\ Layered(table, current)
  BY NotingOut DEF Noting
<1>3. Mentions(out, name)
  BY <1>2 DEF Mentions, Mention
<1>4. CASE r = out
  <2> HIDE DEF r
  <2> QED BY <1>2, <1>4 DEF r
<1>5. CASE Len(name) > 1 /\ r # out
  <2>1. \/ r = ResolveName(out, name, name) /\ Lookup(table, current, name) # 0
        \/ r = ResolveName(out, Front(name), name)
    BY <1>5 DEF ResolveType, ResolveTypeName
  <2>2. Answered(out, r, name)
    <3> HIDE DEF r
    <3> QED BY <1>2, <2>1, NameAnswered
  <2>3. ASSUME Sure(name) PROVE Denotes(out, r, name, local) \/ Silent(out, r)
    <3>1. Plain(name)
      BY <1>2, <2>3, SureNearest
    <3>2. Lookup(table, current, name) = 0
      <4>1. SubSeq(name, 1, Len(name)) = name /\ Len(name) \in 2..Len(name)
        BY <1>1, <1>5, SubSeqFull
      <4> QED BY <1>2, <1>1, <3>1, <4>1, PlainPrefix
    <3>3. r = ResolveName(out, Front(name), name)
      BY <2>1, <3>2
    <3>4. Front(name) = SubSeq(name, 1, Len(name) - 1)
      BY DEF Front
    <3>5. CASE Len(name) - 1 = 1
      <4>1. Front(name) = h
        BY <1>1, <3>4, <3>5, PrefixOne
      <4>2. local # 0 /\ h \notin typeParams \union Modules
        BY <3>1 DEF Plain
      <4> HIDE DEF r, h
      <4>3. Denotes(out, ResolveName(out, h, name), name, local)
        BY <1>2, <4>2, NameAnswered
      <4> QED BY <3>3, <4>1, <4>3
    <3>6. CASE Len(name) - 1 \in 2..Len(name)
      <4> DEFINE k == Len(name) - 1
      <4>1. Lookup(table, current, SubSeq(name, 1, k)) = 0
        BY <1>1, <1>2, <3>1, <3>6, PlainPrefix
      <4>2. Len(SubSeq(name, 1, k)) > 1
        <5>1. k \in 1..Len(name) /\ k > 1
          BY <1>1, <3>6
        <5> HIDE DEF k
        <5> QED BY <1>1, <5>1, PrefixOf
      <4> HIDE DEF r
      <4> QED BY <1>2, <3>3, <3>4, <4>1, <4>2, NameAnswered
    <3>7. Len(name) - 1 = 1 \/ Len(name) - 1 \in 2..Len(name)
      BY <1>1, <1>5, OneLess, Zenon
    <3> HIDE DEF r, local
    <3> QED BY <3>5, <3>6, <3>7
  <2> HIDE DEF r, local
  <2>4. NotedIn(r) /\ Beside(r)
    BY <1>2, <1>3, <2>2, <2>3, AnswerNoted DEF local, h
  <2> QED BY <2>4 DEF r
<1>6. CASE Len(name) = 1 /\ r # out
  <2>1. r = ResolveName(out, name, name)
    BY <1>6 DEF ResolveType, ResolveTypeName
  <2>2. NotedIn(ResolveName(out, name, name)) /\ Beside(ResolveName(out, name, name))
    BY <1>1, <1>3, <1>6, NameNoted
  <2> QED BY <2>1, <2>2
<1>7. Len(name) > 1 \/ Len(name) = 1
  BY <1>1, OneOrMore, Zenon
<1> QED BY <1>4, <1>5, <1>6, <1>7

-----------------------------------------------------------------------------
(* Lexical scoping: the invariant, and the steps that keep it.             *)

\* Variables and imports are definitions; the aliases are of imports.
Tracked ==
  /\ out.vars \union out.uses \subseteq 1..Len(table.defs)
  /\ DOMAIN out.aliases \subseteq out.uses

\* After the warnings, what was noted is as before them and they are exact.
Ended ==
  /\ out.used \subseteq 1..Len(table.defs)
  /\ \A m \in out.mentions : m.to \in 0..Len(table.defs) /\ NamesNearest(m)
  /\ UnusedExact

LInv ==
  /\ pass \in {"declare", "reference", "unused", "done"}
  /\ pass = "declare" => Len(table.scopes) = 1
  /\ fuel \in 0..program.fuel
  /\ Nested /\ Layered(table, current) /\ LocalsAreLocal
  /\ Tracked
  /\ IF pass = "done" THEN Ended ELSE NotedIn(out)

LEMMA MentionKept ==
  ASSUME IInv, Extends(table, table'), DOMAIN out.aliases \subseteq DOMAIN out'.aliases,
         \A e \in DOMAIN out'.aliases :
           e \in DOMAIN out.aliases \/ e \notin 1..Len(table.defs),
         NEW m \in out.mentions, m.to \in 0..Len(table.defs), NamesNearest(m)
  PROVE  /\ NamesNearest(m)'
         /\ \A d \in 1..Len(table.defs) : UsedBy(m, d)' <=> UsedBy(m, d)
         /\ \A d : UsedBy(m, d)' /\ d # 0 => d \in 1..Len(table.defs)
<1>1. /\ m.scope \in 1..Len(table.scopes) /\ m.after \in 0..Len(table.defs)
      /\ Len(table.defs) \in Nat
  BY Lengths DEF IInv, Fine, Shapes
<1>2. LocalsOf(m)' = LocalsOf(m)
  BY <1>1, LocalsSettled
<1>3. DOMAIN table.scopes[Root].bind \subseteq DOMAIN table'.scopes[Root].bind
  BY Lengths DEF Extends, IInv, Shapes
<1>4. NamesNearest(m)'
  <2>1. /\ LocalsOf(m) # {} /\ <<Head(m.name)>> \notin Modules /\ ~m.generic =>
            \/ m.to = Max(LocalsOf(m))
            \/ Len(m.name) > 1 /\ Max(LocalsOf(m)) \in DOMAIN out'.aliases
            \/ \E k \in 2..Len(m.name) :
                 SubSeq(m.name, 1, k) \in DOMAIN table'.scopes[Root].bind
    BY <1>3 DEF NamesNearest
  <2> QED BY <1>2, <2>1 DEF NamesNearest
<1>5. LocalsOf(m) # {} => Max(LocalsOf(m)) \in 1..Len(table.defs)
  <2>1. LocalsOf(m) \in SUBSET (0..Len(table.defs)) /\ LocalsOf(m) \subseteq 1..Len(table.defs)
    BY <1>1 DEF LocalsOf
  <2> QED BY <1>1, <2>1, LargestOf
<1>6. ASSUME NEW d \in 1..Len(table.defs) PROVE UsedBy(m, d)' <=> UsedBy(m, d)
  <2>1. d \in DOMAIN out'.aliases <=> d \in DOMAIN out.aliases
    OBVIOUS
  <2>2. UsedBy(m, d)' <=>
          \/ m.to = d
          \/ /\ d \in DOMAIN out'.aliases /\ ~m.type /\ Len(m.name) > 1
             /\ LocalsOf(m)' # {} /\ Max(LocalsOf(m)') = d
    BY DEF UsedBy
  <2> QED BY <1>2, <2>1, <2>2 DEF UsedBy
<1>7. ASSUME NEW d, UsedBy(m, d)', d # 0 PROVE d \in 1..Len(table.defs)
  <2>1. \/ m.to = d
        \/ LocalsOf(m)' # {} /\ Max(LocalsOf(m)') = d
    BY <1>7 DEF UsedBy
  <2> QED BY <1>1, <1>2, <1>5, <1>7, <2>1
<1> QED BY <1>4, <1>6, <1>7

\* What was noted stays so when definitions are made.
LEMMA NotedKept ==
  ASSUME IInv, NotedIn(out), Extends(table, table'),
         out'.mentions = out.mentions, out'.used = out.used,
         DOMAIN out.aliases \subseteq DOMAIN out'.aliases,
         \A e \in DOMAIN out'.aliases :
           e \in DOMAIN out.aliases \/ e \notin 1..Len(table.defs),
         \A g \in out'.diagnostics : "def" \notin DOMAIN g
  PROVE  NotedIn(out)'
<1>1. Len(table.defs) \in Nat /\ Len(table'.defs) \in Nat /\ Len(table.defs) <= Len(table'.defs)
  BY Lengths DEF Extends
<1>2. \A m \in out.mentions :
        /\ NamesNearest(m)'
        /\ \A d \in 1..Len(table.defs) : UsedBy(m, d)' <=> UsedBy(m, d)
        /\ \A d : UsedBy(m, d)' /\ d # 0 => d \in 1..Len(table.defs)
  BY MentionKept DEF NotedIn
<1>3. out.used \subseteq 1..Len(table'.defs)
  BY <1>1 DEF NotedIn
<1>4. \A m \in out.mentions : m.to \in 0..Len(table'.defs)
  BY <1>1 DEF NotedIn
<1>5. ASSUME NEW d \in 1..Len(table'.defs)
      PROVE  d \in out.used <=> \E m \in out.mentions : UsedBy(m, d)'
  <2>1. CASE d \in 1..Len(table.defs)
    BY <1>2, <2>1 DEF NotedIn
  <2>2. CASE d \notin 1..Len(table.defs)
    <3>1. d \notin out.used
      BY <2>2 DEF NotedIn
    <3>2. d # 0
      BY <1>1
    <3> QED BY <1>2, <2>2, <3>1, <3>2
  <2> QED BY <2>1, <2>2
<1>6. NotedIn(out)' <=>
        /\ out'.used \subseteq 1..Len(table'.defs)
        /\ \A m \in out'.mentions : m.to \in 0..Len(table'.defs) /\ NamesNearest(m)'
        /\ \A d \in 1..Len(table'.defs) :
             d \in out'.used <=> \E m \in out'.mentions : UsedBy(m, d)'
        /\ \A g \in out'.diagnostics : "def" \notin DOMAIN g
  BY DEF NotedIn
<1> QED BY <1>2, <1>3, <1>4, <1>5, <1>6

LEMMA NotedSame ==
  ASSUME UNCHANGED table, NotedIn(out'), Beside(out')
  PROVE  NotedIn(out)'
<1>1. \A m : LocalsOf(m)' = LocalsOf(m)
  BY DEF LocalsOf, Chain
<1>2. out'.aliases = out.aliases
  BY DEF Beside
<1>3. \A m : NamesNearest(m)' <=> NamesNearest(m)
  BY <1>1, <1>2 DEF NamesNearest
<1>4. \A m, d : UsedBy(m, d)' <=> UsedBy(m, d)
  BY <1>1, <1>2 DEF UsedBy
<1>5. NotedIn(out)' <=>
        /\ out'.used \subseteq 1..Len(table'.defs)
        /\ \A m \in out'.mentions : m.to \in 0..Len(table'.defs) /\ NamesNearest(m)'
        /\ \A d \in 1..Len(table'.defs) :
             d \in out'.used <=> \E m \in out'.mentions : UsedBy(m, d)'
        /\ \A g \in out'.diagnostics : "def" \notin DOMAIN g
  BY DEF NotedIn
<1> QED BY <1>3, <1>4, <1>5 DEF NotedIn

LEMMA WalkOn ==
  ASSUME LInv, pass = "reference", UNCHANGED <<program, pass>>,
         Nested', Layered(table', current'), LocalsAreLocal',
         fuel' \in 0..program.fuel, Tracked', NotedIn(out)'
  PROVE  LInv'
BY DEF LInv

LEMMA Fueled ==
  ASSUME IInv, LInv, Spend \/ UNCHANGED fuel
  PROVE  fuel' \in 0..program.fuel
<1>1. program.fuel \in Nat /\ fuel \in 0..program.fuel
  BY ProgramsHoldNames DEF IInv, Shapes, LInv
<1> QED BY <1>1 DEF Spend

\* A step of the walk that notes nothing.
LEMMA NothingNoted ==
  ASSUME IInv, LInv, pass = "reference", UNCHANGED <<program, pass, top, out>>,
         Extends(table, table'), Nested', Layered(table', current'), LocalsAreLocal',
         fuel' \in 0..program.fuel
  PROVE  LInv'
<1>1. Len(table.defs) \in Nat /\ Len(table'.defs) \in Nat /\ Len(table.defs) <= Len(table'.defs)
  BY Lengths DEF Extends
<1>2. Tracked'
  BY <1>1 DEF LInv, Tracked
<1>3. NotedIn(out) /\ \A g \in out'.diagnostics : "def" \notin DOMAIN g
  BY DEF LInv, NotedIn
<1>4. NotedIn(out)'
  BY <1>3, NotedKept
<1> QED BY <1>2, <1>4, WalkOn

\* A step of the walk that leaves the table alone too.
LEMMA TableUntouched ==
  ASSUME IInv, LInv, pass = "reference", UNCHANGED <<program, pass, top, out, table>>,
         Nested', Layered(table, current'), Spend \/ UNCHANGED fuel
  PROVE  LInv'
<1>1. Extends(table, table')
  BY ExtendsSame DEF IInv, Shapes
<1>2. LocalsAreLocal'
  BY DEF LInv, LocalsAreLocal, Local, IsTopLevel
<1>3. fuel' \in 0..program.fuel
  BY Fueled
<1> QED BY <1>1, <1>2, <1>3, NothingNoted

LEMMA PushScopeLexical ==
  ASSUME IInv, LInv, PushScope
  PROVE  LInv'
<1>1. /\ pass = "reference" /\ UNCHANGED <<program, pass, top, out, fuel>>
      /\ table' = NewScope(table, current) /\ current' = Len(table.scopes) + 1
  BY DEF PushScope, AtStep, walk
<1>2. /\ Linked(table) /\ current \in 1..Len(table.scopes) /\ Len(table.scopes) \in Nat
  BY Lengths DEF IInv, Shapes
<1>3. Nested' /\ Layered(table', current') /\ Extends(table, table')
  BY <1>1, <1>2, NestedPushScope, LayeredPush, ExtendsOpened DEF LInv
<1>4. LocalsAreLocal'
  <2>1. /\ Len(table'.scopes) = Len(table.scopes) + 1
        /\ DOMAIN table'.scopes[Len(table.scopes) + 1].bind = {}
        /\ \A i \in 1..Len(table.scopes) : table'.scopes[i] = table.scopes[i]
    BY <1>1, <1>2, Opened
  <2>2. \A s \in 2..Len(table'.scopes) : \A n \in DOMAIN table'.scopes[s].bind :
           s <= Len(table.scopes) /\ n \in DOMAIN table.scopes[s].bind
    <3> TAKE s \in 2..Len(table'.scopes)
    <3>1. CASE s = Len(table.scopes) + 1
      BY <2>1, <3>1
    <3>2. CASE s # Len(table.scopes) + 1
      <4>1. s \in 1..Len(table.scopes) /\ s <= Len(table.scopes)
        BY <1>2, <2>1, <3>2
      <4> QED BY <2>1, <4>1
    <3> QED BY <3>1, <3>2
  <2> QED BY <1>1, <1>3, <2>2, LocalsKept DEF LInv
<1>5. fuel' \in 0..program.fuel
  BY <1>1, Fueled
<1> QED BY <1>1, <1>3, <1>4, <1>5, NothingNoted

LEMMA PopScopeLexical ==
  ASSUME IInv, LInv, PopScope
  PROVE  LInv'
<1>1. /\ pass = "reference" /\ UNCHANGED <<program, pass, top, out, table, fuel>>
  BY DEF PopScope, AtStep, walk
<1>2. /\ Nested' /\ current' = table.scopes[current].parent /\ current # Root
  BY NestedPopScope DEF LInv
<1>3. Linked(table) /\ current \in 2..Len(table.scopes)
  <2>1. Linked(table) /\ current \in 1..Len(table.scopes) /\ Len(table.scopes) \in Nat
    BY Lengths DEF IInv, Shapes
  <2> QED BY <1>2, <2>1 DEF Root
<1>4. Layered(table, current')
  BY <1>2, <1>3, LayeredPop DEF LInv
<1> QED BY <1>1, <1>2, <1>4, TableUntouched

LEMMA TypeParamsLexical ==
  ASSUME IInv, LInv, AddTypeParams \/ RemoveTypeParams
  PROVE  LInv'
<1>1. /\ pass = "reference" /\ UNCHANGED <<program, pass, top, out, table, fuel, current>>
  BY DEF AddTypeParams, RemoveTypeParams, AtStep, walk
<1>2. Nested'
  BY NestedAddTypeParams, NestedRemoveTypeParams DEF LInv
<1> QED BY <1>1, <1>2, TableUntouched DEF LInv

LEMMA BeginItemLexical ==
  ASSUME IInv, LInv, BeginItem
  PROVE  LInv'
<1>1. /\ pass = "reference" /\ UNCHANGED <<program, pass, top, out, table, fuel, current>>
      /\ index <= Len(Items)
  BY DEF BeginItem
<1>2. Item.kind \in DOMAIN Script
  <2>1. program \in Programs /\ index \in 1..(Len(Items) + 1)
    BY DEF IInv, Shapes, Walk
  <2>2. Len(Items) \in Nat
    BY <2>1, ItemsType
  <2>3. index \in 1..Len(Items)
    BY <1>1, <2>1, <2>2
  <2>4. Item.kind \in ItemKinds
    BY <2>1, <2>3, ItemsType DEF Item
  <2>5. ItemKinds \subseteq ItemForms
    BY DEF ItemKinds, OneSegment, Named, ItemForms
  <2> QED BY <2>4, <2>5, ScriptOf
<1>3. Nested'
  BY <1>2, NestedBeginItem DEF LInv
<1> QED BY <1>1, <1>3, TableUntouched DEF LInv

LEMMA ReturnLexical ==
  ASSUME IInv, LInv, Return
  PROVE  LInv'
<1>1. /\ pass = "reference" /\ UNCHANGED <<program, pass, top, out, table, fuel, current>>
  BY DEF Return
<1>2. Nested'
  BY NestedReturn DEF LInv
<1> QED BY <1>1, <1>2, TableUntouched DEF LInv

LEMMA FormsQuiet ==
  /\ \A form \in DOMAIN Script : Quiet(form)
  /\ \A step \in {"stmts", "body", "exprs", "types", "error", "else", "params",
                  "variables", "Block", "name", "callee", "argument"} : Quiet(step)
  /\ \A step \in DOMAIN KindOf : Quiet(step)
<1>1. \A form \in DOMAIN Script : Quiet(form)
  BY ScriptOf DEF ItemForms, StatementForms, ExpressionForms, Quiet
<1>2. \A step \in DOMAIN KindOf : Quiet(step)
  BY DEF KindOf, Quiet
<1> QED BY <1>1, <1>2 DEF Quiet

LEMMA EndOfStepLexical ==
  ASSUME IInv, LInv, EndOfStep
  PROVE  LInv'
<1> DEFINE S == {"stmts", "body", "exprs", "types", "error", "else", "params",
                 "variables"} \union (DOMAIN Script \ {"Block"})
<1>1. /\ pass = "reference" /\ AtStep(S) /\ Advance
      /\ UNCHANGED <<program, pass, top, out, table, fuel, current, typeParams>>
  BY DEF EndOfStep, AtStep, walk
<1>2. \A s \in S : Quiet(s)
  BY FormsQuiet
<1>3. Extends(table, table')
  BY <1>1, ExtendsSame DEF IInv, Shapes
<1> HIDE DEF S
<1>4. Nested'
  BY <1>1, <1>2, <1>3, NestedAdvance DEF LInv
<1> QED BY <1>1, <1>4, TableUntouched DEF LInv

LEMMA EnterBlockLexical ==
  ASSUME IInv, LInv, EnterBlock
  PROVE  LInv'
<1> DEFINE f == [Top EXCEPT !.at = @ + 1]
<1>1. /\ pass = "reference" /\ AtStep({"Block"}) /\ Step = "Block"
      /\ UNCHANGED <<program, pass, top, out, table, fuel, current, typeParams>>
  BY DEF EnterBlock, AtStep, walk
<1>2. /\ frames' = Append(Append(Front(frames), f), Frame("Block"))
      /\ "Block" \in DOMAIN Script /\ Quiet(Step)
  BY <1>1, EnterBlockFrames, FormsQuiet, ScriptOf DEF StatementForms
<1>3. /\ f.form = Top.form /\ f.entry = Top.entry /\ f.scope = Top.scope
      /\ f.added = Top.added /\ f.at = Top.at + 1
  BY <1>1, InWalk DEF FrameOK, FrameFields, AtStep
<1> HIDE DEF f
<1>4. Nested'
  BY <1>1, <1>2, <1>3, NestedEntered DEF LInv
<1> QED BY <1>1, <1>4, TableUntouched DEF LInv

LEMMA EnterLexical ==
  ASSUME IInv, LInv, Enter
  PROVE  LInv'
<1> DEFINE f == EnteredTop
           S == {"stmts", "body", "exprs", "else"} \union (DOMAIN Script \ {"Block"})
<1>1. /\ pass = "reference" /\ frames # <<>> /\ AtStep(S) /\ Spend
      /\ UNCHANGED <<program, pass, top, out, table, current, typeParams>>
  BY DEF Enter, AtStep, walk
<1>2. PICK form \in DOMAIN Script :
        frames' = Append(Append(Front(frames), EnteredTop), Frame(form))
  BY EnterFrames
<1>3. FrameOK(Top, table)
  BY <1>1, InWalk
<1>4. /\ f.form = Top.form /\ f.entry = Top.entry /\ f.scope = Top.scope
      /\ f.added = Top.added
      /\ f.at = IF Step = "else" THEN Top.at + 1 ELSE Top.at
  BY <1>3 DEF FrameOK, FrameFields, EnteredTop
<1>5. Step = "else" => Quiet(Step)
  BY FormsQuiet
<1> HIDE DEF S, f
<1>6. f.at = Top.at \/ (f.at = Top.at + 1 /\ Quiet(Step))
  BY <1>4, <1>5
<1>7. frames' = Append(Append(Front(frames), f), Frame(form))
  BY <1>2 DEF f
<1>8. Nested'
  BY <1>1, <1>4, <1>6, <1>7, NestedEntered DEF LInv
<1> QED BY <1>1, <1>8, TableUntouched DEF LInv

\* A step that handles a reference.
LEMMA ReferenceNoted ==
  ASSUME IInv, LInv, pass = "reference", UNCHANGED <<program, pass, top, table, current>>,
         Nested', Spend \/ UNCHANGED fuel, NotedIn(out'), Beside(out')
  PROVE  LInv'
<1>1. NotedIn(out)' /\ fuel' \in 0..program.fuel
  BY NotedSame, Fueled
<1>2. LocalsAreLocal' /\ Layered(table', current')
  BY DEF LInv, LocalsAreLocal, Local, IsTopLevel
<1>3. Tracked'
  BY DEF LInv, Tracked, Beside
<1> QED BY <1>1, <1>2, <1>3, WalkOn

LEMMA NotingNow ==
  ASSUME IInv, LInv, pass = "reference", frames # <<>>
  PROVE  Noting
BY InWalk DEF LInv, Noting, Tracked

LEMMA PathResolvedNoted ==
  ASSUME IInv, LInv, NEW S, AtStep(S), "types" \notin S, NEW p \in Paths
  PROVE  NotedIn(ResolvedPath[p]) /\ Beside(ResolvedPath[p])
<1>1. Noting /\ Step # "types"
  BY NotingNow DEF AtStep
<1>2. ResolvedPath[p] = ResolvePath(Mentioned(out, p), p)
  BY DEF ResolvedPath
<1> QED BY <1>1, <1>2, PathNoted

LEMMA ReferenceLexical ==
  ASSUME IInv, LInv, Reference
  PROVE  LInv'
<1>1. /\ pass = "reference" /\ AtStep({"exprs"}) /\ Spend
      /\ UNCHANGED <<program, pass, top, table, current, typeParams, frames>>
  BY DEF Reference, Lookups, AtStep, walk
<1>2. \E p \in Paths : out' = ResolvedPath[p]
  BY DEF Reference, Lookups
<1>3. "types" \notin {"exprs"}
  OBVIOUS
<1>4. NotedIn(out') /\ Beside(out')
  BY <1>1, <1>2, <1>3, PathResolvedNoted
<1>5. Nested'
  BY <1>1, ExtendsSame, NestedKept DEF LInv, IInv, Shapes
<1> QED BY <1>1, <1>4, <1>5, ReferenceNoted

LEMMA TypeReferenceLexical ==
  ASSUME IInv, LInv, TypeReference
  PROVE  LInv'
<1>1. /\ pass = "reference" /\ frames # <<>> /\ Step = "types" /\ Spend
      /\ UNCHANGED <<program, pass, top, table, current, typeParams, frames>>
  BY DEF TypeReference, Lookups, AtStep, walk
<1>2. \E n \in program.types : out' = ResolveType(out, n)
  BY DEF TypeReference, Lookups
<1>3. NotedIn(out') /\ Beside(out')
  BY <1>1, <1>2, NotingNow, TypeNoted
<1>4. Nested'
  BY <1>1, ExtendsSame, NestedKept DEF LInv, IInv, Shapes
<1> QED BY <1>1, <1>3, <1>4, ReferenceNoted

LEMMA NameReferenceLexical ==
  ASSUME IInv, LInv, NameReference
  PROVE  LInv'
<1>1. /\ pass = "reference" /\ frames # <<>> /\ AtStep({"name"}) /\ Advance
      /\ Step # "types"
      /\ UNCHANGED <<program, pass, top, table, current, typeParams, fuel>>
  BY DEF NameReference, Lookups, AtStep, walk
<1>2. PICK n \in program.locals : out' = ResolveName(Mentioned(out, n), n, n)
  BY DEF NameReference, Lookups
<1>3. n \in Seq(Words) /\ Len(n) = 1
  BY NamesType DEF IInv, Shapes
<1>4. ~(Len(n) > 1) /\ Noting
  BY <1>1, <1>3, NotingNow
<1>5. Mentions(Mentioned(out, n), n)
  BY <1>1, <1>4, ExpressionMention, MentionedWith
<1>6. NotedIn(out') /\ Beside(out')
  BY <1>2, <1>3, <1>4, <1>5, NameNoted
<1>7. \A s \in {"name"} : Quiet(s)
  BY FormsQuiet
<1>8. Nested'
  BY <1>1, <1>7, ExtendsSame, NestedAdvance DEF LInv, IInv, Shapes
<1> QED BY <1>1, <1>6, <1>8, ReferenceNoted

LEMMA CalleeLexical ==
  ASSUME IInv, LInv, Callee
  PROVE  LInv'
<1>1. /\ pass = "reference" /\ frames # <<>> /\ AtStep({"callee"})
      /\ UNCHANGED <<program, pass, top, table, current, typeParams, fuel>>
  BY DEF Callee, AtStep, walk
<1>2. PICK p \in Paths : /\ out' = ResolvedPath[p]
                         /\ \E c : frames' = Append(Front(frames),
                              [Top EXCEPT !.at = @ + 1, !.callee = c])
  BY DEF Callee, SetTop
<1>3. "types" \notin {"callee"} /\ \A s \in {"callee"} : Quiet(s)
  BY FormsQuiet
<1>4. NotedIn(out') /\ Beside(out')
  BY <1>1, <1>2, <1>3, PathResolvedNoted
<1> PICK c : frames' = Append(Front(frames), [Top EXCEPT !.at = @ + 1, !.callee = c])
  BY <1>2
<1> DEFINE f == [Top EXCEPT !.at = @ + 1, !.callee = c]
<1>5. FrameOK(Top, table) /\ Extends(table, table')
  BY <1>1, InWalk
<1>6. /\ f.form = Top.form /\ f.entry = Top.entry /\ f.scope = Top.scope
      /\ f.added = Top.added /\ f.at = Top.at + 1
  BY <1>5 DEF FrameOK, FrameFields
<1>7. frames' = Append(Front(frames), f)
  OBVIOUS
<1> HIDE DEF f
<1>8. Nested'
  BY <1>1, <1>3, <1>5, <1>6, <1>7, NestedGoesOn DEF LInv
<1> QED BY <1>1, <1>4, <1>8, ReferenceNoted

LEMMA ArgumentLexical ==
  ASSUME IInv, LInv, Argument
  PROVE  LInv'
<1>1. /\ pass = "reference" /\ frames # <<>> /\ AtStep({"argument"}) /\ Advance
      /\ UNCHANGED <<program, pass, top, table, current, typeParams, fuel>>
  BY DEF Argument, AtStep, walk
<1>2. \E p \in Paths : out' = out \/ out' = ResolvedPath[p]
  BY DEF Argument
<1>3. "types" \notin {"argument"} /\ \A s \in {"argument"} : Quiet(s)
  BY FormsQuiet
<1>4. NotedIn(out) /\ Beside(out)
  BY <1>1, NotingNow, NotingOut DEF Noting
<1>5. NotedIn(out') /\ Beside(out')
  BY <1>1, <1>2, <1>3, <1>4, PathResolvedNoted
<1>6. Nested'
  BY <1>1, <1>3, ExtendsSame, NestedAdvance DEF LInv, IInv, Shapes
<1> QED BY <1>1, <1>5, <1>6, ReferenceNoted

\* A definition is made in the scope that the walk is in.
LEMMA LocalNoted ==
  ASSUME IInv, LInv, pass = "reference", UNCHANGED <<program, pass, top, current>>,
         NEW d, NEW name, d.ns = None, Len(name) = 1,
         d.kind = "Namespace" \/ Binders(table, current, name) = {},
         LookupLocal(table, current, name) = 0,
         table' = Bind(NewDef(table, d), current, name),
         Extends(table, table') => Nested', fuel' \in 0..program.fuel,
         DOMAIN out' = OutFields, out'.mentions = out.mentions, out'.used = out.used,
         out'.vars \subseteq out.vars \union {Len(table.defs) + 1},
         out'.uses \subseteq out.uses \union {Len(table.defs) + 1},
         DOMAIN out'.aliases \subseteq out'.uses,
         DOMAIN out.aliases \subseteq DOMAIN out'.aliases,
         DOMAIN out'.aliases \subseteq DOMAIN out.aliases \union {Len(table.defs) + 1},
         \A g \in out'.diagnostics : "def" \notin DOMAIN g
  PROVE  LInv'
<1> DEFINE id == Len(table.defs) + 1
<1>1. /\ Linked(table) /\ current \in 1..Len(table.scopes)
      /\ Len(table.scopes) \in Nat /\ Len(table.defs) \in Nat
  BY Lengths DEF IInv, Shapes
<1>2. name \notin DOMAIN table.scopes[current].bind
  BY <1>1, NotBound
<1>3. /\ Extends(table, table') /\ Layered(table', current')
  BY <1>1, <1>2, ExtendsBound, LayeredBound DEF LInv
<1>4. /\ Len(table'.scopes) = Len(table.scopes) /\ Len(table'.defs) = id
      /\ table'.defs[id] = d
      /\ \A i \in 1..Len(table.scopes) :
           table'.scopes[i].bind = IF i = current
                                   THEN With(table.scopes[current].bind, name, id)
                                   ELSE table.scopes[i].bind
  BY <1>1, <1>2, Bound
<1>5. LocalsAreLocal'
  <2>1. ASSUME NEW s \in 2..Len(table'.scopes), NEW n \in DOMAIN table'.scopes[s].bind
        PROVE  \/ s <= Len(table.scopes) /\ n \in DOMAIN table.scopes[s].bind
               \/ table'.defs[table'.scopes[s].bind[n]].ns = None
    <3>1. s \in 1..Len(table.scopes) /\ s <= Len(table.scopes)
      BY <1>1, <1>4
    <3>2. CASE s = current /\ n = name
      <4>1. table'.scopes[s].bind[n] = id
        BY <1>4, <3>1, <3>2 DEF With
      <4> QED BY <1>4, <4>1
    <3>3. CASE ~(s = current /\ n = name)
      <4>1. n \in DOMAIN table.scopes[s].bind
        <5>1. CASE s = current
          <6>1. table'.scopes[s].bind = With(table.scopes[s].bind, name, id)
            BY <1>4, <3>1, <5>1
          <6>2. DOMAIN table'.scopes[s].bind = DOMAIN table.scopes[s].bind \union {name}
            BY <6>1, Zenon DEF With
          <6> QED BY <3>3, <5>1, <6>2
        <5>2. CASE s # current
          BY <1>4, <3>1, <5>2
        <5> QED BY <5>1, <5>2
      <4> QED BY <3>1, <4>1
    <3> QED BY <3>2, <3>3
  <2> QED BY <1>3, <2>1, LocalsKept DEF LInv
<1>6. Tracked'
  <2>1. out.vars \union out.uses \subseteq 1..Len(table.defs)
    BY DEF LInv, Tracked
  <2>2. 1..Len(table.defs) \union {id} \subseteq 1..Len(table'.defs)
    BY <1>1, <1>4
  <2> QED BY <2>1, <2>2 DEF Tracked
<1>7. NotedIn(out)'
  <2>1. id \notin 1..Len(table.defs)
    BY <1>1
  <2>2. NotedIn(out)
    BY DEF LInv
  <2> QED BY <1>3, <2>1, <2>2, NotedKept
<1> QED BY <1>3, <1>5, <1>6, <1>7, WalkOn

\* A step that may only report.
LEMMA ReportNoted ==
  ASSUME IInv, LInv, pass = "reference", UNCHANGED <<program, pass, top, table, current>>,
         Nested', fuel' \in 0..program.fuel, Beside(out'),
         out'.mentions = out.mentions, out'.used = out.used,
         \A g \in out'.diagnostics : "def" \notin DOMAIN g
  PROVE  LInv'
<1>1. Extends(table, table') /\ out'.aliases = out.aliases
  BY ExtendsSame DEF IInv, Shapes, Beside
<1>2. NotedIn(out) /\ NotedIn(out)'
  BY <1>1, NotedKept DEF LInv
<1>3. LocalsAreLocal' /\ Layered(table', current')
  BY DEF LInv, LocalsAreLocal, Local, IsTopLevel
<1>4. Tracked'
  BY DEF LInv, Tracked, Beside
<1> QED BY <1>2, <1>3, <1>4, WalkOn

LEMMA NotBoundAbove ==
  ASSUME NEW t, Linked(t), NEW s \in 1..Len(t.scopes), NEW name,
         LookupAncestor(t, s, name) = 0, LookupLocal(t, s, name) = 0
  PROVE  Binders(t, s, name) = {}
<1> DEFINE above == Binders(t, s, name) \ {s}
           here == Binders(t, s, name) \intersect {s}
<1>1. above \in SUBSET Binders(t, s, name) /\ here \in SUBSET Binders(t, s, name)
  OBVIOUS
<1>2. Binders(t, s, name) = above \union here
  OBVIOUS
<1>3. Found(t, above, name) = 0 /\ Found(t, here, name) = 0
  BY DEF LookupAncestor, LookupLocal
<1> HIDE DEF above, here
<1>4. above = {} /\ here = {}
  <2>1. Len(t.defs) \in Nat
    BY Lengths
  <2>2. above # {} => Found(t, above, name) \in 1..Len(t.defs)
    BY <1>1, FoundIn
  <2>3. here # {} => Found(t, here, name) \in 1..Len(t.defs)
    BY <1>1, FoundIn
  <2> QED BY <1>3, <2>1, <2>2, <2>3
<1> QED BY <1>2, <1>4

LEMMA EmittedNoted ==
  ASSUME NEW o, DOMAIN o = OutFields, NEW code, NEW name,
         \A g \in o.diagnostics : "def" \notin DOMAIN g
  PROVE  LET r == Emit(o, code, name)
         IN /\ DOMAIN r = OutFields /\ r.aliases = o.aliases /\ r.vars = o.vars
            /\ r.uses = o.uses /\ r.mentions = o.mentions /\ r.used = o.used
            /\ \A g \in r.diagnostics : "def" \notin DOMAIN g
<1> DEFINE r == Emit(o, code, name)
<1>1. /\ DOMAIN r = OutFields /\ r.aliases = o.aliases /\ r.vars = o.vars
      /\ r.uses = o.uses /\ r.mentions = o.mentions /\ r.used = o.used
      /\ r.diagnostics = o.diagnostics \union {Diagnostic(code, name)}
  BY DEF Emit, OutFields
<1>2. "def" \notin DOMAIN Diagnostic(code, name)
  BY DEF Diagnostic
<1> HIDE DEF r
<1> QED BY <1>1, <1>2 DEF r

LEMMA DeclareNamesLexical ==
  ASSUME IInv, LInv, DeclareNames
  PROVE  LInv'
<1>1. /\ pass = "reference" /\ frames # <<>> /\ AtStep(DOMAIN KindOf)
      /\ UNCHANGED <<program, pass, top, current, typeParams>>
      /\ (frames' = frames \/ Advance) /\ (Spend \/ UNCHANGED fuel)
  BY DEF DeclareNames, AtStep, walk
<1>2. PICK name \in program.locals :
        DeclareLocal(name, KindOf[Step], Step \notin {"untracked", "error", "type"})
  BY DEF DeclareNames
<1>3. Len(name) = 1
  BY NamesType DEF IInv, Shapes
<1>4. fuel' \in 0..program.fuel
  BY <1>1, Fueled
<1>5. Extends(table, table') => Nested'
  <2>1. \A s \in DOMAIN KindOf : Quiet(s)
    BY FormsQuiet
  <2> QED BY <1>1, <2>1, NestedKept, NestedAdvance DEF LInv
<1>6. /\ Linked(table) /\ current \in 1..Len(table.scopes) /\ DOMAIN out = OutFields
      /\ Extends(table, table) /\ NotedIn(out) /\ Beside(out)
      /\ \A g \in out.diagnostics : "def" \notin DOMAIN g
      /\ DOMAIN out.aliases \subseteq out.uses
  BY <1>1, InWalk, NotingNow, NotingOut DEF Noting, NotedIn, LInv, Tracked
<1>7. CASE UNCHANGED table /\ \E code : out' = Emit(out, code, name)
  <2>1. /\ out'.mentions = out.mentions /\ out'.used = out.used
        /\ Beside(out') /\ \A g \in out'.diagnostics : "def" \notin DOMAIN g
    BY <1>6, <1>7, EmittedNoted DEF Beside
  <2> QED BY <1>1, <1>4, <1>5, <1>6, <1>7, <2>1, ReportNoted
<1>8. CASE /\ LookupAncestor(table, current, name) = 0
           /\ LookupLocal(table, current, name) = 0
           /\ table' = Bind(NewDef(table, Def(name, KindOf[Step], None, "Private")),
                            current, name)
           /\ \/ out' = out
              \/ out' = [out EXCEPT !.vars = @ \union {Len(table.defs) + 1}]
  <2> DEFINE d == Def(name, KindOf[Step], None, "Private")
  <2>1. d.ns = None
    BY DEF Def
  <2>2. Binders(table, current, name) = {}
    BY <1>6, <1>8, NotBoundAbove
  <2>3. /\ DOMAIN out' = OutFields /\ out'.mentions = out.mentions
        /\ out'.used = out.used /\ out'.uses = out.uses /\ out'.aliases = out.aliases
        /\ out'.vars \subseteq out.vars \union {Len(table.defs) + 1}
        /\ out'.diagnostics = out.diagnostics
    BY <1>6, <1>8 DEF OutFields
  <2>4. table' = Bind(NewDef(table, d), current, name)
    BY <1>8
  <2> HIDE DEF d
  <2> QED BY <1>1, <1>3, <1>4, <1>5, <1>6, <1>8, <2>1, <2>2, <2>3, <2>4, LocalNoted
<1> QED BY <1>2, <1>7, <1>8 DEF DeclareLocal

LEMMA UseLexical ==
  ASSUME IInv, LInv, Use
  PROVE  LInv'
<1>1. /\ pass = "reference" /\ frames # <<>> /\ Spend
      /\ UNCHANGED <<program, pass, top, current, typeParams, frames>>
  BY DEF Use, AtStep, walk
<1>2. PICK u \in program.uses : DeclareUse(u.path, u.bound)
  BY DEF Use
<1>3. Len(u.bound) = 1
  BY NamesType DEF IInv, Shapes
<1>4. fuel' \in 0..program.fuel
  BY <1>1, Fueled
<1>5. Extends(table, table') => Nested'
  BY <1>1, NestedKept DEF LInv
<1>6. /\ DOMAIN out = OutFields /\ Extends(table, table) /\ Beside(out)
      /\ \A g \in out.diagnostics : "def" \notin DOMAIN g
      /\ DOMAIN out.aliases \subseteq out.uses
  BY <1>1, InWalk, NotingNow, NotingOut DEF Noting, NotedIn, LInv, Tracked
<1> DEFINE id == Len(table.defs) + 1
           valid == IF IsNamespace(u.path) THEN out ELSE Emit(out, "undefined", u.path)
           late == IF Step = "body" /\ Top.pastUse
                   THEN Emit(valid, "use_not_at_top", u.path) ELSE valid
           same(r) == /\ DOMAIN r = OutFields /\ r.aliases = out.aliases
                      /\ r.vars = out.vars /\ r.uses = out.uses
                      /\ r.mentions = out.mentions /\ r.used = out.used
                      /\ \A g \in r.diagnostics : "def" \notin DOMAIN g
<1>7. same(late)
  <2>1. same(valid)
    BY <1>6, EmittedNoted
  <2> HIDE DEF valid
  <2>2. same(Emit(valid, "use_not_at_top", u.path))
    BY <2>1, EmittedNoted
  <2> HIDE DEF same
  <2> QED BY <2>1, <2>2
<1>8. \/ /\ out' = [late EXCEPT !.diagnostics = @ \union {Diagnostic("duplicate", u.bound)}]
         /\ UNCHANGED table
      \/ /\ LookupLocal(table, current, u.bound) = 0
         /\ table' = Bind(NewDef(table, Def(u.bound, "Namespace", None, "Private")),
                          current, u.bound)
         /\ out' = [late EXCEPT !.uses = @ \union {id},
                      !.aliases = IF IsNamespace(u.path) THEN With(@, id, u.path)
                                  ELSE @]
  BY <1>2 DEF DeclareUse
<1> HIDE DEF late, id
<1>9. CASE /\ out' = [late EXCEPT !.diagnostics = @ \union {Diagnostic("duplicate", u.bound)}]
           /\ UNCHANGED table
  <2>1. out' = Emit(late, "duplicate", u.bound)
    BY <1>9 DEF Emit
  <2>2. same(out')
    BY <1>7, <2>1, EmittedNoted
  <2>3. Beside(out')
    BY <2>2 DEF Beside
  <2> QED BY <1>1, <1>4, <1>5, <1>6, <1>9, <2>2, <2>3, ReportNoted
<1>10. CASE /\ LookupLocal(table, current, u.bound) = 0
            /\ table' = Bind(NewDef(table, Def(u.bound, "Namespace", None, "Private")),
                             current, u.bound)
            /\ out' = [late EXCEPT !.uses = @ \union {id},
                      !.aliases = IF IsNamespace(u.path) THEN With(@, id, u.path)
                                  ELSE @]
  <2> DEFINE d == Def(u.bound, "Namespace", None, "Private")
  <2>1. d.ns = None /\ d.kind = "Namespace"
    BY DEF Def
  <2>2. /\ DOMAIN out' = OutFields /\ out'.mentions = out.mentions
        /\ out'.used = out.used /\ out'.vars = out.vars
        /\ out'.uses = out.uses \union {id}
        /\ out'.diagnostics = late.diagnostics
        /\ out'.aliases = late.aliases \/ out'.aliases = With(late.aliases, id, u.path)
    BY <1>7, <1>10 DEF OutFields
  <2>3. /\ DOMAIN out.aliases \subseteq DOMAIN out'.aliases
        /\ DOMAIN out'.aliases \subseteq DOMAIN out.aliases \union {id}
        /\ \A g \in out'.diagnostics : "def" \notin DOMAIN g
    BY <1>7, <2>2 DEF With
  <2>4. DOMAIN out'.aliases \subseteq out'.uses
    BY <1>6, <2>2, <2>3
  <2>5. table' = Bind(NewDef(table, d), current, u.bound)
    BY <1>10
  <2> HIDE DEF d
  <2> QED BY <1>1, <1>3, <1>4, <1>5, <1>10, <2>1, <2>2, <2>3, <2>4, <2>5, LocalNoted DEF id
<1> QED BY <1>8, <1>9, <1>10

\* An item that is declared, or reported, in the first pass.
LEMMA DeclaredLexical ==
  ASSUME IInv, LInv, Entering, UNCHANGED table \/
           \E n, d : /\ n \notin DOMAIN table.scopes[Root].bind
                     /\ table' = Bind(NewDef(table, d), Root, n),
         out'.used = out.used, out'.mentions = out.mentions,
         out'.aliases = out.aliases, out'.uses = out.uses,
         out'.vars \subseteq out.vars \union (1..Len(table'.defs)),
         \A g \in out'.diagnostics : "def" \notin DOMAIN g
  PROVE  LInv'
<1>1. /\ pass = "declare" /\ UNCHANGED <<program, pass, current, typeParams, frames, fuel>>
  BY DEF Entering
<1>2. /\ Linked(table) /\ current \in 1..Len(table.scopes) /\ Len(table.scopes) = 1
      /\ Len(table.defs) \in Nat
  BY <1>1, Lengths DEF IInv, Shapes, LInv
<1>3. current = Root
  BY <1>2 DEF Root
<1>4. Extends(table, table') /\ Len(table'.scopes) = 1
  <2>1. CASE UNCHANGED table
    BY <1>2, <2>1, ExtendsSame
  <2>2. CASE ~UNCHANGED table
    <3>1. PICK n, d : /\ n \notin DOMAIN table.scopes[Root].bind
                      /\ table' = Bind(NewDef(table, d), Root, n)
      BY <2>2
    <3>2. Root \in 1..Len(table.scopes)
      BY <1>2, <1>3
    <3> QED BY <1>2, <3>1, <3>2, ExtendsBound, Bound
  <2> QED BY <2>1, <2>2
<1>5. /\ Linked(table') /\ Len(table.defs) <= Len(table'.defs) /\ Len(table'.defs) \in Nat
  BY <1>4, Lengths DEF Extends
<1>6. Nested' /\ Layered(table', current')
  BY <1>1, <1>3, <1>4, <1>5, NestedKept, LayeredRoot DEF LInv
<1>7. LocalsAreLocal'
  BY <1>4 DEF LocalsAreLocal
<1>8. Tracked'
  <2>1. out.vars \union out.uses \subseteq 1..Len(table.defs)
    BY DEF LInv, Tracked
  <2>2. 1..Len(table.defs) \subseteq 1..Len(table'.defs)
    BY <1>2, <1>5
  <2> QED BY <2>1, <2>2 DEF Tracked, LInv
<1>9. NotedIn(out)'
  <2>1. NotedIn(out)
    BY <1>1 DEF LInv
  <2> QED BY <1>4, <2>1, NotedKept
<1> QED BY <1>1, <1>4, <1>6, <1>7, <1>8, <1>9 DEF LInv

LEMMA ReportedLexical ==
  ASSUME IInv, LInv, Entering, UNCHANGED table,
         out' = out \/ \E code, name : out' = Emit(out, code, name)
  PROVE  LInv'
<1>1. DOMAIN out = OutFields /\ \A g \in out.diagnostics : "def" \notin DOMAIN g
  BY DEF IInv, Shapes, LInv, NotedIn, Entering
<1>2. /\ out'.used = out.used /\ out'.mentions = out.mentions
      /\ out'.aliases = out.aliases /\ out'.uses = out.uses
      /\ out'.vars = out.vars
      /\ \A g \in out'.diagnostics : "def" \notin DOMAIN g
  BY <1>1, EmittedNoted
<1> QED BY <1>2, DeclaredLexical

LEMMA FreeLexical ==
  ASSUME IInv, LInv, Entering, NEW n, IsFree(n), NEW d,
         table' = Bind(NewDef(table, d), Root, n),
         out' = out \/ out' = [out EXCEPT !.vars = @ \union {Len(table.defs) + 1}]
  PROVE  LInv'
<1>1. DOMAIN out = OutFields /\ \A g \in out.diagnostics : "def" \notin DOMAIN g
  BY DEF IInv, Shapes, LInv, NotedIn, Entering
<1>2. n \notin DOMAIN table.scopes[Root].bind
  BY FreeAtRoot
<1>3. Len(table'.defs) = Len(table.defs) + 1 /\ Len(table.defs) \in Nat
  <2>1. Linked(table) /\ Root \in 1..Len(table.scopes) /\ Len(table.defs) \in Nat
    BY Lengths DEF IInv, Shapes
  <2> QED BY <1>2, <2>1, Bound
<1>4. /\ out'.used = out.used /\ out'.mentions = out.mentions
      /\ out'.aliases = out.aliases /\ out'.uses = out.uses
      /\ out'.vars \subseteq out.vars \union {Len(table.defs) + 1}
      /\ out'.diagnostics = out.diagnostics
  BY <1>1 DEF OutFields
<1>5. out'.vars \subseteq out.vars \union (1..Len(table'.defs))
  BY <1>3, <1>4
<1> QED BY <1>1, <1>2, <1>4, <1>5, DeclaredLexical

LEMMA DeclareItemLexical ==
  ASSUME IInv, LInv, DeclareItem
  PROVE  LInv'
<1>1. Entering
  BY DEF DeclareItem, Entering
<1>2. CASE DeclareNamespace
  <2>1. \/ UNCHANGED table /\ (out' = out \/ Duplicate(Item.name))
        \/ /\ IsFree(Item.name) /\ out' = out
           /\ \E d : table' = Bind(NewDef(table, d), Root, Item.name)
    BY <1>2 DEF DeclareNamespace, Duplicate, Declared, IsFree
  <2> QED BY <1>1, <2>1, ReportedLexical, FreeLexical DEF Duplicate
<1>3. CASE DeclareMutualBody
  <2>1. UNCHANGED table /\ (out' = out \/ \E code, name : out' = Emit(out, code, name))
    BY <1>3 DEF DeclareMutualBody
  <2> QED BY <1>1, <2>1, ReportedLexical
<1>4. CASE DeclareMutual
  <2>1. \/ UNCHANGED table /\ Duplicate(FullName(Item.name))
        \/ /\ IsFree(FullName(Item.name)) /\ out' = out
           /\ \E d : table' = Bind(NewDef(table, d), Root, FullName(Item.name))
    BY <1>4 DEF DeclareMutual, Duplicate
  <2> QED BY <1>1, <2>1, ReportedLexical, FreeLexical DEF Duplicate
<1>5. CASE DeclareRootAlias
  <2>1. \/ UNCHANGED table /\ \E code : out' = Emit(out, code, Item.name)
        \/ /\ IsFree(Item.name) /\ out' = out
           /\ \E d : table' = Bind(NewDef(table, d), Root, Item.name)
    BY <1>5 DEF DeclareRootAlias, Duplicate, Declared
  <2> QED BY <1>1, <2>1, ReportedLexical, FreeLexical
<1>6. CASE DeclareNamed
  <2>1. \/ UNCHANGED table /\ Duplicate(FullName(Item.name))
        \/ /\ IsFree(FullName(Item.name))
           /\ \E d : table' = Bind(NewDef(table, d), Root, FullName(Item.name))
           /\ out' = out \/ out' = [out EXCEPT !.vars = @ \union {Len(table.defs) + 1}]
    BY <1>6 DEF DeclareNamed, Duplicate, Declared
  <2> QED BY <1>1, <2>1, ReportedLexical, FreeLexical DEF Duplicate
<1>7. CASE DeclareNothing
  BY <1>1, <1>7, ReportedLexical DEF DeclareNothing
<1> QED BY <1>2, <1>3, <1>4, <1>5, <1>6, <1>7 DEF DeclareItem

\* From pass to pass only the place in the program changes.
LEMMA PassesLexical ==
  ASSUME IInv, LInv, StartReferences \/ FinishReferences
  PROVE  LInv'
<1>1. /\ pass # "done" /\ pass' \in {"reference", "unused"}
      /\ UNCHANGED <<program, current, typeParams, table, top, out, frames, fuel>>
  BY DEF StartReferences, FinishReferences
<1>2. Extends(table, table') /\ Beside(out') /\ NotedIn(out')
  <2>1. Beside(out)
    BY DEF IInv, Shapes, Beside
  <2>2. Extends(table, table')
    BY <1>1, ExtendsSame DEF IInv, Shapes
  <2>3. NotedIn(out)
    BY <1>1 DEF LInv
  <2>4. out' = out
    BY <1>1
  <2> QED BY <2>1, <2>2, <2>3, <2>4
<1>3. NotedIn(out)' /\ Nested'
  BY <1>1, <1>2, NotedSame, NestedKept DEF LInv
<1>4. /\ LocalsAreLocal' /\ Layered(table', current') /\ Tracked'
      /\ fuel' \in 0..program'.fuel
  BY <1>1 DEF LInv, LocalsAreLocal, Local, IsTopLevel, Tracked
<1> QED BY <1>1, <1>3, <1>4 DEF LInv

\* The warnings are given for what is not used.
LEMMA CheckUnusedLexical ==
  ASSUME IInv, LInv, CheckUnused
  PROVE  LInv'
<1>1. /\ pass = "unused" /\ pass' = "done"
      /\ UNCHANGED <<program, current, typeParams, table, top, frames, fuel>>
  BY DEF CheckUnused
<1>2. NotedIn(out) /\ Tracked /\ DOMAIN out = OutFields
  BY <1>1 DEF LInv, IInv, Shapes
<1> DEFINE W1 == {Warning("unused_variable", d) :
                    d \in {v \in Unused(out.vars) : table.defs[v].name \notin Ignored}}
           W2 == {Warning("unused_import", d) : d \in Unused(out.uses)}
<1>3. /\ Beside(out') /\ out'.mentions = out.mentions /\ out'.used = out.used
      /\ out'.diagnostics = out.diagnostics \union W1 \union W2
  BY <1>2 DEF CheckUnused, OutFields, Beside
<1>4. \A m : NamesNearest(m)' <=> NamesNearest(m)
  <2>1. \A m : LocalsOf(m)' = LocalsOf(m)
    BY <1>1 DEF LocalsOf, Chain
  <2> QED BY <1>1, <1>3, <2>1 DEF NamesNearest, Beside
<1>5. \A m, d : UsedBy(m, d)' <=> UsedBy(m, d)
  <2>1. \A m : LocalsOf(m)' = LocalsOf(m)
    BY <1>1 DEF LocalsOf, Chain
  <2> QED BY <1>1, <1>3, <2>1 DEF UsedBy, Beside
<1>6. ASSUME NEW d \in out.vars \union out.uses, table.defs[d].file \notin Stdlib,
             d \in out.uses \/ table.defs[d].name \notin Ignored
      PROVE  (\E g \in out'.diagnostics : "def" \in DOMAIN g /\ g.def = d)
               <=> ~\E m \in out.mentions : UsedBy(m, d)
  <2>1. d \in out.used <=> \E m \in out.mentions : UsedBy(m, d)
    BY <1>2 DEF NotedIn, Tracked
  <2>2. \A code, e : "def" \in DOMAIN Warning(code, e) /\ Warning(code, e).def = e
    BY DEF Warning
  <2>3. ASSUME d \notin out.used
        PROVE  \E g \in out'.diagnostics : "def" \in DOMAIN g /\ g.def = d
    <3>1. CASE d \in out.uses
      <4>1. Warning("unused_import", d) \in W2
        BY <1>6, <2>3, <3>1 DEF Unused
      <4> HIDE DEF W1, W2
      <4> QED BY <1>3, <2>2, <4>1
    <3>2. CASE d \notin out.uses
      <4>1. Warning("unused_variable", d) \in W1
        BY <1>6, <2>3, <3>2 DEF Unused
      <4> HIDE DEF W1, W2
      <4> QED BY <1>3, <2>2, <4>1
    <3> QED BY <3>1, <3>2
  <2>4. ASSUME NEW g \in out'.diagnostics, "def" \in DOMAIN g, g.def = d
        PROVE  d \notin out.used
    <3>1. g \notin out.diagnostics
      BY <1>2, <2>4 DEF NotedIn
    <3>2. \E code, e : g = Warning(code, e) /\ e \notin out.used
      <4>1. g \in W1 \/ g \in W2
        <5> HIDE DEF W1, W2
        <5> QED BY <1>3, <2>4, <3>1
      <4> QED BY <4>1 DEF Unused
    <3> QED BY <2>2, <2>4, <3>2
  <2> QED BY <2>1, <2>3, <2>4
<1>7. UnusedExact'
  <2>1. out'.vars = out.vars /\ out'.uses = out.uses
    BY <1>3 DEF Beside
  <2> QED BY <1>1, <1>3, <1>5, <1>6, <2>1 DEF UnusedExact
<1>8. Ended'
  BY <1>1, <1>2, <1>3, <1>4, <1>7 DEF Ended, NotedIn
<1>9. Nested'
  BY <1>1, ExtendsSame, NestedKept DEF LInv, IInv, Shapes
<1>10. /\ LocalsAreLocal' /\ Layered(table', current') /\ Tracked'
       /\ fuel' \in 0..program'.fuel
  BY <1>1, <1>3 DEF LInv, LocalsAreLocal, Local, IsTopLevel, Tracked, Beside
<1> QED BY <1>1, <1>8, <1>9, <1>10 DEF LInv

LEMMA InitLexical == Init => LInv
<1> SUFFICES ASSUME Init PROVE LInv
  OBVIOUS
<1>1. /\ program \in Programs /\ pass = "declare" /\ current = Root /\ typeParams = {}
      /\ table = PreludeTable /\ frames = <<>> /\ fuel = 0
      /\ out = [mentions |-> {}, used |-> {}, aliases |-> <<>>, vars |-> {},
                uses |-> {}, diagnostics |-> {}]
  BY DEF Init
<1>2. Linked(table) /\ Len(table.scopes) = 1 /\ Len(frames) = 0
  BY <1>1, PreludeLinked DEF PreludeTable
<1>3. 0 \in 0..program.fuel
  BY <1>1, ProgramsHoldNames
<1>4. Nested
  BY <1>1, <1>2 DEF Nested, StackOK, ScopeAt, HeldUpTo
<1>5. Layered(table, current)
  BY <1>1, <1>2, LayeredRoot
<1>6. LocalsAreLocal
  BY <1>2 DEF LocalsAreLocal
<1>7. Tracked
  <2>1. DOMAIN <<>> = {}
    OBVIOUS
  <2> QED BY <1>1, <2>1 DEF Tracked
<1>8. NotedIn(out)
  BY <1>1 DEF NotedIn
<1> QED BY <1>1, <1>2, <1>3, <1>4, <1>5, <1>6, <1>7, <1>8 DEF LInv

LEMMA StutterLexical ==
  ASSUME IInv, LInv, UNCHANGED vars
  PROVE  LInv'
<1>1. /\ UNCHANGED <<program, current, typeParams, table, top, frames, fuel, pass, out>>
  BY DEF vars
<1>2. Nested'
  BY <1>1, ExtendsSame, NestedKept DEF LInv, IInv, Shapes
<1>3. /\ LocalsAreLocal' /\ Layered(table', current') /\ Tracked'
      /\ fuel' \in 0..program'.fuel
  BY <1>1 DEF LInv, LocalsAreLocal, Local, IsTopLevel, Tracked
<1>4. \A m : LocalsOf(m)' = LocalsOf(m)
  BY <1>1 DEF LocalsOf, Chain
<1>5. \A m : NamesNearest(m)' <=> NamesNearest(m)
  BY <1>1, <1>4 DEF NamesNearest
<1>6. \A m, d : UsedBy(m, d)' <=> UsedBy(m, d)
  BY <1>1, <1>4 DEF UsedBy
<1>7. CASE pass = "done"
  <2>1. UnusedExact' <=> UnusedExact
    BY <1>1, <1>6 DEF UnusedExact
  <2>2. Ended'
    BY <1>1, <1>5, <1>7, <2>1 DEF LInv, Ended
  <2> QED BY <1>1, <1>2, <1>3, <1>7, <2>2 DEF LInv
<1>8. CASE pass # "done"
  <2>1. Beside(out') /\ NotedIn(out')
    <3>1. Beside(out) /\ NotedIn(out) /\ out' = out
      BY <1>1, <1>8 DEF IInv, Shapes, Beside, LInv
    <3> QED BY <3>1
  <2>2. NotedIn(out)'
    BY <1>1, <2>1, NotedSame
  <2> QED BY <1>1, <1>2, <1>3, <1>8, <2>2 DEF LInv
<1> QED BY <1>7, <1>8

LEMMA NextLexical == IInv /\ LInv /\ [Next]_vars => LInv'
<1> SUFFICES ASSUME IInv, LInv, [Next]_vars PROVE LInv'
  OBVIOUS
<1>1. CASE DeclareItem \/ StartReferences \/ BeginItem \/ Return
  BY <1>1, DeclareItemLexical, PassesLexical, BeginItemLexical, ReturnLexical
<1>2. CASE PushScope \/ PopScope \/ AddTypeParams \/ RemoveTypeParams
  BY <1>2, PushScopeLexical, PopScopeLexical, TypeParamsLexical
<1>3. CASE DeclareNames \/ Use \/ EnterBlock \/ Enter \/ EndOfStep
  BY <1>3, DeclareNamesLexical, UseLexical, EnterBlockLexical, EnterLexical,
     EndOfStepLexical
<1>4. CASE Reference \/ TypeReference \/ NameReference \/ Callee \/ Argument
  BY <1>4, ReferenceLexical, TypeReferenceLexical, NameReferenceLexical,
     CalleeLexical, ArgumentLexical
<1>5. CASE FinishReferences \/ CheckUnused
  BY <1>5, PassesLexical, CheckUnusedLexical
<1>6. CASE UNCHANGED vars
  BY <1>6, StutterLexical
<1> QED BY <1>1, <1>2, <1>3, <1>4, <1>5, <1>6 DEF Next

LEMMA LexicalImplied == IInv /\ LInv => LexicalScoping
<1> SUFFICES ASSUME IInv, LInv PROVE LexicalScoping
  OBVIOUS
<1>1. /\ Linked(table) /\ current \in DOMAIN table.scopes
      /\ DOMAIN table.scopes = 1..Len(table.scopes)
      /\ DOMAIN table.defs = 1..Len(table.defs)
  BY Lengths DEF IInv, Shapes
<1>2. /\ out.used \subseteq 1..Len(table.defs)
      /\ \A m \in out.mentions : m.to \in 0..Len(table.defs) /\ NamesNearest(m)
      /\ UnusedExact
  BY DEF LInv, Ended, NotedIn, UnusedExact
<1>3. ASSUME NEW s \in DOMAIN table.scopes
      PROVE  /\ table.scopes[s].parent < s
             /\ Range(table.scopes[s].bind) \subseteq DOMAIN table.defs
  <2>1. s \in 1..Len(table.scopes) /\ Len(table.scopes) \in Nat
    BY <1>1, <1>3, Lengths
  <2>2. table.scopes[s].parent < s
    <3>1. CASE s = Root
      BY <1>1, <3>1 DEF Linked, Root
    <3>2. CASE s # Root
      <4>1. s \in 2..Len(table.scopes)
        BY <2>1, <3>2 DEF Root
      <4>2. table.scopes[s].parent \in 1..(s - 1)
        BY <1>1, <4>1 DEF Linked
      <4> QED BY <4>1, <4>2
    <3> QED BY <3>1, <3>2
  <2>3. Range(table.scopes[s].bind) \subseteq DOMAIN table.defs
    BY <1>1, <2>1 DEF Linked, Range
  <2> QED BY <2>2, <2>3
<1>4. TypeOK
  BY <1>1, <1>2, <1>3 DEF TypeOK, LInv, Tracked, IInv, Walk
<1>5. Balanced /\ NoShadowing
  BY NestedBalanced, LayeredNoShadowing DEF LInv
<1> QED BY <1>2, <1>4, <1>5 DEF LexicalScoping, LexicalNames

\* Scopes and type parameters are entered and left in step with the source, no
\* name is visible twice but for imports, a name that a local has means the
\* nearest, and the warnings are given for exactly the variables and imports
\* that no reference uses: for all programs, with bodies of any size and
\* nesting.
THEOREM ResolverLexicalScoping == Spec => []LexicalScoping
<1>1. Init => IInv /\ LInv
  BY InitInv, InitLexical
<1>2. IInv /\ LInv /\ [Next]_vars => IInv' /\ LInv'
  BY NextInv, NextLexical
<1>3. IInv /\ LInv => LexicalScoping
  BY LexicalImplied
<1> QED BY <1>1, <1>2, <1>3, PTL DEF Spec
=============================================================================
