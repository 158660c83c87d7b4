------------------------------- MODULE Queries -------------------------------
(***************************************************************************)
(* The questions an editor or an agent asks about a text: what is here,    *)
(* where is it declared, who uses it, what may be written.  A position is  *)
(* a line of file 0 and the part of the item under the cursor, its call    *)
(* or its type.  Each answer is computed by a pass of its own over parsed  *)
(* modules, some with the resolver, some without.                          *)
(***************************************************************************)
EXTENDS Sources

CONSTANT Begins   \* pairs of a stem and a leaf that begins with it

Entry == 0
None == [none |-> TRUE]

Position(P, at) ==
  CHOOSE i \in DOMAIN P : P[i].file = Entry /\ P[i].line = at.line
NameAt(P, at) == P[Position(P, at)].item[at.part]
IsUse(P, at) ==
  \E u \in Uses(P[Position(P, at)]) : u.part = at.part
Positions(text) ==
  {[line |-> n, part |-> part] : n \in DOMAIN text.lines,
                                 part \in {"calls", "type"}}

\* The smallest resolved span that covers the position.
ResolvedAt(P, at) ==
  IF ~IsUse(P, at) THEN [code |-> "none", to |-> 0]
  ELSE Meant(P, Position(P, at), NameAt(P, at))
Resolved(P, at) == ResolvedAt(P, at).code = "found"

\* The type of the expression at the position: what the callee returns.
TypeThere(P, at) ==
  LET d == ResolvedAt(P, at).to
  IN IF at.part # "calls" \/ ~Resolved(P, at) \/ d = 0 THEN None
     ELSE LET type == P[d].item.type
              meant == Meant(P, d, type).to
          IN [type |-> IF meant = 0 THEN type ELSE FullName(P[meant])]

-----------------------------------------------------------------------------
(* The editor's questions, about one text and the standard library.        *)

HoverType(text, at) ==
  LET P == Placed(Alone(text))
  IN IF ~Parses(text) \/ ResolveErrors(P) # {} THEN None ELSE TypeThere(P, at)

GotoDefinition(text, at) ==
  LET P == Placed(Alone(text))
      d == ResolvedAt(P, at).to
  IN IF ~Parses(text) \/ ~Resolved(P, at) \/ d = 0 THEN None
     ELSE IF P[d].file # Entry THEN None ELSE [line |-> P[d].line]

Declared(P) == {i \in DOMAIN P : Declares(P[i]) /\ i \notin Duplicates(P)}
CompletionsFor(text, ns) ==
  LET P == Placed(Alone(text))
  IN IF ~Parses(text) THEN {}
     ELSE Prelude \union {FullName(P[i]) : i \in
            {k \in Declared(P) : IsPublic(P[k]) \/ Owner(P[k]) = ns}}

\* The namespace at the cursor, unless the standard library declares it.
CompletionsAt(text, at) ==
  LET ns == NamespaceAt(text.lines, at.line)
      shipped == \E n \in DOMAIN Library : \E k \in DOMAIN Library[n].lines :
                   /\ Library[n].lines[k].kind = "namespace"
                   /\ Library[n].lines[k].name = ns
  IN CompletionsFor(text, IF shipped THEN "" ELSE ns)

-----------------------------------------------------------------------------
(* An agent's questions, about a file and the modules around it.  Places   *)
(* are found in the files as they are read once more for the answer.       *)

BuiltIn == [file |-> -1, line |-> 0]
Moved == 0     \* the line an offset falls on in a text that has changed

TextOf(modules, file) ==
  modules[CHOOSE n \in DOMAIN modules : modules[n].file = file].text

Located(modules, now, place) ==
  IF place.file = Entry THEN At(place)
  ELSE IF now[place.file] = TextOf(modules, place.file) THEN At(place)
  ELSE [At(place) EXCEPT !.line = Moved]
Readable(now, place) ==
  place.file = Entry \/ now[place.file].syntax # "missing"

\* The display of a type does not look names up: it qualifies them all.
SignatureType(place) ==
  IF place.item.type \in BuiltinTypes \union {Nowhere}
     \/ place.item.type[1] # ""
  THEN place.item.type ELSE <<place.ns, place.item.type[2]>>

Surface == {"namespace", "function", "struct"}
\* Mutant: what is private is on the surface too.
WholeSurface(P) == {i \in DOMAIN P : P[i].item.kind \in Surface}
OnSurface(P) == {i \in DOMAIN P : P[i].item.kind \in Surface /\ IsPublic(P[i])}
First(P, i, among) ==
  ~ \E k \in among : /\ k < i /\ FullName(P[k]) = FullName(P[i])
                     /\ P[k].item.kind = P[i].item.kind
Registry(P) ==
  LET surface == OnSurface(P) IN {i \in surface : First(P, i, surface)}

QueryNamespaces(modules, now) ==
  LET P == Placed(modules)
  IN {[name |-> n, kind |-> "function", place |-> BuiltIn] : n \in Prelude}
     \union {[name |-> FullName(P[i]), kind |-> P[i].item.kind,
              place |-> Located(modules, now, P[i])] : i \in Registry(P)}

QuerySignature(modules, name) ==
  LET P == Placed(modules)
      found == {i \in OnSurface(P) : /\ P[i].item.kind = "function"
                                     /\ FullName(P[i]) = name}
  IN IF found = {} THEN None
     ELSE [name |-> name, type |-> SignatureType(P[Min(found)])]

QueryFileSymbols(text) ==
  LET P == PlacedLines([file |-> Entry, text |-> text])
  IN {[name |-> FullName(P[i]), kind |-> P[i].item.kind, line |-> P[i].line,
       public |-> P[i].item.kind \in Surface /\ IsPublic(P[i])] :
        i \in {k \in DOMAIN P : P[k].item.kind # "comment"}}

\* How a name matches what is typed before the cursor, a dotted or plain
\* stem: the rank of the match, or -1 for none.
Unmatched == -1
Rank(name, stem) ==
  LET begins(s, whole) == s = whole \/ <<s, whole>> \in Begins
      plain == stem[1] = ""
  IN IF stem = Nowhere THEN 100
     ELSE IF name = stem \/ (plain /\ name[2] = stem[2]) THEN 0
     ELSE IF \/ plain /\ name[1] # "" /\ begins(stem[2], name[1])
             \/ stem[1] = name[1] /\ begins(stem[2], name[2]) THEN 10
     ELSE IF plain /\ begins(stem[2], name[2]) THEN 20 ELSE Unmatched

QueryCompletions(modules, now, stem) ==
  LET P == Placed(modules)
  IN {[name |-> n, rank |-> Rank(n, stem), place |-> BuiltIn] :
        n \in {m \in Prelude : Rank(m, stem) # Unmatched}}
     \union {[name |-> FullName(P[i]), rank |-> Rank(FullName(P[i]), stem),
              place |-> Located(modules, now, P[i])] :
        i \in {k \in Registry(P) : Rank(FullName(P[k]), stem) # Unmatched}}

QueryTypeAt(modules, at) == TypeThere(Placed(modules), at)

\* What a use stands for: a definition, or a name of the prelude.
Target(P, i, name) ==
  LET meant == Meant(P, i, name)
  IN IF meant.code # "found" THEN None
     ELSE [name |-> IF meant.to = 0 THEN name ELSE FullName(P[meant.to])]
TargetAt(P, at) ==
  IF IsUse(P, at) THEN Target(P, Position(P, at), NameAt(P, at)) ELSE None

QueryDefinition(modules, now, at) ==
  LET P == Placed(modules)
      d == ResolvedAt(P, at).to
  IN IF ~Resolved(P, at) THEN None
     ELSE IF d = 0 THEN [place |-> BuiltIn]
     ELSE IF ~Readable(now, P[d]) THEN None
     ELSE [place |-> Located(modules, now, P[d])]

QueryReferences(modules, now, at) ==
  LET P == Placed(modules)
      target == TargetAt(P, at)
      uses == {use \in UNION {{i} \X Uses(P[i]) : i \in DOMAIN P} :
                 /\ Target(P, use[1], use[2].name) = target
                 /\ Readable(now, P[use[1]])}
  IN IF target = None THEN {}
     ELSE {[place |-> Located(modules, now, P[use[1]]),
            part |-> use[2].part] : use \in uses}
=============================================================================
